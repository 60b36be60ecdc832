-------------------------- MODULE DatasetPlanProofs --------------------------
(***************************************************************************)
(* Theorems about the plan of a dataset scan, for every tree of filters,   *)
(* every statistics and every layout of baskets: metadata only exclude     *)
(* what no row satisfies, and the tasks of a plan hold each entry once.    *)
(***************************************************************************)
EXTENDS DatasetScan, NumberLemmas

-----------------------------------------------------------------------------
(***************************************************************************)
(* Trees.  A filter is evaluated from its leaves to its root.              *)
(***************************************************************************)

LEMMA TreeNodes ==
    ASSUME NEW e \in Expression, IsTree(e)
    PROVE  /\ Len(e) \in Nat /\ Len(e) \in 1 .. Len(e) /\ DOMAIN e = 1 .. Len(e)
           /\ \A n \in 1 .. Len(e) :
                /\ e[n] = [op |-> e[n].op, consts |-> e[n].consts, args |-> e[n].args]
                /\ e[n].consts \in Seq(Nat) /\ e[n].args \in Seq(Nat)
                /\ \A a \in ToSet(e[n].args) : a \in 1 .. Len(e) /\ a \in 1 .. n - 1
                /\ e[n].op \in Comparisons => e[n].consts[1] \in Nat /\ ToSet(e[n].consts) = {e[n].consts[1]}
                /\ e[n].op = "between" => e[n].consts[1] \in Nat /\ e[n].consts[2] \in Nat
                /\ e[n].op \in {"and", "or"} => Len(e[n].args) \in Nat /\ Len(e[n].args) >= 1
<1>1. e \in Seq(Node) /\ e # <<>>
  BY DEF Expression, IsTree
<1>2. Len(e) \in Nat /\ Len(e) # 0 /\ DOMAIN e = 1 .. Len(e) /\ \A n \in 1 .. Len(e) : e[n] \in Node
  BY <1>1
<1>3. ASSUME NEW n \in 1 .. Len(e)
      PROVE  /\ \A a \in ToSet(e[n].args) : a \in 1 .. Len(e) /\ a \in 1 .. n - 1
             /\ e[n].op \in Comparisons => e[n].consts[1] \in Nat /\ ToSet(e[n].consts) = {e[n].consts[1]}
             /\ e[n].op = "between" => e[n].consts[1] \in Nat /\ e[n].consts[2] \in Nat
             /\ e[n].op \in {"and", "or"} => Len(e[n].args) \in Nat /\ Len(e[n].args) >= 1
  <2>1. /\ ToSet(e[n].args) \subseteq 1 .. n - 1
        /\ e[n].op \in Comparisons => Len(e[n].consts) = 1
        /\ e[n].op = "between" => Len(e[n].consts) = 2
        /\ e[n].op \in {"and", "or"} => e[n].args # <<>>
    BY <1>2 DEF IsTree
  <2>2. e[n].consts \in Seq(Nat) /\ e[n].args \in Seq(Nat)
    BY <1>2 DEF Node
  <2>3. e[n].op \in Comparisons => ToSet(e[n].consts) = {e[n].consts[1]}
    BY <2>1, <2>2 DEF ToSet
  <2>4. \A a \in ToSet(e[n].args) : a \in 1 .. Len(e) /\ a \in 1 .. n - 1
    <3>1. n \in Nat /\ Len(e) \in Nat /\ n <= Len(e)
      BY <1>2
    <3>2. \A a \in 1 .. n - 1 : a \in 1 .. Len(e)
      BY ONLY <3>1
    <3>3. QED BY ONLY <2>1, <3>2
  <2>5. e[n].op \in Comparisons => e[n].consts[1] \in Nat
    BY ONLY <2>1, <2>2
  <2>6. e[n].op = "between" => e[n].consts[1] \in Nat /\ e[n].consts[2] \in Nat
    BY ONLY <2>1, <2>2
  <2>7. e[n].op \in {"and", "or"} => Len(e[n].args) \in Nat /\ Len(e[n].args) >= 1
    BY ONLY <2>1, <2>2
  <2>8. QED BY ONLY <2>3, <2>4, <2>5, <2>6, <2>7
<1>4. \A n \in 1 .. Len(e) : /\ e[n] = [op |-> e[n].op, consts |-> e[n].consts, args |-> e[n].args]
                             /\ e[n].consts \in Seq(Nat) /\ e[n].args \in Seq(Nat)
  BY <1>2 DEF Node
<1>5. Len(e) \in 1 .. Len(e)
  BY <1>2
<1>6. QED BY <1>2, <1>3, <1>4, <1>5, Zenon

\* A node looks at its children only.
LEMMA HoldsNodes ==
    ASSUME NEW e \in Expression, IsTree(e), NEW v
    PROVE  \E H : /\ H = [n \in 1 .. Len(e) |-> HoldsAt(e[n], H, v)]
                  /\ Holds(e, v) = H[Len(e)]
<1> DEFINE T == [1 .. Len(e) -> BOOLEAN]
           F == [p \in T \X (1 .. Len(e)) |-> HoldsAt(e[p[2]], p[1], v)]
<1>1. \A g \in T : \A n \in 1 .. Len(e) : F[<<g, n>>] = HoldsAt(e[n], g, v)
  OBVIOUS
<1>2. \A g \in T : \A n \in 1 .. Len(e) : F[<<g, n>>] \in BOOLEAN
  BY <1>1 DEF HoldsAt
<1>3. ASSUME NEW g \in T, NEW h \in T, NEW n \in 1 .. Len(e), \A m \in 1 .. n - 1 : g[m] = h[m]
      PROVE  F[<<g, n>>] = F[<<h, n>>]
  <2>1. \A a \in ToSet(e[n].args) : g[a] = h[a]
    BY <1>3, TreeNodes
  <2>2. HoldsAt(e[n], g, v) = HoldsAt(e[n], h, v)
    BY <2>1 DEF HoldsAt
  <2>3. QED BY <1>1, <2>2
<1> HIDE DEF F
<1>4. PICK f \in T : \A n \in 1 .. Len(e) : f[n] = F[<<f, n>>]
  <2>1. Len(e) \in Int /\ 1 \in Nat
    BY TreeNodes
  <2>2. BOOLEAN # {}
    BY TRUE \in BOOLEAN
  <2>3. Determines(F, 1, Len(e), BOOLEAN)
    BY <1>2, <1>3 DEF Determines
  <2>4. \E f \in T : Unfolds(f, F, 1, Len(e))
    BY <2>1, <2>2, <2>3, RecursionExists
  <2>5. QED BY <2>4 DEF Unfolds
<1>5. f = [n \in 1 .. Len(e) |-> HoldsAt(e[n], f, v)]
  BY <1>1, <1>4
<1>6. \E H : H = [n \in DOMAIN e |-> HoldsAt(e[n], H, v)]
  BY <1>5, TreeNodes
<1>7. \E H : H = [n \in DOMAIN e |-> HoldsAt(e[n], H, v)] /\ Holds(e, v) = H[Len(e)]
  BY <1>6 DEF Holds
<1>8. DOMAIN e = 1 .. Len(e)
  BY TreeNodes
<1>9. QED BY <1>7, <1>8

-----------------------------------------------------------------------------
(***************************************************************************)
(* Clauses.  A clause that is false excludes rows the filter rejects.      *)
(***************************************************************************)

LEMMA ClauseTypes ==
    /\ \A C : AllOf(C) \in SUBSET BOOLEAN /\ AnyOf(C) \in SUBSET BOOLEAN
    /\ \A op, c, zone, usable : ComparisonZonemapClause(op, c, zone, usable) \in SUBSET BOOLEAN
<1>1. \A C : AllOf(C) \in SUBSET BOOLEAN /\ AnyOf(C) \in SUBSET BOOLEAN
  BY DEF AllOf, AnyOf
<1>2. \A op, c, zone, usable : ComparisonZonemapClause(op, c, zone, usable) \in SUBSET BOOLEAN
  BY DEF ComparisonZonemapClause
<1>3. QED BY <1>1, <1>2

LEMMA ZonemapClauseAtType ==
    ASSUME NEW x, NEW Z, NEW zone, NEW usable
    PROVE  ZonemapClauseAt(x, Z, zone, usable) \in SUBSET BOOLEAN
BY ClauseTypes DEF ZonemapClauseAt

LEMMA ZonemapNodes ==
    ASSUME NEW e \in Expression, IsTree(e), NEW zone, NEW usable
    PROVE  \E Z : /\ Z = [n \in 1 .. Len(e) |-> ZonemapClauseAt(e[n], Z, zone, usable)]
                  /\ ZonemapClause(e, zone, usable) = Z[Len(e)]
<1> DEFINE T == [1 .. Len(e) -> SUBSET BOOLEAN]
           F == [p \in T \X (1 .. Len(e)) |-> ZonemapClauseAt(e[p[2]], p[1], zone, usable)]
<1>1. \A g \in T : \A n \in 1 .. Len(e) : F[<<g, n>>] = ZonemapClauseAt(e[n], g, zone, usable)
  OBVIOUS
<1>2. \A g \in T : \A n \in 1 .. Len(e) : F[<<g, n>>] \in SUBSET BOOLEAN
  BY <1>1, ZonemapClauseAtType
<1>3. ASSUME NEW g \in T, NEW h \in T, NEW n \in 1 .. Len(e), \A m \in 1 .. n - 1 : g[m] = h[m]
      PROVE  F[<<g, n>>] = F[<<h, n>>]
  <2>1. \A a \in ToSet(e[n].args) : g[a] = h[a]
    BY <1>3, TreeNodes
  <2>2. {g[a] : a \in ToSet(e[n].args)} = {h[a] : a \in ToSet(e[n].args)}
    BY <2>1
  <2>3. ZonemapClauseAt(e[n], g, zone, usable) = ZonemapClauseAt(e[n], h, zone, usable)
    BY <2>2, Zenon DEF ZonemapClauseAt
  <2>4. QED BY <1>1, <2>3
<1> HIDE DEF F
<1>4. PICK f \in T : \A n \in 1 .. Len(e) : f[n] = F[<<f, n>>]
  <2>1. Len(e) \in Int /\ 1 \in Nat
    BY TreeNodes
  <2>2. SUBSET BOOLEAN # {}
    BY {} \in SUBSET BOOLEAN
  <2>3. Determines(F, 1, Len(e), SUBSET BOOLEAN)
    BY <1>2, <1>3 DEF Determines
  <2>4. \E f \in T : Unfolds(f, F, 1, Len(e))
    BY <2>1, <2>2, <2>3, RecursionExists
  <2>5. QED BY <2>4 DEF Unfolds
<1>5. f = [n \in 1 .. Len(e) |-> ZonemapClauseAt(e[n], f, zone, usable)]
  BY <1>1, <1>4
<1>6. DOMAIN e = 1 .. Len(e)
  BY TreeNodes
<1>7. \E Z : Z = [n \in DOMAIN e |-> ZonemapClauseAt(e[n], Z, zone, usable)]
  BY <1>5, <1>6
<1>8. \E Z : /\ Z = [n \in DOMAIN e |-> ZonemapClauseAt(e[n], Z, zone, usable)]
             /\ ZonemapClause(e, zone, usable) = Z[Len(e)]
  BY <1>7 DEF ZonemapClause
<1>9. QED BY <1>6, <1>8

\* A clause on the extremes of a zone that holds v: what the constants beyond
\* the usable ones could exclude is not asked.
LEMMA ComparisonClauseSound ==
    ASSUME NEW op \in Comparisons, NEW c \in Nat, NEW v \in Nat, NEW usable,
           NEW zone, zone.min \in Nat, zone.max \in Nat, zone.minmax = TRUE,
           zone.min <= v, v <= zone.max, Test(op, v, c)
    PROVE  FALSE \notin ComparisonZonemapClause(op, c, zone, usable)
<1> DEFINE P == \/ op = "=" /\ zone.min <= c /\ zone.max >= c
                \/ op \in {"<", "<="} /\ Test(op, zone.min, c)
                \/ op \in {">", ">="} /\ Test(op, zone.max, c)
<1>1. CASE op = "<>"
  BY <1>1 DEF ComparisonZonemapClause
<1>2. CASE op # "<>"
  <2>1. op \in {"=", "<", "<=", ">", ">="}
    BY <1>2 DEF Comparisons
  <2>2. P
    BY <2>1 DEF Test
  <2>3. (zone.minmax /\ P) = TRUE
    BY <2>2, Zenon
  <2>4. QED BY <2>3, Zenon DEF ComparisonZonemapClause
<1>3. QED BY <1>1, <1>2

LEMMA ZonemapClauseAtSound ==
    ASSUME NEW x, NEW H, NEW Z, NEW v \in Nat, NEW usable,
           NEW zone, zone.min \in Nat, zone.max \in Nat, zone.minmax = TRUE,
           zone.min <= v, v <= zone.max, HoldsAt(x, H, v),
           x.op \in Comparisons => x.consts[1] \in Nat,
           x.op = "between" => x.consts[1] \in Nat /\ x.consts[2] \in Nat,
           \A a \in ToSet(x.args) : Z[a] \in SUBSET BOOLEAN /\ (H[a] => FALSE \notin Z[a])
    PROVE  FALSE \notin ZonemapClauseAt(x, Z, zone, usable)
<1> DEFINE Cmp(op, c) == ComparisonZonemapClause(op, c, zone, usable)
           Children == {Z[a] : a \in ToSet(x.args)}
<1>1. CASE x.op \in Comparisons
  <2>1. Test(x.op, v, x.consts[1])
    BY <1>1 DEF HoldsAt, Comparisons
  <2>2. FALSE \notin Cmp(x.op, x.consts[1])
    BY <1>1, <2>1, ComparisonClauseSound
  <2>3. QED BY <1>1, <2>2 DEF ZonemapClauseAt
<1>2. CASE x.op = "between"
  <2>1. Test(">=", v, x.consts[1]) /\ Test("<=", v, x.consts[2])
    BY <1>2 DEF HoldsAt, Comparisons, Test
  <2>2. ">=" \in Comparisons /\ "<=" \in Comparisons
    BY DEF Comparisons
  <2>3. FALSE \notin Cmp(">=", x.consts[1])
    BY <1>2, <2>1, <2>2, ComparisonClauseSound
  <2>4. FALSE \notin Cmp("<=", x.consts[2])
    BY <1>2, <2>1, <2>2, ComparisonClauseSound
  <2>5. FALSE \notin AllOf({Cmp(">=", x.consts[1]), Cmp("<=", x.consts[2])})
    BY <2>3, <2>4 DEF AllOf
  <2>6. QED BY <1>2, <2>5 DEF ZonemapClauseAt, Comparisons
<1>3. CASE x.op = "in"
  <2>1. v \in ToSet(x.consts)
    BY <1>3 DEF HoldsAt, Comparisons
  <2>2. Test("=", v, v) /\ "=" \in Comparisons
    BY DEF Comparisons, Test
  <2>3. FALSE \notin Cmp("=", v)
    BY <2>2, ComparisonClauseSound
  <2>4. Cmp("=", v) \in SUBSET BOOLEAN
    BY ClauseTypes
  <2>5. FALSE \notin AnyOf({Cmp("=", c) : c \in ToSet(x.consts)})
    <3>1. Cmp("=", v) \in {Cmp("=", c) : c \in ToSet(x.consts)}
      BY <2>1
    <3>2. Cmp("=", v) = {} \/ TRUE \in Cmp("=", v)
      BY <2>3, <2>4
    <3> HIDE DEF Cmp
    <3>3. QED BY <3>1, <3>2 DEF AnyOf
  <2>6. QED BY <1>3, <2>5 DEF ZonemapClauseAt, Comparisons
<1>4. CASE x.op = "and"
  <2>1. \A a \in ToSet(x.args) : H[a]
    BY <1>4 DEF HoldsAt, Comparisons
  <2>2. FALSE \notin UNION Children
    BY <2>1
  <2>3. FALSE \notin AllOf(Children)
    BY <2>2 DEF AllOf
  <2>4. QED BY <1>4, <2>3 DEF ZonemapClauseAt, Comparisons
<1>5. CASE x.op = "or"
  <2>1. PICK a \in ToSet(x.args) : H[a]
    BY <1>5 DEF HoldsAt, Comparisons
  <2>2. Z[a] = {} \/ TRUE \in Z[a]
    BY <2>1
  <2>3. FALSE \notin AnyOf(Children)
    BY <2>2 DEF AnyOf
  <2>4. QED BY <1>5, <2>3 DEF ZonemapClauseAt, Comparisons
<1>6. CASE x.op \notin Comparisons \cup {"between", "in", "and", "or"}
  BY <1>6 DEF ZonemapClauseAt
<1>7. QED BY <1>1, <1>2, <1>3, <1>4, <1>5, <1>6

\* DatasetTaskPlanner, zonemap SQL: a zone that holds a value the filter accepts
\* is never excluded.
LEMMA ZonemapClauseSound ==
    ASSUME NEW e \in Expression, IsTree(e), NEW v \in Nat, NEW usable,
           NEW zone, zone.min \in Nat, zone.max \in Nat, zone.minmax = TRUE,
           zone.min <= v, v <= zone.max, Holds(e, v)
    PROVE  FALSE \notin ZonemapClause(e, zone, usable)
<1>1. PICK H : H = [n \in 1 .. Len(e) |-> HoldsAt(e[n], H, v)] /\ Holds(e, v) = H[Len(e)]
  BY HoldsNodes
<1>2. PICK Z : /\ Z = [n \in 1 .. Len(e) |-> ZonemapClauseAt(e[n], Z, zone, usable)]
               /\ ZonemapClause(e, zone, usable) = Z[Len(e)]
  BY ZonemapNodes
<1> DEFINE G == {n \in 1 .. Len(e) : H[n] => FALSE \notin Z[n]}
<1>3. ASSUME NEW n \in 1 .. Len(e), \A m \in 1 .. n - 1 : m \in G PROVE n \in G
  <2> SUFFICES ASSUME HoldsAt(e[n], H, v) PROVE FALSE \notin ZonemapClauseAt(e[n], Z, zone, usable)
    BY <1>1, <1>2
  <2>1. \A a \in ToSet(e[n].args) : a \in 1 .. Len(e) /\ (H[a] => FALSE \notin Z[a])
    BY <1>3, TreeNodes
  <2>2. \A a \in 1 .. Len(e) : Z[a] = ZonemapClauseAt(e[a], Z, zone, usable)
    BY <1>2
  <2>3. \A a \in ToSet(e[n].args) : Z[a] \in SUBSET BOOLEAN /\ (H[a] => FALSE \notin Z[a])
    <3>1. \A a : ZonemapClauseAt(e[a], Z, zone, usable) \in SUBSET BOOLEAN
      BY ZonemapClauseAtType
    <3>2. \A a \in 1 .. Len(e) : Z[a] \in SUBSET BOOLEAN
      BY <2>2, <3>1, Zenon
    <3>3. QED BY <2>1, <3>2, Zenon
  <2>4. /\ e[n].op \in Comparisons => e[n].consts[1] \in Nat
        /\ e[n].op = "between" => e[n].consts[1] \in Nat /\ e[n].consts[2] \in Nat
    BY TreeNodes
  <2>5. QED BY <2>3, <2>4, ZonemapClauseAtSound
<1> HIDE DEF G
<1>4. \A n \in 1 .. Len(e) : n \in G
  <2>1. 1 \in Nat /\ Len(e) \in Int
    BY TreeNodes
  <2>2. QED BY <1>3, <2>1, IntervalInduction
<1>5. H[Len(e)] => FALSE \notin Z[Len(e)]
  BY <1>4, TreeNodes DEF G
<1>6. QED BY <1>1, <1>2, <1>5

-----------------------------------------------------------------------------
(***************************************************************************)
(* The clause on file_id, and the constants a Bloom filter is asked for.   *)
(***************************************************************************)

LEMMA StringClauseAtType ==
    ASSUME NEW x, NEW X, NEW id
    PROVE  StringClauseAt(x, X, id) \in SUBSET BOOLEAN
BY ClauseTypes DEF StringClauseAt

LEMMA StringClauseNodes ==
    ASSUME NEW e \in Expression, IsTree(e), NEW id
    PROVE  \E X : /\ X = [n \in 1 .. Len(e) |-> StringClauseAt(e[n], X, id)]
                  /\ ExactStringFilterClause(e, id) = X[Len(e)]
<1> DEFINE T == [1 .. Len(e) -> SUBSET BOOLEAN]
           F == [p \in T \X (1 .. Len(e)) |-> StringClauseAt(e[p[2]], p[1], id)]
<1>1. \A g \in T : \A n \in 1 .. Len(e) : F[<<g, n>>] = StringClauseAt(e[n], g, id)
  OBVIOUS
<1>2. \A g \in T : \A n \in 1 .. Len(e) : F[<<g, n>>] \in SUBSET BOOLEAN
  BY <1>1, StringClauseAtType
<1>3. ASSUME NEW g \in T, NEW h \in T, NEW n \in 1 .. Len(e), \A m \in 1 .. n - 1 : g[m] = h[m]
      PROVE  F[<<g, n>>] = F[<<h, n>>]
  <2>1. \A a \in ToSet(e[n].args) : g[a] = h[a]
    BY <1>3, TreeNodes
  <2>2. {g[a] : a \in ToSet(e[n].args)} = {h[a] : a \in ToSet(e[n].args)}
    BY <2>1
  <2>3. StringClauseAt(e[n], g, id) = StringClauseAt(e[n], h, id)
    BY <2>2, Zenon DEF StringClauseAt
  <2>4. QED BY <1>1, <2>3
<1> HIDE DEF F
<1>4. PICK f \in T : \A n \in 1 .. Len(e) : f[n] = F[<<f, n>>]
  <2>1. Len(e) \in Int /\ 1 \in Nat
    BY TreeNodes
  <2>2. SUBSET BOOLEAN # {}
    BY {} \in SUBSET BOOLEAN
  <2>3. Determines(F, 1, Len(e), SUBSET BOOLEAN)
    BY <1>2, <1>3 DEF Determines
  <2>4. \E f \in T : Unfolds(f, F, 1, Len(e))
    BY <2>1, <2>2, <2>3, RecursionExists
  <2>5. QED BY <2>4 DEF Unfolds
<1>5. f = [n \in 1 .. Len(e) |-> StringClauseAt(e[n], f, id)]
  BY <1>1, <1>4
<1>6. DOMAIN e = 1 .. Len(e)
  BY TreeNodes
<1>7. \E X : X = [n \in DOMAIN e |-> StringClauseAt(e[n], X, id)]
  BY <1>5, <1>6
<1>8. \E X : /\ X = [n \in DOMAIN e |-> StringClauseAt(e[n], X, id)]
             /\ ExactStringFilterClause(e, id) = X[Len(e)]
  BY <1>7 DEF ExactStringFilterClause
<1>9. QED BY <1>6, <1>8

LEMMA StringClauseAtSound ==
    ASSUME NEW x, NEW H, NEW X, NEW id, HoldsAt(x, H, id),
           x.op \in Comparisons => ToSet(x.consts) = {x.consts[1]},
           \A a \in ToSet(x.args) : X[a] \in SUBSET BOOLEAN /\ (H[a] => FALSE \notin X[a])
    PROVE  FALSE \notin StringClauseAt(x, X, id)
<1> DEFINE Children == {X[a] : a \in ToSet(x.args)}
<1>1. CASE x.op = "=" \/ x.op = "in"
  <2>1. id \in ToSet(x.consts)
    BY <1>1 DEF HoldsAt, Comparisons, Test
  <2>2. (id \in ToSet(x.consts)) = TRUE
    BY <2>1
  <2>3. QED BY <1>1, <2>2 DEF StringClauseAt
<1>2. CASE x.op = "and"
  <2>1. \A a \in ToSet(x.args) : H[a]
    BY <1>2 DEF HoldsAt, Comparisons
  <2>2. FALSE \notin UNION Children
    BY <2>1
  <2>3. FALSE \notin AllOf(Children)
    BY <2>2 DEF AllOf
  <2>4. QED BY <1>2, <2>3 DEF StringClauseAt
<1>3. CASE x.op = "or"
  <2>1. PICK a \in ToSet(x.args) : H[a]
    BY <1>3 DEF HoldsAt, Comparisons
  <2>2. X[a] = {} \/ TRUE \in X[a]
    BY <2>1
  <2>3. FALSE \notin AnyOf(Children)
    BY <2>2 DEF AnyOf
  <2>4. QED BY <1>3, <2>3 DEF StringClauseAt
<1>4. CASE x.op \notin {"=", "in", "and", "or"}
  BY <1>4 DEF StringClauseAt
<1>5. QED BY <1>1, <1>2, <1>3, <1>4

\* ExactStringFilterClause: the file of a row the filter accepts is not excluded.
LEMMA StringClauseSound ==
    ASSUME NEW e \in Expression, IsTree(e), NEW id, Holds(e, id)
    PROVE  FALSE \notin ExactStringFilterClause(e, id)
<1>1. PICK H : H = [n \in 1 .. Len(e) |-> HoldsAt(e[n], H, id)] /\ Holds(e, id) = H[Len(e)]
  BY HoldsNodes
<1>2. PICK X : /\ X = [n \in 1 .. Len(e) |-> StringClauseAt(e[n], X, id)]
               /\ ExactStringFilterClause(e, id) = X[Len(e)]
  BY StringClauseNodes
<1> DEFINE G == {n \in 1 .. Len(e) : H[n] => FALSE \notin X[n]}
<1>3. ASSUME NEW n \in 1 .. Len(e), \A m \in 1 .. n - 1 : m \in G PROVE n \in G
  <2> SUFFICES ASSUME HoldsAt(e[n], H, id) PROVE FALSE \notin StringClauseAt(e[n], X, id)
    BY <1>1, <1>2
  <2>1. \A a \in ToSet(e[n].args) : a \in 1 .. Len(e) /\ (H[a] => FALSE \notin X[a])
    BY <1>3, TreeNodes
  <2>2. \A a \in 1 .. Len(e) : X[a] = StringClauseAt(e[a], X, id)
    BY <1>2
  <2>3. \A a \in ToSet(e[n].args) : X[a] \in SUBSET BOOLEAN /\ (H[a] => FALSE \notin X[a])
    <3>1. \A a : StringClauseAt(e[a], X, id) \in SUBSET BOOLEAN
      BY StringClauseAtType
    <3>2. \A a \in 1 .. Len(e) : X[a] \in SUBSET BOOLEAN
      BY <2>2, <3>1, Zenon
    <3>3. QED BY <2>1, <3>2, Zenon
  <2>4. e[n].op \in Comparisons => ToSet(e[n].consts) = {e[n].consts[1]}
    BY TreeNodes
  <2>5. QED BY <2>3, <2>4, StringClauseAtSound
<1> HIDE DEF G
<1>4. \A n \in 1 .. Len(e) : n \in G
  <2>1. 1 \in Nat /\ Len(e) \in Int
    BY TreeNodes
  <2>2. QED BY <1>3, <2>1, IntervalInduction
<1>5. H[Len(e)] => FALSE \notin X[Len(e)]
  BY <1>4, TreeNodes DEF G
<1>6. QED BY <1>1, <1>2, <1>5

LEMMA EqualityConstantsNodes ==
    ASSUME NEW e \in Expression, IsTree(e)
    PROVE  \E E : /\ E = [n \in 1 .. Len(e) |-> EqualityConstantsAt(e[n], E)]
                  /\ ExtractEqualityConstants(e) = E[Len(e)]
<1> DEFINE T == [1 .. Len(e) -> SUBSET SUBSET Nat]
           F == [p \in T \X (1 .. Len(e)) |-> EqualityConstantsAt(e[p[2]], p[1])]
<1>1. \A g \in T : \A n \in 1 .. Len(e) : F[<<g, n>>] = EqualityConstantsAt(e[n], g)
  OBVIOUS
<1>2. ASSUME NEW g \in T, NEW n \in 1 .. Len(e) PROVE F[<<g, n>>] \in SUBSET SUBSET Nat
  <2>1. e[n].consts \in Seq(Nat) /\ \A a \in ToSet(e[n].args) : a \in 1 .. Len(e)
    BY TreeNodes
  <2>2. ToSet(e[n].consts) \subseteq Nat
    BY <2>1 DEF ToSet
  <2>3. UNION UNION {g[a] : a \in ToSet(e[n].args)} \subseteq Nat
    BY <2>1
  <2>4. EqualityConstantsAt(e[n], g) \in SUBSET SUBSET Nat
    <3>1. CASE e[n].op = "=" \/ e[n].op = "in"
      BY <2>2, <3>1 DEF EqualityConstantsAt
    <3>2. CASE ~ (e[n].op = "=" \/ e[n].op = "in")
      <4> DEFINE C == {g[a] : a \in ToSet(e[n].args)}
      <4>1. EqualityConstantsAt(e[n], g) = {UNION UNION C} \/ EqualityConstantsAt(e[n], g) = {}
        BY <3>2, Zenon DEF EqualityConstantsAt
      <4> HIDE DEF C
      <4>2. UNION UNION C \subseteq Nat
        BY <2>3 DEF C
      <4>3. QED BY <4>1, <4>2
    <3>3. QED BY <3>1, <3>2
  <2>5. QED BY <1>1, <2>4
<1>3. ASSUME NEW g \in T, NEW h \in T, NEW n \in 1 .. Len(e), \A m \in 1 .. n - 1 : g[m] = h[m]
      PROVE  F[<<g, n>>] = F[<<h, n>>]
  <2>1. \A a \in ToSet(e[n].args) : g[a] = h[a]
    BY <1>3, TreeNodes
  <2>2. {g[a] : a \in ToSet(e[n].args)} = {h[a] : a \in ToSet(e[n].args)}
    BY <2>1
  <2>3. EqualityConstantsAt(e[n], g) = EqualityConstantsAt(e[n], h)
    BY <2>2, Zenon DEF EqualityConstantsAt
  <2>4. QED BY <1>1, <2>3
<1> HIDE DEF F
<1>4. PICK f \in T : \A n \in 1 .. Len(e) : f[n] = F[<<f, n>>]
  <2>1. Len(e) \in Int /\ 1 \in Nat
    BY TreeNodes
  <2>2. SUBSET SUBSET Nat # {}
    BY {} \in SUBSET SUBSET Nat
  <2>3. Determines(F, 1, Len(e), SUBSET SUBSET Nat)
    BY <1>2, <1>3 DEF Determines
  <2>4. \E f \in T : Unfolds(f, F, 1, Len(e))
    <3> DEFINE S == SUBSET SUBSET Nat
    <3>1. S # {} /\ Determines(F, 1, Len(e), S)
      BY <2>2, <2>3
    <3> HIDE DEF S
    <3>2. \E f \in [1 .. Len(e) -> S] : Unfolds(f, F, 1, Len(e))
      BY <2>1, <3>1, RecursionExists
    <3>3. QED BY <3>2 DEF S
  <2>5. QED BY <2>4 DEF Unfolds
<1>5. f = [n \in 1 .. Len(e) |-> EqualityConstantsAt(e[n], f)]
  BY <1>1, <1>4
<1>6. DOMAIN e = 1 .. Len(e)
  BY TreeNodes
<1>7. \E E : E = [n \in DOMAIN e |-> EqualityConstantsAt(e[n], E)]
  BY <1>5, <1>6
<1>8. \E E : /\ E = [n \in DOMAIN e |-> EqualityConstantsAt(e[n], E)]
             /\ ExtractEqualityConstants(e) = E[Len(e)]
  BY <1>7 DEF ExtractEqualityConstants
<1>9. QED BY <1>6, <1>8

\* BloomMayContainFilter: a filter with a value of the basket in it is not excluded.
LEMMA EqualityConstantsSound ==
    ASSUME NEW e \in Expression, IsTree(e), NEW v, Holds(e, v),
           NEW S \in ExtractEqualityConstants(e)
    PROVE  v \in S
<1>1. PICK H : H = [n \in 1 .. Len(e) |-> HoldsAt(e[n], H, v)] /\ Holds(e, v) = H[Len(e)]
  BY HoldsNodes
<1>2. PICK E : /\ E = [n \in 1 .. Len(e) |-> EqualityConstantsAt(e[n], E)]
               /\ ExtractEqualityConstants(e) = E[Len(e)]
  BY EqualityConstantsNodes
<1> DEFINE G == {n \in 1 .. Len(e) : H[n] => \A C \in E[n] : v \in C}
<1>3. ASSUME NEW n \in 1 .. Len(e), \A m \in 1 .. n - 1 : m \in G PROVE n \in G
  <2> SUFFICES ASSUME HoldsAt(e[n], H, v), NEW C \in EqualityConstantsAt(e[n], E) PROVE v \in C
    BY <1>1, <1>2
  <2>1. \A a \in ToSet(e[n].args) : H[a] => \A D \in E[a] : v \in D
    BY <1>3, TreeNodes
  <2>2. e[n].op \in Comparisons => ToSet(e[n].consts) = {e[n].consts[1]}
    BY TreeNodes
  <2>3. CASE e[n].op = "=" \/ e[n].op = "in"
    <3>1. v \in ToSet(e[n].consts)
      BY <2>2, <2>3 DEF HoldsAt, Comparisons, Test
    <3>2. QED BY <2>3, <3>1 DEF EqualityConstantsAt
  <2>4. CASE e[n].op = "or"
    <3>1. PICK a \in ToSet(e[n].args) : H[a]
      BY <2>4 DEF HoldsAt, Comparisons
    <3>2. E[a] # {} /\ C = UNION UNION {E[b] : b \in ToSet(e[n].args)}
      BY <2>4, <3>1 DEF EqualityConstantsAt
    <3>3. PICK D \in E[a] : TRUE
      BY <3>2
    <3>4. v \in D
      BY <2>1, <3>1, <3>3
    <3>5. QED BY <3>1, <3>2, <3>3, <3>4
  <2>5. CASE e[n].op \notin {"=", "in", "or"}
    BY <2>5 DEF EqualityConstantsAt
  <2>6. QED BY <2>3, <2>4, <2>5
<1> HIDE DEF G
<1>4. \A n \in 1 .. Len(e) : n \in G
  <2>1. 1 \in Nat /\ Len(e) \in Int
    BY TreeNodes
  <2>2. QED BY <1>3, <2>1, IntervalInduction
<1>5. H[Len(e)] => \A C \in E[Len(e)] : v \in C
  BY <1>4, TreeNodes DEF G
<1>6. QED BY <1>1, <1>2, <1>5

LEMMA BloomFilterSound ==
    ASSUME NEW e \in Expression, IsTree(e), NEW v, Holds(e, v), NEW bloom, MayContain(bloom, v)
    PROVE  BloomMayContainFilter(e, bloom)
BY EqualityConstantsSound DEF BloomMayContainFilter

-----------------------------------------------------------------------------
(***************************************************************************)
(* Ranges of entry_id and event_fk.  A range admits a value it does not    *)
(* exclude.                                                                *)
(***************************************************************************)

RangeSet == [known: BOOLEAN, impossible: BOOLEAN, lower: Nat, upper: Nat]
Admits(r, v) == r.known => ~r.impossible /\ r.lower <= v /\ v <= r.upper

LEMMA MaxOfTwo ==
    ASSUME NEW a \in Int, NEW b \in Int
    PROVE  Max({a, b}) = IF a >= b THEN a ELSE b
BY DEF Max

LEMMA MinOfTwo ==
    ASSUME NEW a \in Int, NEW b \in Int
    PROVE  Min({a, b}) = IF a <= b THEN a ELSE b
BY DEF Min

LEMMA RangeTypes ==
    /\ UnknownRange \in RangeSet /\ EmptyRange \in RangeSet
    /\ \A lo, hi \in Nat : RangeOf(lo, hi) \in RangeSet
BY PruneAssumption DEF UnknownRange, EmptyRange, RangeOf, RangeSet

LEMMA IntersectRangesSound ==
    ASSUME NEW l \in RangeSet, NEW r \in RangeSet, NEW v \in Nat
    PROVE  /\ IntersectRanges(l, r) \in RangeSet
           /\ Admits(l, v) /\ Admits(r, v) => Admits(IntersectRanges(l, r), v)
<1> DEFINE lo == Max({l.lower, r.lower})
           hi == Min({l.upper, r.upper})
<1>1. l.lower \in Nat /\ r.lower \in Nat /\ l.upper \in Nat /\ r.upper \in Nat
  BY DEF RangeSet
<1>2. lo = IF l.lower >= r.lower THEN l.lower ELSE r.lower
  BY <1>1, MaxOfTwo
<1>3. hi = IF l.upper <= r.upper THEN l.upper ELSE r.upper
  BY <1>1, MinOfTwo
<1>4. IntersectRanges(l, r) = IF ~l.known THEN r ELSE IF ~r.known THEN l
                              ELSE IF l.impossible \/ r.impossible \/ lo > hi THEN EmptyRange ELSE RangeOf(lo, hi)
  BY DEF IntersectRanges
<1> HIDE DEF lo, hi
<1>5. lo \in Nat /\ hi \in Nat
  BY <1>1, <1>2, <1>3
<1>6. IntersectRanges(l, r) \in RangeSet
  BY <1>4, <1>5, RangeTypes
<1>7. ASSUME Admits(l, v), Admits(r, v) PROVE Admits(IntersectRanges(l, r), v)
  <2>1. CASE ~l.known \/ ~r.known
    BY <1>4, <1>7, <2>1
  <2>2. CASE l.known /\ r.known
    <3>1. ~l.impossible /\ ~r.impossible /\ l.lower <= v /\ v <= l.upper /\ r.lower <= v /\ v <= r.upper
      BY <1>7, <2>2 DEF Admits
    <3>2. lo <= v /\ v <= hi /\ ~ (lo > hi)
      BY <1>1, <1>2, <1>3, <3>1
    <3>3. IntersectRanges(l, r) = RangeOf(lo, hi)
      BY <1>4, <2>2, <3>1, <3>2
    <3>4. QED BY <3>2, <3>3 DEF Admits, RangeOf
  <2>3. QED BY <2>1, <2>2
<1>8. QED BY <1>6, <1>7

LEMMA UnionRangesSound ==
    ASSUME NEW l \in RangeSet, NEW r \in RangeSet, NEW v \in Nat
    PROVE  /\ UnionRanges(l, r) \in RangeSet
           /\ Admits(l, v) \/ Admits(r, v) => Admits(UnionRanges(l, r), v)
<1> DEFINE lo == Min({l.lower, r.lower})
           hi == Max({l.upper, r.upper})
<1>1. l.lower \in Nat /\ r.lower \in Nat /\ l.upper \in Nat /\ r.upper \in Nat
  BY DEF RangeSet
<1>2. lo = IF l.lower <= r.lower THEN l.lower ELSE r.lower
  BY <1>1, MinOfTwo
<1>3. hi = IF l.upper >= r.upper THEN l.upper ELSE r.upper
  BY <1>1, MaxOfTwo
<1>4. UnionRanges(l, r) = IF ~l.known \/ ~r.known THEN UnknownRange ELSE IF l.impossible THEN r
                          ELSE IF r.impossible THEN l ELSE RangeOf(lo, hi)
  BY DEF UnionRanges
<1> HIDE DEF lo, hi
<1>5. lo \in Nat /\ hi \in Nat
  BY <1>1, <1>2, <1>3
<1>6. UnionRanges(l, r) \in RangeSet
  BY <1>4, <1>5, RangeTypes
<1>7. ASSUME Admits(l, v) \/ Admits(r, v) PROVE Admits(UnionRanges(l, r), v)
  <2>1. CASE ~l.known \/ ~r.known
    BY <1>4, <2>1 DEF Admits, UnknownRange
  <2>2. CASE l.known /\ r.known /\ (l.impossible \/ r.impossible)
    BY <1>4, <1>7, <2>2 DEF Admits
  <2>3. CASE l.known /\ r.known /\ ~l.impossible /\ ~r.impossible
    <3>1. lo <= v /\ v <= hi
      BY <1>1, <1>2, <1>3, <1>7, <2>3 DEF Admits
    <3>2. UnionRanges(l, r) = RangeOf(lo, hi)
      BY <1>4, <2>3
    <3>3. QED BY <3>1, <3>2 DEF Admits, RangeOf
  <2>4. QED BY <2>1, <2>2, <2>3
<1>8. QED BY <1>6, <1>7

LEMMA ComparisonRangeSound ==
    ASSUME NEW op, NEW c \in Nat, NEW v \in Nat
    PROVE  /\ ComparisonRange(op, c) \in RangeSet
           /\ Test(op, v, c) /\ v <= MaxWord => Admits(ComparisonRange(op, c), v)
<1>1. MaxWord \in Nat
  BY PruneAssumption
<1>2. ComparisonRange(op, c) \in RangeSet
  BY <1>1, RangeTypes DEF ComparisonRange
<1>3. ASSUME Test(op, v, c), v <= MaxWord PROVE Admits(ComparisonRange(op, c), v)
  BY <1>1, <1>3 DEF Test, Admits, ComparisonRange, RangeOf, EmptyRange, UnknownRange
<1>4. QED BY <1>2, <1>3


\* AllRanges looks at the ranges of the children only, one by one.
LEMMA AllRangesNodes ==
    ASSUME NEW x, x.args \in Seq(Nat), Len(x.args) >= 1, NEW R,
           \A a \in ToSet(x.args) : R[a] \in RangeSet
    PROVE  \E A : /\ A \in [1 .. Len(x.args) -> RangeSet]
                  /\ A = [i \in 1 .. Len(x.args) |->
                            IF i = 1 THEN R[x.args[1]] ELSE IntersectRanges(A[i - 1], R[x.args[i]])]
                  /\ AllRanges(x, R) = A[Len(x.args)]
<1> DEFINE N == Len(x.args)
           T == [1 .. N -> RangeSet]
           Value1(g, i) == IF i = 1 THEN R[x.args[1]] ELSE IntersectRanges(g[i - 1], R[x.args[i]])
           F == [p \in T \X (1 .. N) |-> Value1(p[1], p[2])]
<1>1. N \in Nat /\ N \in Int /\ 1 \in Nat /\ DOMAIN x.args = 1 .. N /\ \A i \in 1 .. N : R[x.args[i]] \in RangeSet
  <2>1. N \in Nat /\ DOMAIN x.args = 1 .. N
    OBVIOUS
  <2>2. \A i \in 1 .. N : x.args[i] \in ToSet(x.args)
    BY <2>1 DEF ToSet
  <2>3. QED BY <2>1, <2>2
<1> HIDE DEF N
<1>2. \A g \in T : \A n \in 1 .. N : F[<<g, n>>] = Value1(g, n)
  OBVIOUS
<1>3. ASSUME NEW g \in T, NEW n \in 1 .. N PROVE Value1(g, n) \in RangeSet
  <2>1. CASE n = 1
    BY <1>1, <2>1
  <2>2. CASE n # 1
    <3>1. n - 1 \in 1 .. N
      BY <1>1, <2>2
    <3>2. IntersectRanges(g[n - 1], R[x.args[n]]) \in RangeSet
      BY <1>1, <3>1, IntersectRangesSound
    <3>3. QED BY <2>2, <3>2
  <2>3. QED BY <2>1, <2>2
<1>4. ASSUME NEW g \in T, NEW h \in T, NEW n \in 1 .. N, \A m \in 1 .. n - 1 : g[m] = h[m]
      PROVE  F[<<g, n>>] = F[<<h, n>>]
  <2>1. n = 1 \/ n - 1 \in 1 .. n - 1
    BY <1>1
  <2>2. Value1(g, n) = Value1(h, n)
    BY <1>4, <2>1
  <2>3. QED BY <1>2, <2>2
<1>5. Determines(F, 1, N, RangeSet)
  <2>1. \A g \in T : \A n \in 1 .. N : F[<<g, n>>] \in RangeSet
    BY <1>2, <1>3
  <2> HIDE DEF F
  <2>2. QED BY <2>1, <1>4 DEF Determines
<1>6. RangeSet # {}
  BY RangeTypes
<1>7. PICK f \in T : \A n \in 1 .. N : f[n] = Value1(f, n)
  <2> HIDE DEF F
  <2>1. \E f \in T : Unfolds(f, F, 1, N)
    BY <1>1, <1>5, <1>6, RecursionExists
  <2>2. PICK f \in T : Unfolds(f, F, 1, N)
    BY <2>1
  <2>3. \A n \in 1 .. N : f[n] = F[<<f, n>>]
    BY <2>2 DEF Unfolds
  <2> HIDE DEF Value1
  <2>4. \A n \in 1 .. N : f[n] = Value1(f, n)
    BY <1>2, <2>3
  <2>5. QED BY <2>4
<1>8. f = [i \in DOMAIN x.args |-> IF i = 1 THEN R[x.args[1]] ELSE IntersectRanges(f[i - 1], R[x.args[i]])]
  BY <1>1, <1>7
<1>9. \E A : /\ A = [i \in DOMAIN x.args |-> IF i = 1 THEN R[x.args[1]] ELSE IntersectRanges(A[i - 1], R[x.args[i]])]
             /\ AllRanges(x, R) = A[Len(x.args)]
  BY <1>8 DEF AllRanges
<1>10. PICK A : /\ A = [i \in 1 .. N |-> IF i = 1 THEN R[x.args[1]] ELSE IntersectRanges(A[i - 1], R[x.args[i]])]
                /\ AllRanges(x, R) = A[Len(x.args)]
  BY <1>1, <1>9
<1> DEFINE G == {i \in 1 .. N : A[i] \in RangeSet}
<1>11. ASSUME NEW n \in 1 .. N, \A m \in 1 .. n - 1 : m \in G PROVE n \in G
  <2>1. CASE n = 1
    BY <1>1, <1>10, <2>1
  <2>2. CASE n # 1
    <3>1. n - 1 \in 1 .. n - 1
      BY <1>1, <2>2
    <3>2. A[n - 1] \in RangeSet
      BY <3>1, <1>11
    <3>3. A[n] = IntersectRanges(A[n - 1], R[x.args[n]])
      BY <1>10, <2>2
    <3>4. QED BY <1>1, <3>2, <3>3, IntersectRangesSound
  <2>3. QED BY <2>1, <2>2
<1> HIDE DEF G
<1>12. \A n \in 1 .. N : n \in G
  BY <1>1, <1>11, IntervalInduction
<1>13. A \in T
  BY <1>10, <1>12 DEF G
<1>14. QED BY <1>10, <1>13 DEF N

LEMMA AllRangesSame ==
    ASSUME NEW x, x.args \in Seq(Nat), Len(x.args) >= 1, NEW R, NEW Q,
           \A a \in ToSet(x.args) : R[a] \in RangeSet /\ R[a] = Q[a]
    PROVE  AllRanges(x, R) = AllRanges(x, Q)
<1> DEFINE N == Len(x.args)
<1>1. N \in Nat /\ \A i \in 1 .. N : x.args[i] \in ToSet(x.args)
  BY DEF ToSet
<1>2. PICK A : /\ A = [i \in 1 .. N |-> IF i = 1 THEN R[x.args[1]] ELSE IntersectRanges(A[i - 1], R[x.args[i]])]
               /\ AllRanges(x, R) = A[N]
  BY AllRangesNodes
<1>3. PICK B : /\ B = [i \in 1 .. N |-> IF i = 1 THEN Q[x.args[1]] ELSE IntersectRanges(B[i - 1], Q[x.args[i]])]
               /\ AllRanges(x, Q) = B[N]
  BY AllRangesNodes
<1> DEFINE G == {i \in 1 .. N : A[i] = B[i]}
<1> HIDE DEF N
<1>4. ASSUME NEW n \in 1 .. N, \A m \in 1 .. n - 1 : m \in G PROVE n \in G
  <2>1. n = 1 \/ n - 1 \in 1 .. n - 1
    BY <1>1
  <2>2. n = 1 \/ A[n - 1] = B[n - 1]
    BY <1>4, <2>1
  <2>3. R[x.args[n]] = Q[x.args[n]]
    BY <1>1
  <2>4. A[n] = IF n = 1 THEN R[x.args[1]] ELSE IntersectRanges(A[n - 1], R[x.args[n]])
    BY <1>2
  <2>5. B[n] = IF n = 1 THEN Q[x.args[1]] ELSE IntersectRanges(B[n - 1], Q[x.args[n]])
    BY <1>3
  <2>6. A[n] = B[n]
    BY <2>2, <2>3, <2>4, <2>5
  <2>7. QED BY <2>6
<1> HIDE DEF G
<1>5. \A n \in 1 .. N : n \in G
  <2>1. 1 \in Nat /\ N \in Int
    BY <1>1
  <2>2. QED BY <1>4, <2>1, IntervalInduction
<1>6. N \in 1 .. N
  BY <1>1 DEF N
<1>7. QED BY <1>2, <1>3, <1>5, <1>6 DEF G

\* AnyRange looks at the ranges of the children only, one by one.
LEMMA AnyRangeNodes ==
    ASSUME NEW x, x.args \in Seq(Nat), Len(x.args) >= 1, NEW R,
           \A a \in ToSet(x.args) : R[a] \in RangeSet
    PROVE  \E A : /\ A \in [1 .. Len(x.args) -> RangeSet]
                  /\ A = [i \in 1 .. Len(x.args) |->
                            IF i = 1 THEN R[x.args[1]] ELSE UnionRanges(A[i - 1], R[x.args[i]])]
                  /\ AnyRange(x, R) = A[Len(x.args)]
<1> DEFINE N == Len(x.args)
           T == [1 .. N -> RangeSet]
           Value1(g, i) == IF i = 1 THEN R[x.args[1]] ELSE UnionRanges(g[i - 1], R[x.args[i]])
           F == [p \in T \X (1 .. N) |-> Value1(p[1], p[2])]
<1>1. N \in Nat /\ N \in Int /\ 1 \in Nat /\ DOMAIN x.args = 1 .. N /\ \A i \in 1 .. N : R[x.args[i]] \in RangeSet
  <2>1. N \in Nat /\ DOMAIN x.args = 1 .. N
    OBVIOUS
  <2>2. \A i \in 1 .. N : x.args[i] \in ToSet(x.args)
    BY <2>1 DEF ToSet
  <2>3. QED BY <2>1, <2>2
<1> HIDE DEF N
<1>2. \A g \in T : \A n \in 1 .. N : F[<<g, n>>] = Value1(g, n)
  OBVIOUS
<1>3. ASSUME NEW g \in T, NEW n \in 1 .. N PROVE Value1(g, n) \in RangeSet
  <2>1. CASE n = 1
    BY <1>1, <2>1
  <2>2. CASE n # 1
    <3>1. n - 1 \in 1 .. N
      BY <1>1, <2>2
    <3>2. UnionRanges(g[n - 1], R[x.args[n]]) \in RangeSet
      BY <1>1, <3>1, UnionRangesSound
    <3>3. QED BY <2>2, <3>2
  <2>3. QED BY <2>1, <2>2
<1>4. ASSUME NEW g \in T, NEW h \in T, NEW n \in 1 .. N, \A m \in 1 .. n - 1 : g[m] = h[m]
      PROVE  F[<<g, n>>] = F[<<h, n>>]
  <2>1. n = 1 \/ n - 1 \in 1 .. n - 1
    BY <1>1
  <2>2. Value1(g, n) = Value1(h, n)
    BY <1>4, <2>1
  <2>3. QED BY <1>2, <2>2
<1>5. Determines(F, 1, N, RangeSet)
  <2>1. \A g \in T : \A n \in 1 .. N : F[<<g, n>>] \in RangeSet
    BY <1>2, <1>3
  <2> HIDE DEF F
  <2>2. QED BY <2>1, <1>4 DEF Determines
<1>6. RangeSet # {}
  BY RangeTypes
<1>7. PICK f \in T : \A n \in 1 .. N : f[n] = Value1(f, n)
  <2> HIDE DEF F
  <2>1. \E f \in T : Unfolds(f, F, 1, N)
    BY <1>1, <1>5, <1>6, RecursionExists
  <2>2. PICK f \in T : Unfolds(f, F, 1, N)
    BY <2>1
  <2>3. \A n \in 1 .. N : f[n] = F[<<f, n>>]
    BY <2>2 DEF Unfolds
  <2> HIDE DEF Value1
  <2>4. \A n \in 1 .. N : f[n] = Value1(f, n)
    BY <1>2, <2>3
  <2>5. QED BY <2>4
<1>8. f = [i \in DOMAIN x.args |-> IF i = 1 THEN R[x.args[1]] ELSE UnionRanges(f[i - 1], R[x.args[i]])]
  BY <1>1, <1>7
<1>9. \E A : /\ A = [i \in DOMAIN x.args |-> IF i = 1 THEN R[x.args[1]] ELSE UnionRanges(A[i - 1], R[x.args[i]])]
             /\ AnyRange(x, R) = A[Len(x.args)]
  BY <1>8 DEF AnyRange
<1>10. PICK A : /\ A = [i \in 1 .. N |-> IF i = 1 THEN R[x.args[1]] ELSE UnionRanges(A[i - 1], R[x.args[i]])]
                /\ AnyRange(x, R) = A[Len(x.args)]
  BY <1>1, <1>9
<1> DEFINE G == {i \in 1 .. N : A[i] \in RangeSet}
<1>11. ASSUME NEW n \in 1 .. N, \A m \in 1 .. n - 1 : m \in G PROVE n \in G
  <2>1. CASE n = 1
    BY <1>1, <1>10, <2>1
  <2>2. CASE n # 1
    <3>1. n - 1 \in 1 .. n - 1
      BY <1>1, <2>2
    <3>2. A[n - 1] \in RangeSet
      BY <3>1, <1>11
    <3>3. A[n] = UnionRanges(A[n - 1], R[x.args[n]])
      BY <1>10, <2>2
    <3>4. QED BY <1>1, <3>2, <3>3, UnionRangesSound
  <2>3. QED BY <2>1, <2>2
<1> HIDE DEF G
<1>12. \A n \in 1 .. N : n \in G
  BY <1>1, <1>11, IntervalInduction
<1>13. A \in T
  BY <1>10, <1>12 DEF G
<1>14. QED BY <1>10, <1>13 DEF N

LEMMA AnyRangeSame ==
    ASSUME NEW x, x.args \in Seq(Nat), Len(x.args) >= 1, NEW R, NEW Q,
           \A a \in ToSet(x.args) : R[a] \in RangeSet /\ R[a] = Q[a]
    PROVE  AnyRange(x, R) = AnyRange(x, Q)
<1> DEFINE N == Len(x.args)
<1>1. N \in Nat /\ \A i \in 1 .. N : x.args[i] \in ToSet(x.args)
  BY DEF ToSet
<1>2. PICK A : /\ A = [i \in 1 .. N |-> IF i = 1 THEN R[x.args[1]] ELSE UnionRanges(A[i - 1], R[x.args[i]])]
               /\ AnyRange(x, R) = A[N]
  BY AnyRangeNodes
<1>3. PICK B : /\ B = [i \in 1 .. N |-> IF i = 1 THEN Q[x.args[1]] ELSE UnionRanges(B[i - 1], Q[x.args[i]])]
               /\ AnyRange(x, Q) = B[N]
  BY AnyRangeNodes
<1> DEFINE G == {i \in 1 .. N : A[i] = B[i]}
<1> HIDE DEF N
<1>4. ASSUME NEW n \in 1 .. N, \A m \in 1 .. n - 1 : m \in G PROVE n \in G
  <2>1. n = 1 \/ n - 1 \in 1 .. n - 1
    BY <1>1
  <2>2. n = 1 \/ A[n - 1] = B[n - 1]
    BY <1>4, <2>1
  <2>3. R[x.args[n]] = Q[x.args[n]]
    BY <1>1
  <2>4. A[n] = IF n = 1 THEN R[x.args[1]] ELSE UnionRanges(A[n - 1], R[x.args[n]])
    BY <1>2
  <2>5. B[n] = IF n = 1 THEN Q[x.args[1]] ELSE UnionRanges(B[n - 1], Q[x.args[n]])
    BY <1>3
  <2>6. A[n] = B[n]
    BY <2>2, <2>3, <2>4, <2>5
  <2>7. QED BY <2>6
<1> HIDE DEF G
<1>5. \A n \in 1 .. N : n \in G
  <2>1. 1 \in Nat /\ N \in Int
    BY <1>1
  <2>2. QED BY <1>4, <2>1, IntervalInduction
<1>6. N \in 1 .. N
  BY <1>1 DEF N
<1>7. QED BY <1>2, <1>3, <1>5, <1>6 DEF G

LEMMA AllRangesSound ==
    ASSUME NEW x, x.args \in Seq(Nat), Len(x.args) >= 1, NEW R, NEW v \in Nat,
           \A a \in ToSet(x.args) : R[a] \in RangeSet
    PROVE  /\ AllRanges(x, R) \in RangeSet
           /\ (\A a \in ToSet(x.args) : Admits(R[a], v)) => Admits(AllRanges(x, R), v)
<1> DEFINE N == Len(x.args)
<1>1. N \in Nat /\ \A i \in 1 .. N : x.args[i] \in ToSet(x.args)
  BY DEF ToSet
<1>2. PICK A : /\ A \in [1 .. N -> RangeSet]
               /\ A = [i \in 1 .. N |-> IF i = 1 THEN R[x.args[1]] ELSE IntersectRanges(A[i - 1], R[x.args[i]])]
               /\ AllRanges(x, R) = A[N]
  BY AllRangesNodes
<1>3. N \in 1 .. N
  BY <1>1
<1> HIDE DEF N
<1>4. ASSUME \A a \in ToSet(x.args) : Admits(R[a], v) PROVE Admits(AllRanges(x, R), v)
  <2> DEFINE G == {i \in 1 .. N : Admits(A[i], v)}
  <2>1. ASSUME NEW n \in 1 .. N, \A m \in 1 .. n - 1 : m \in G PROVE n \in G
    <3>1. CASE n = 1
      BY <1>1, <1>2, <1>4, <3>1
    <3>2. CASE n # 1
      <4>1. n - 1 \in 1 .. n - 1 /\ n - 1 \in 1 .. N
        BY <1>1, <3>2
      <4>2. A[n - 1] \in RangeSet /\ Admits(A[n - 1], v)
        BY <4>1, <2>1, <1>2
      <4>3. R[x.args[n]] \in RangeSet /\ Admits(R[x.args[n]], v)
        BY <1>1, <1>4
      <4>4. A[n] = IntersectRanges(A[n - 1], R[x.args[n]])
        BY <1>2, <3>2
      <4>5. Admits(A[n], v)
        BY <4>2, <4>3, <4>4, IntersectRangesSound
      <4>6. QED BY <4>5
    <3>3. QED BY <3>1, <3>2
  <2> HIDE DEF G
  <2>2. \A n \in 1 .. N : n \in G
    <3>1. 1 \in Nat /\ N \in Int
      BY <1>1
    <3>2. QED BY <2>1, <3>1, IntervalInduction
  <2>3. QED BY <1>2, <1>3, <2>2 DEF G
<1>5. QED BY <1>2, <1>3, <1>4

LEMMA AnyRangeSound ==
    ASSUME NEW x, x.args \in Seq(Nat), Len(x.args) >= 1, NEW R, NEW v \in Nat,
           \A a \in ToSet(x.args) : R[a] \in RangeSet
    PROVE  /\ AnyRange(x, R) \in RangeSet
           /\ (\E a \in ToSet(x.args) : Admits(R[a], v)) => Admits(AnyRange(x, R), v)
<1> DEFINE N == Len(x.args)
<1>1. N \in Nat /\ (\A i \in 1 .. N : x.args[i] \in ToSet(x.args))
      /\ \A a \in ToSet(x.args) : \E i \in 1 .. N : a = x.args[i]
  BY DEF ToSet
<1>2. PICK A : /\ A \in [1 .. N -> RangeSet]
               /\ A = [i \in 1 .. N |-> IF i = 1 THEN R[x.args[1]] ELSE UnionRanges(A[i - 1], R[x.args[i]])]
               /\ AnyRange(x, R) = A[N]
  BY AnyRangeNodes
<1>3. N \in 1 .. N
  BY <1>1
<1> HIDE DEF N
<1>4. ASSUME NEW a \in ToSet(x.args), Admits(R[a], v) PROVE Admits(AnyRange(x, R), v)
  <2>1. PICK j \in 1 .. N : a = x.args[j]
    BY <1>1
  <2> DEFINE G == {i \in 1 .. N : j <= i => Admits(A[i], v)}
  <2>2. ASSUME NEW n \in 1 .. N, \A m \in 1 .. n - 1 : m \in G PROVE n \in G
    <3>1. CASE n = 1
      <4>1. j <= 1 => j = 1
        BY <1>1
      <4>2. A[1] = R[x.args[1]]
        BY <1>2, <3>1
      <4>3. QED BY <4>1, <4>2, <1>4, <2>1, <3>1
    <3>2. CASE n # 1
      <4>1. n - 1 \in 1 .. n - 1 /\ n - 1 \in 1 .. N
        BY <1>1, <3>2
      <4>2. A[n - 1] \in RangeSet /\ (j <= n - 1 => Admits(A[n - 1], v))
        BY <4>1, <2>2, <1>2
      <4>3. R[x.args[n]] \in RangeSet /\ (j = n => Admits(R[x.args[n]], v))
        BY <1>1, <1>4, <2>1
      <4>4. A[n] = UnionRanges(A[n - 1], R[x.args[n]])
        BY <1>2, <3>2
      <4>5. j <= n => j = n \/ j <= n - 1
        BY <1>1
      <4>6. j <= n => Admits(A[n], v)
        BY <4>2, <4>3, <4>4, <4>5, UnionRangesSound
      <4>7. QED BY <4>6
    <3>3. QED BY <3>1, <3>2
  <2> HIDE DEF G
  <2>3. \A n \in 1 .. N : n \in G
    <3>1. 1 \in Nat /\ N \in Int
      BY <1>1
    <3>2. QED BY <2>2, <3>1, IntervalInduction
  <2>4. j <= N
    BY <1>1
  <2>5. QED BY <1>2, <1>3, <2>3, <2>4 DEF G
<1>5. QED BY <1>2, <1>3, <1>4

\* The range of an IN list is the hull of its constants.
LEMMA InRangeSound ==
    ASSUME NEW x, x.consts \in Seq(Nat), NEW v \in Nat, v <= MaxWord
    PROVE  /\ InRange(x) \in RangeSet
           /\ v \in ToSet(x.consts) => Admits(InRange(x), v)
<1> DEFINE N == Len(x.consts)
           T == [0 .. N -> RangeSet]
           Value1(g, i) == IF i = 0 THEN EmptyRange
                           ELSE UnionRanges(g[i - 1], ComparisonRange("=", x.consts[i]))
           F == [p \in T \X (0 .. N) |-> Value1(p[1], p[2])]
<1>1. N \in Nat /\ N \in Int /\ 0 \in Nat
  OBVIOUS
<1>2. \A i \in 1 .. N : ComparisonRange("=", x.consts[i]) \in RangeSet
                        /\ (v = x.consts[i] => Admits(ComparisonRange("=", x.consts[i]), v))
  <2>1. ASSUME NEW i \in 1 .. N
        PROVE  ComparisonRange("=", x.consts[i]) \in RangeSet
               /\ (v = x.consts[i] => Admits(ComparisonRange("=", x.consts[i]), v))
    <3>1. x.consts[i] \in Nat
      OBVIOUS
    <3>2. v = x.consts[i] => Test("=", v, x.consts[i])
      BY DEF Test
    <3>3. QED BY <3>1, <3>2, ComparisonRangeSound
  <2>2. QED BY <2>1
<1>3. \A a \in ToSet(x.consts) : \E i \in 1 .. N : a = x.consts[i]
  BY DEF ToSet
<1> HIDE DEF N
<1>4. \A g \in T : \A n \in 0 .. N : F[<<g, n>>] = Value1(g, n)
  OBVIOUS
<1>5. ASSUME NEW g \in T, NEW n \in 0 .. N PROVE Value1(g, n) \in RangeSet
  <2>1. CASE n = 0
    BY <2>1, RangeTypes
  <2>2. CASE n # 0
    <3>1. n - 1 \in 0 .. N /\ n \in 1 .. N
      BY <1>1, <2>2
    <3>2. UnionRanges(g[n - 1], ComparisonRange("=", x.consts[n])) \in RangeSet
      BY <1>2, <3>1, UnionRangesSound
    <3>3. QED BY <2>2, <3>2
  <2>3. QED BY <2>1, <2>2
<1>6. ASSUME NEW g \in T, NEW h \in T, NEW n \in 0 .. N, \A m \in 0 .. n - 1 : g[m] = h[m]
      PROVE  F[<<g, n>>] = F[<<h, n>>]
  <2>1. n = 0 \/ n - 1 \in 0 .. n - 1
    BY <1>1
  <2>2. Value1(g, n) = Value1(h, n)
    BY <1>6, <2>1
  <2>3. QED BY <1>4, <2>2
<1>7. Determines(F, 0, N, RangeSet)
  <2>1. \A g \in T : \A n \in 0 .. N : F[<<g, n>>] \in RangeSet
    BY <1>4, <1>5
  <2> HIDE DEF F
  <2>2. QED BY <2>1, <1>6 DEF Determines
<1>8. RangeSet # {}
  BY RangeTypes
<1>9. PICK f \in T : \A n \in 0 .. N : f[n] = Value1(f, n)
  <2> HIDE DEF F
  <2>1. \E f \in T : Unfolds(f, F, 0, N)
    BY <1>1, <1>7, <1>8, RecursionExists
  <2>2. PICK f \in T : Unfolds(f, F, 0, N)
    BY <2>1
  <2>3. \A n \in 0 .. N : f[n] = F[<<f, n>>]
    BY <2>2 DEF Unfolds
  <2> HIDE DEF Value1
  <2>4. \A n \in 0 .. N : f[n] = Value1(f, n)
    BY <1>4, <2>3
  <2>5. QED BY <2>4
<1>10. f = [i \in 0 .. Len(x.consts) |-> IF i = 0 THEN EmptyRange
                                        ELSE UnionRanges(f[i - 1], ComparisonRange("=", x.consts[i]))]
  BY <1>9 DEF N
<1>11. \E A : /\ A = [i \in 0 .. Len(x.consts) |-> IF i = 0 THEN EmptyRange
                                        ELSE UnionRanges(A[i - 1], ComparisonRange("=", x.consts[i]))]
              /\ InRange(x) = A[Len(x.consts)]
  BY <1>10, Zenon DEF InRange
<1>12. PICK A : /\ A = [i \in 0 .. N |-> IF i = 0 THEN EmptyRange
                                        ELSE UnionRanges(A[i - 1], ComparisonRange("=", x.consts[i]))]
                /\ InRange(x) = A[N]
  BY <1>11 DEF N
<1> DEFINE G == {i \in 0 .. N : A[i] \in RangeSet
                               /\ \A j \in 1 .. N : j <= i /\ v = x.consts[j] => Admits(A[i], v)}
<1>13. ASSUME NEW n \in 0 .. N, \A m \in 0 .. n - 1 : m \in G PROVE n \in G
  <2>1. CASE n = 0
    <3>1. A[n] \in RangeSet
      BY <1>1, <1>12, <2>1, RangeTypes
    <3>2. \A j \in 1 .. N : ~ (j <= n)
      BY <1>1, <2>1
    <3>3. QED BY <3>1, <3>2
  <2>2. CASE n # 0
    <3>1. n - 1 \in 0 .. n - 1 /\ n \in 1 .. N /\ n - 1 \in Nat
      BY <1>1, <2>2
    <3>2. A[n - 1] \in RangeSet /\ \A j \in 1 .. N : j <= n - 1 /\ v = x.consts[j] => Admits(A[n - 1], v)
      BY <3>1, <1>13
    <3>3. A[n] = UnionRanges(A[n - 1], ComparisonRange("=", x.consts[n]))
      BY <1>12, <2>2
    <3>4. A[n] \in RangeSet /\ (Admits(A[n - 1], v) \/ v = x.consts[n] => Admits(A[n], v))
      BY <1>2, <3>1, <3>2, <3>3, UnionRangesSound
    <3>5. \A j \in 1 .. N : j <= n => j = n \/ j <= n - 1
      BY <1>1
    <3>6. QED BY <3>2, <3>4, <3>5
  <2>3. QED BY <2>1, <2>2
<1> HIDE DEF G
<1>14. \A n \in 0 .. N : n \in G
  BY <1>1, <1>13, IntervalInduction
<1>15. N \in 0 .. N /\ \A j \in 1 .. N : j <= N
  BY <1>1
<1>16. A[N] \in RangeSet /\ \A j \in 1 .. N : v = x.consts[j] => Admits(A[N], v)
  BY <1>14, <1>15 DEF G
<1>17. QED BY <1>3, <1>12, <1>16

LEMMA RangeAtSound ==
    ASSUME NEW x, x.consts \in Seq(Nat), x.args \in Seq(Nat), NEW R, NEW H, NEW v \in Nat, v <= MaxWord,
           x.op \in Comparisons => x.consts[1] \in Nat,
           x.op = "between" => x.consts[1] \in Nat /\ x.consts[2] \in Nat,
           x.op \in {"and", "or"} => Len(x.args) >= 1,
           \A a \in ToSet(x.args) : R[a] \in RangeSet
    PROVE  /\ RangeAt(x, R) \in RangeSet
           /\ HoldsAt(x, H, v) /\ (\A a \in ToSet(x.args) : H[a] => Admits(R[a], v)) => Admits(RangeAt(x, R), v)
<1>1. CASE x.op \in Comparisons
  <2>1. RangeAt(x, R) = ComparisonRange(x.op, x.consts[1])
    BY <1>1 DEF RangeAt
  <2>2. HoldsAt(x, H, v) => Test(x.op, v, x.consts[1])
    BY <1>1 DEF HoldsAt, Comparisons
  <2>3. QED BY <1>1, <2>1, <2>2, ComparisonRangeSound
<1>2. CASE x.op = "between"
  <2> DEFINE l == ComparisonRange(">=", x.consts[1])
             r == ComparisonRange("<=", x.consts[2])
  <2>1. RangeAt(x, R) = IntersectRanges(l, r)
    BY <1>2 DEF RangeAt, Comparisons
  <2>2. HoldsAt(x, H, v) => Test(">=", v, x.consts[1]) /\ Test("<=", v, x.consts[2])
    BY <1>2 DEF HoldsAt, Comparisons, Test
  <2>3. l \in RangeSet /\ r \in RangeSet /\ (HoldsAt(x, H, v) => Admits(l, v) /\ Admits(r, v))
    BY <1>2, <2>2, ComparisonRangeSound
  <2> HIDE DEF l, r
  <2>4. QED BY <2>1, <2>3, IntersectRangesSound
<1>3. CASE x.op = "in"
  <2>1. RangeAt(x, R) = InRange(x)
    BY <1>3 DEF RangeAt, Comparisons
  <2>2. HoldsAt(x, H, v) => v \in ToSet(x.consts)
    BY <1>3 DEF HoldsAt, Comparisons
  <2>3. QED BY <2>1, <2>2, InRangeSound
<1>4. CASE x.op = "and"
  <2>1. RangeAt(x, R) = AllRanges(x, R)
    BY <1>4 DEF RangeAt, Comparisons
  <2>2. HoldsAt(x, H, v) => \A a \in ToSet(x.args) : H[a]
    BY <1>4 DEF HoldsAt, Comparisons
  <2>3. Len(x.args) >= 1
    BY <1>4
  <2>4. QED BY <2>1, <2>2, <2>3, AllRangesSound
<1>5. CASE x.op = "or"
  <2>1. RangeAt(x, R) = AnyRange(x, R)
    BY <1>5 DEF RangeAt, Comparisons
  <2>2. HoldsAt(x, H, v) => \E a \in ToSet(x.args) : H[a]
    BY <1>5 DEF HoldsAt, Comparisons
  <2>3. Len(x.args) >= 1
    BY <1>5
  <2>4. QED BY <2>1, <2>2, <2>3, AnyRangeSound
<1>6. CASE x.op \notin Comparisons \cup {"between", "in", "and", "or"}
  <2>1. RangeAt(x, R) = UnknownRange
    BY <1>6 DEF RangeAt
  <2>2. QED BY <2>1, RangeTypes DEF Admits, UnknownRange
<1>7. QED BY <1>1, <1>2, <1>3, <1>4, <1>5, <1>6

LEMMA RangeAtSame ==
    ASSUME NEW x, x.args \in Seq(Nat), NEW R, NEW Q,
           x.op \in {"and", "or"} => Len(x.args) >= 1,
           \A a \in ToSet(x.args) : R[a] \in RangeSet /\ R[a] = Q[a]
    PROVE  RangeAt(x, R) = RangeAt(x, Q)
<1>1. CASE x.op = "and"
  BY <1>1, AllRangesSame DEF RangeAt, Comparisons
<1>2. CASE x.op = "or"
  BY <1>2, AnyRangeSame DEF RangeAt, Comparisons
<1>3. CASE x.op # "and" /\ x.op # "or"
  BY <1>3 DEF RangeAt
<1>4. QED BY <1>1, <1>2, <1>3

LEMMA RangeNodes ==
    ASSUME NEW e \in Expression, IsTree(e)
    PROVE  \E R : /\ R = [n \in 1 .. Len(e) |-> RangeAt(e[n], R)]
                  /\ ExtractRootUnsignedRange(e) = R[Len(e)]
<1> DEFINE T == [1 .. Len(e) -> RangeSet]
           F == [p \in T \X (1 .. Len(e)) |-> RangeAt(e[p[2]], p[1])]
<1>1. \A g \in T : \A n \in 1 .. Len(e) : F[<<g, n>>] = RangeAt(e[n], g)
  OBVIOUS
<1>2. ASSUME NEW g \in T, NEW n \in 1 .. Len(e) PROVE RangeAt(e[n], g) \in RangeSet
  <2>1. /\ e[n].consts \in Seq(Nat) /\ e[n].args \in Seq(Nat)
        /\ e[n].op \in Comparisons => e[n].consts[1] \in Nat
        /\ e[n].op = "between" => e[n].consts[1] \in Nat /\ e[n].consts[2] \in Nat
        /\ e[n].op \in {"and", "or"} => Len(e[n].args) >= 1
        /\ \A a \in ToSet(e[n].args) : a \in 1 .. Len(e)
    BY TreeNodes
  <2>2. 0 \in Nat /\ 0 <= MaxWord /\ \A a \in ToSet(e[n].args) : g[a] \in RangeSet
    BY <2>1, PruneAssumption
  <2>3. QED BY <2>1, <2>2, RangeAtSound
<1>3. ASSUME NEW g \in T, NEW h \in T, NEW n \in 1 .. Len(e), \A m \in 1 .. n - 1 : g[m] = h[m]
      PROVE  F[<<g, n>>] = F[<<h, n>>]
  <2>1. \A a \in ToSet(e[n].args) : g[a] \in RangeSet /\ g[a] = h[a]
    BY <1>3, TreeNodes
  <2>2. e[n].args \in Seq(Nat) /\ (e[n].op \in {"and", "or"} => Len(e[n].args) >= 1)
    BY TreeNodes
  <2>3. RangeAt(e[n], g) = RangeAt(e[n], h)
    BY <2>1, <2>2, RangeAtSame
  <2>4. QED BY <1>1, <2>3
<1>4. \A g \in T : \A n \in 1 .. Len(e) : F[<<g, n>>] \in RangeSet
  BY <1>1, <1>2
<1> HIDE DEF F
<1>5. PICK f \in T : \A n \in 1 .. Len(e) : f[n] = F[<<f, n>>]
  <2>1. Len(e) \in Int /\ 1 \in Nat
    BY TreeNodes
  <2>2. RangeSet # {}
    BY RangeTypes
  <2>3. Determines(F, 1, Len(e), RangeSet)
    BY <1>3, <1>4 DEF Determines
  <2>4. \E f \in T : Unfolds(f, F, 1, Len(e))
    BY <2>1, <2>2, <2>3, RecursionExists
  <2>5. QED BY <2>4 DEF Unfolds
<1>6. f = [n \in 1 .. Len(e) |-> RangeAt(e[n], f)]
  BY <1>1, <1>5
<1>7. DOMAIN e = 1 .. Len(e)
  BY TreeNodes
<1>8. \E R : R = [n \in DOMAIN e |-> RangeAt(e[n], R)]
  BY <1>6, <1>7
<1>9. \E R : R = [n \in DOMAIN e |-> RangeAt(e[n], R)] /\ ExtractRootUnsignedRange(e) = R[Len(e)]
  BY <1>8 DEF ExtractRootUnsignedRange
<1>10. QED BY <1>7, <1>9

\* ExtractRootUnsignedRange: the range of a filter holds every number it accepts.
LEMMA RangeSound ==
    ASSUME NEW e \in Expression, IsTree(e), NEW v \in Nat, v <= MaxWord
    PROVE  /\ ExtractRootUnsignedRange(e) \in RangeSet
           /\ Holds(e, v) => Admits(ExtractRootUnsignedRange(e), v)
<1>1. PICK H : H = [n \in 1 .. Len(e) |-> HoldsAt(e[n], H, v)] /\ Holds(e, v) = H[Len(e)]
  BY HoldsNodes
<1>2. PICK R : /\ R = [n \in 1 .. Len(e) |-> RangeAt(e[n], R)]
               /\ ExtractRootUnsignedRange(e) = R[Len(e)]
  BY RangeNodes
<1> DEFINE G == {n \in 1 .. Len(e) : R[n] \in RangeSet /\ (H[n] => Admits(R[n], v))}
<1>3. ASSUME NEW n \in 1 .. Len(e), \A m \in 1 .. n - 1 : m \in G PROVE n \in G
  <2>1. \A a \in ToSet(e[n].args) : R[a] \in RangeSet /\ (H[a] => Admits(R[a], v))
    BY <1>3, TreeNodes
  <2>2. /\ e[n].consts \in Seq(Nat) /\ e[n].args \in Seq(Nat)
        /\ e[n].op \in Comparisons => e[n].consts[1] \in Nat
        /\ e[n].op = "between" => e[n].consts[1] \in Nat /\ e[n].consts[2] \in Nat
        /\ e[n].op \in {"and", "or"} => Len(e[n].args) >= 1
    BY TreeNodes
  <2>3. RangeAt(e[n], R) \in RangeSet /\ (HoldsAt(e[n], H, v) => Admits(RangeAt(e[n], R), v))
    BY <2>1, <2>2, RangeAtSound
  <2>4. R[n] = RangeAt(e[n], R)
    BY <1>2
  <2>5. H[n] => HoldsAt(e[n], H, v)
    BY <1>1
  <2>6. QED BY <2>3, <2>4, <2>5
<1> HIDE DEF G
<1>4. \A n \in 1 .. Len(e) : n \in G
  <2>1. 1 \in Nat /\ Len(e) \in Int
    BY TreeNodes
  <2>2. QED BY <1>3, <2>1, IntervalInduction
<1>5. R[Len(e)] \in RangeSet /\ (H[Len(e)] => Admits(R[Len(e)], v))
  BY <1>4, TreeNodes DEF G
<1>6. QED BY <1>1, <1>2, <1>5

-----------------------------------------------------------------------------
(***************************************************************************)
(* Statistics of baskets and files, and what they let through.             *)
(***************************************************************************)

LEMMA LeastOf ==
    ASSUME NEW S, S \subseteq Nat, S # {}
    PROVE  Min(S) \in S /\ \A n \in S : Min(S) <= n
<1>1. PICK n \in S : \A m \in S : n <= m
  BY LeastNumber
<1>2. \E m \in S : \A k \in S : m <= k
  BY <1>1
<1>3. QED BY <1>2 DEF Min

LEMMA GreatestOf ==
    ASSUME NEW S, S \subseteq Nat, S # {}, NEW b \in Nat, \A n \in S : n <= b
    PROVE  Max(S) \in S /\ \A n \in S : n <= Max(S)
<1>1. PICK n \in S : \A m \in S : m <= n
  BY GreatestNumber
<1>2. \E m \in S : \A k \in S : m >= k
  BY <1>1
<1>3. Max(S) \in S /\ \A k \in S : Max(S) >= k
  BY <1>2 DEF Max
<1>4. QED BY <1>3

\* BasketAccumulator::Add: a finite value lies between the extremes and in the
\* Bloom filter, any other one is counted.
LEMMA StatsSound ==
    ASSUME NEW V, \A x \in V : x.value \in Value, NEW y \in V
    PROVE  /\ IsFinite(y.value) => /\ Stats(V).minmax = TRUE /\ Stats(V).min <= y.value
                                   /\ y.value <= Stats(V).max
                                   /\ Stats(V).min \in Nat /\ Stats(V).max \in Nat
           /\ y.value = NaN => Stats(V).nan
           /\ y.value = PosInf => Stats(V).posinf
           /\ y.value = NegInf => Stats(V).neginf
           /\ MayContain(Stats(V).bloom, y.value)
<1> DEFINE All == {x.value : x \in V}
           F == {v \in All : IsFinite(v)}
<1>1. Largest \in Nat
  BY PruneAssumption
<1>2. y.value \in All
  OBVIOUS
<1>3. /\ Stats(V).minmax = (F # {}) /\ Stats(V).min = IF F = {} THEN PosInf ELSE Min(F)
      /\ Stats(V).max = IF F = {} THEN NegInf ELSE Max(F)
      /\ Stats(V).nan = (NaN \in All) /\ Stats(V).posinf = (PosInf \in All)
      /\ Stats(V).neginf = (NegInf \in All) /\ Stats(V).bloom = Bloom(V)
  BY DEF Stats
<1>4. F \subseteq Nat /\ \A n \in F : n <= Largest
  BY <1>1 DEF IsFinite
<1>5. ASSUME IsFinite(y.value)
      PROVE  /\ Stats(V).minmax = TRUE /\ Stats(V).min <= y.value /\ y.value <= Stats(V).max
             /\ Stats(V).min \in Nat /\ Stats(V).max \in Nat
  <2>1. y.value \in F
    BY <1>2, <1>5
  <2> HIDE DEF F, All
  <2>2. Min(F) \in F /\ Min(F) <= y.value
    BY <1>4, <2>1, LeastOf
  <2>3. Max(F) \in F /\ y.value <= Max(F)
    BY <1>1, <1>4, <2>1, GreatestOf
  <2>4. F # {}
    BY <2>1
  <2>5. QED BY <1>3, <1>4, <2>2, <2>3, <2>4
<1>6. MayContain(Bloom(V), y.value)
  <2> DEFINE W == {x \in V : IsFinite(x.value)}
             streamed == Cardinality(W) > HashLimit
             n == IF streamed THEN StreamBits ELSE SmallBits * Cardinality(W)
             k == IF streamed THEN 2 ELSE 1
             b == [size |-> n, hashes |-> k, bits |-> UNION {BloomBits(x.value, n, k) : x \in W}]
  <2>1. Bloom(V) = IF W = {} THEN {} ELSE {b}
    BY DEF Bloom
  <2>2. ASSUME IsFinite(y.value) PROVE BloomBits(y.value, b.size, b.hashes) \subseteq b.bits
    <3>1. y \in W
      BY <2>2
    <3> HIDE DEF W, n, k
    <3>2. QED BY <3>1
  <2> HIDE DEF W, b
  <2>3. QED BY <2>1, <2>2 DEF MayContain
<1> HIDE DEF F, All
<1>7. QED BY <1>2, <1>3, <1>5, <1>6

\* The row of a file covers the rows of its baskets.
LEMMA FileStatsSound ==
    ASSUME NEW S, \A s \in S : s.min \in Value /\ s.max \in Value, NEW t \in S
    PROVE  /\ t.minmax => /\ FileStats(S).minmax = TRUE /\ FileStats(S).min <= t.min
                          /\ t.max <= FileStats(S).max
                          /\ FileStats(S).min \in Nat /\ FileStats(S).max \in Nat
           /\ t.nan => FileStats(S).nan
<1> DEFINE B == {s \in S : s.minmax}
           L == {s.min : s \in B} \cup {PosInf}
           U == {s.max : s \in B} \cup {NegInf}
<1>1. Largest \in Nat
  BY PruneAssumption
<1>2. /\ FileStats(S).minmax = (B # {}) /\ FileStats(S).min = Min(L)
      /\ FileStats(S).max = Max(U) /\ FileStats(S).nan = \E s \in S : s.nan
  BY DEF FileStats
<1>3. L \subseteq Nat /\ U \subseteq Nat /\ \A n \in U : n <= NaN
  BY <1>1 DEF Value, NegInf, PosInf, NaN
<1>4. ASSUME t.minmax
      PROVE  /\ FileStats(S).minmax = TRUE /\ FileStats(S).min <= t.min /\ t.max <= FileStats(S).max
             /\ FileStats(S).min \in Nat /\ FileStats(S).max \in Nat
  <2>1. t \in B /\ t.min \in L /\ t.max \in U
    BY <1>4
  <2> HIDE DEF B, L, U
  <2>2. Min(L) \in L /\ Min(L) <= t.min
    BY <1>3, <2>1, LeastOf
  <2>3. NaN \in Nat
    BY <1>1 DEF NaN
  <2>4. Max(U) \in U /\ t.max <= Max(U)
    BY <1>3, <2>1, <2>3, GreatestOf
  <2>5. B # {}
    BY <2>1
  <2>6. QED BY <1>2, <1>3, <2>2, <2>4, <2>5
<1>5. t.nan => FileStats(S).nan
  BY <1>2
<1>6. QED BY <1>4, <1>5

\* PredicateMetadataMayMatch: a basket with a value that matches is not pruned,
\* unless the value is NaN, which compares equal to every constant.
LEMMA PredicateSound ==
    ASSUME NEW p, IsPredicate(p), p.op \in Comparisons \cup {"between", "in"}, p.consts \in Seq(Value),
           NEW V, \A x \in V : x.value \in Value, NEW y \in V, y.value # NaN,
           PathPredicateValueMatches(p, y.value)
    PROVE  PredicateMetadataMayMatch(p, Stats(V))
<1> DEFINE s == Stats(V)
           v == y.value
           c == p.consts[1]
           EqualityPossible(x) == s.minmax /\ s.min <= x /\ x <= s.max /\ MayContain(s.bloom, x)
<1>1. Largest \in Nat /\ v \in Value /\ v \in Nat
  BY PruneAssumption DEF Value, NegInf, NaN
<1>2. /\ IsFinite(v) => /\ s.minmax = TRUE /\ s.min <= v /\ v <= s.max
                        /\ s.min \in Nat /\ s.max \in Nat
      /\ v = PosInf => s.posinf
      /\ v = NegInf => s.neginf
      /\ MayContain(s.bloom, v)
  BY StatsSound
<1>3. IsFinite(v) \/ v = PosInf \/ v = NegInf
  BY <1>1 DEF Value, IsFinite, PosInf, NegInf, NaN
<1>4. \A d : IsFinite(d) => d \in Nat /\ d # NaN /\ NegInf < d /\ d < PosInf
  BY <1>1 DEF IsFinite, NaN, PosInf, NegInf
<1>5. p.op \in Comparisons \cup {"between"} => IsFinite(c)
  <2>1. Len(p.consts) \in Nat /\ (p.op \in Comparisons \cup {"between"} => Len(p.consts) >= 1)
    <3>1. p.op \in Comparisons => Len(p.consts) = 1
      BY DEF IsPredicate
    <3>2. p.op = "between" => Len(p.consts) = 2
      BY DEF IsPredicate
    <3>3. Len(p.consts) \in Nat
      OBVIOUS
    <3> DEFINE n == Len(p.consts)
    <3> HIDE DEF n
    <3>4. (p.op \in Comparisons => n = 1) /\ (p.op = "between" => n = 2) /\ n \in Nat
      BY ONLY <3>1, <3>2, <3>3 DEF n
    <3>5. n = 1 \/ n = 2 => n >= 1
      BY ONLY <3>4
    <3>6. p.op \in Comparisons \cup {"between"} => n >= 1
      BY <3>4, <3>5, Zenon
    <3>7. QED BY ONLY <3>3, <3>6 DEF n
  <2>2. p.op \in Comparisons \cup {"between"} => c \in ToSet(p.consts)
    BY <2>1 DEF ToSet
  <2>3. QED BY <2>2 DEF IsPredicate
<1>6. p.op = "between" => IsFinite(p.consts[2])
  <2>1. p.op = "between" => p.consts[2] \in ToSet(p.consts)
    BY DEF IsPredicate, ToSet
  <2>2. QED BY <2>1 DEF IsPredicate
<1>7. \A d : IsFinite(d) => Compare(v, d) = IF v = d THEN 0 ELSE IF v < d THEN -1 ELSE 1
  BY <1>4 DEF Compare
<1>8. IsFinite(v) => EqualityPossible(v)
  BY <1>2
<1>9. PredicateMetadataMayMatch(p, s) <=>
         \/ p.wide
         \/ p.op = "=" /\ EqualityPossible(c)
         \/ p.op = "<>" /\ (s.nan \/ s.posinf \/ s.neginf \/ ~s.minmax \/ s.min # c \/ s.max # c)
         \/ p.op \in {"<", "<="} /\ (s.neginf \/ (s.minmax /\ Test(p.op, s.min, c)))
         \/ p.op \in {">", ">="} /\ (s.posinf \/ (s.minmax /\ Test(p.op, s.max, c)))
         \/ p.op = "between" /\ s.minmax /\ s.max >= c /\ s.min <= p.consts[2]
         \/ p.op = "in" /\ \E x \in ToSet(p.consts) : EqualityPossible(x)
  BY DEF PredicateMetadataMayMatch
<1> HIDE DEF s, v
<1>10. PathPredicateValueMatches(p, v)
  BY DEF v
<1>11. CASE p.op = "="
  <2>1. Compare(v, c) = 0
    BY <1>10, <1>11 DEF PathPredicateValueMatches, Test, Comparisons
  <2>2. v = c /\ IsFinite(v)
    BY <1>1, <1>5, <1>7, <1>11, <2>1 DEF Comparisons
  <2>3. QED BY <1>8, <1>9, <1>11, <2>2 DEF s
<1>12. CASE p.op = "<>"
  <2>1. Compare(v, c) # 0
    BY <1>10, <1>12 DEF PathPredicateValueMatches, Test, Comparisons
  <2>2. v # c
    BY <1>5, <1>7, <1>12, <2>1 DEF Comparisons
  <2>3. IsFinite(v) => s.min # c \/ s.max # c
    BY <1>1, <1>2, <2>2
  <2>4. QED BY <1>2, <1>3, <1>9, <1>12, <2>3 DEF s
<1>13. CASE p.op \in {"<", "<="}
  <2>1. Test(p.op, Compare(v, c), 0) /\ IsFinite(c) /\ c \in Nat
    BY <1>4, <1>5, <1>10, <1>13 DEF PathPredicateValueMatches, Comparisons
  <2>2. Test(p.op, v, c) /\ v # PosInf
    BY <1>1, <1>4, <1>7, <1>13, <2>1 DEF Test
  <2>3. IsFinite(v) => Test(p.op, s.min, c)
    BY <1>1, <1>2, <1>13, <2>1, <2>2 DEF Test
  <2>4. s.neginf \/ (s.minmax /\ Test(p.op, s.min, c))
    BY <1>2, <1>3, <2>2, <2>3
  <2>5. QED BY <1>9, <1>13, <2>4 DEF s
<1>14. CASE p.op \in {">", ">="}
  <2>1. Test(p.op, Compare(v, c), 0) /\ IsFinite(c) /\ c \in Nat
    BY <1>4, <1>5, <1>10, <1>14 DEF PathPredicateValueMatches, Comparisons
  <2>2. Test(p.op, v, c) /\ v # NegInf
    BY <1>1, <1>4, <1>7, <1>14, <2>1 DEF Test
  <2>3. IsFinite(v) => Test(p.op, s.max, c)
    BY <1>1, <1>2, <1>14, <2>1, <2>2 DEF Test
  <2>4. s.posinf \/ (s.minmax /\ Test(p.op, s.max, c))
    BY <1>2, <1>3, <2>2, <2>3
  <2>5. QED BY <1>9, <1>14, <2>4 DEF s
<1>15. CASE p.op = "between"
  <2>1. Compare(v, c) >= 0 /\ Compare(v, p.consts[2]) <= 0
    BY <1>10, <1>15 DEF PathPredicateValueMatches, Comparisons
  <2>2. c \in Nat /\ p.consts[2] \in Nat /\ c <= v /\ v <= p.consts[2]
    BY <1>1, <1>4, <1>5, <1>6, <1>7, <1>15, <2>1
  <2>3. IsFinite(v)
    BY <1>1, <1>3, <1>4, <1>5, <1>6, <1>15, <2>2
  <2>4. QED BY <1>1, <1>2, <1>9, <1>15, <2>2, <2>3 DEF s
<1>16. CASE p.op = "in"
  <2>1. PICK d \in ToSet(p.consts) : Compare(v, d) = 0
    BY <1>10, <1>16 DEF PathPredicateValueMatches, Comparisons
  <2>2. IsFinite(d)
    BY DEF IsPredicate
  <2>3. v = d
    BY <1>1, <1>7, <2>1, <2>2
  <2>4. \E x \in ToSet(p.consts) : EqualityPossible(x)
    BY <1>8, <2>2, <2>3
  <2>5. QED BY <1>9, <1>16, <2>4 DEF s
<1>17. QED BY <1>11, <1>12, <1>13, <1>14, <1>15, <1>16 DEF Comparisons

-----------------------------------------------------------------------------
(***************************************************************************)
(* The query and its files.                                                *)
(***************************************************************************)

LEMMA QueryFacts ==
    ASSUME q \in Queries
    PROVE  /\ q \in QuerySet
           /\ \A f \in q.value \cup q.event \cup q.entry \cup q.source : f.expr \in Expression /\ IsTree(f.expr)
           /\ \A f \in DOMAIN q.files : q.files[f] \in FileSet /\ IsIndexed(q.files[f])
           /\ \A i \in DOMAIN q.predicates :
                /\ IsPredicate(q.predicates[i]) /\ q.predicates[i].consts \in Seq(Value)
                /\ q.predicates[i].op \in Comparisons \cup {"between", "in"}
           /\ q.limit \in Nat /\ q.typed \in BOOLEAN /\ q.count \in BOOLEAN /\ q.gap \in Nat
           /\ DOMAIN q.files \subseteq Nat
           /\ q.count => q.value = {} /\ q.event = {} /\ q.entry = {} /\ q.source = {}
<1>1. q \in QuerySet /\ (\A F \in ToSet(q.files) : IsIndexed(F))
      /\ (\A F \in {q.value, q.event, q.entry, q.source} : AtMostOneTree(F) /\ (q.count => F = {}))
      /\ \A p \in ToSet(q.predicates) : IsPredicate(p)
  BY DatasetAssumption
<1>2. /\ q.files \in Seq(FileSet)
      /\ q.predicates \in Seq([op: Comparisons \cup {"between", "in"}, consts: Seq(Value), all: BOOLEAN, wide: BOOLEAN])
      /\ q.value \in FilterSet /\ q.event \in FilterSet /\ q.entry \in FilterSet /\ q.source \in FilterSet
      /\ q.limit \in Nat /\ q.typed \in BOOLEAN /\ q.count \in BOOLEAN /\ q.gap \in Nat
  BY <1>1 DEF QuerySet
<1>3. \A f \in DOMAIN q.files : q.files[f] \in FileSet /\ q.files[f] \in ToSet(q.files)
  BY <1>2 DEF ToSet
<1>4. \A i \in DOMAIN q.predicates :
        /\ q.predicates[i] \in ToSet(q.predicates) /\ q.predicates[i].consts \in Seq(Value)
        /\ q.predicates[i].op \in Comparisons \cup {"between", "in"}
  <2> DEFINE P == [op: Comparisons \cup {"between", "in"}, consts: Seq(Value), all: BOOLEAN, wide: BOOLEAN]
  <2>1. \A p \in P : p.consts \in Seq(Value) /\ p.op \in Comparisons \cup {"between", "in"}
    OBVIOUS
  <2> HIDE DEF P
  <2>2. q.predicates \in Seq(P)
    BY <1>2 DEF P
  <2>3. \A i \in DOMAIN q.predicates : q.predicates[i] \in P /\ q.predicates[i] \in ToSet(q.predicates)
    BY <2>2 DEF ToSet
  <2>4. QED BY <2>1, <2>3
<1>5. \A f \in q.value \cup q.event \cup q.entry \cup q.source : f.expr \in Expression
  BY <1>2 DEF FilterSet
<1>6. \A f \in q.value \cup q.event \cup q.entry \cup q.source : IsTree(f.expr)
  BY <1>1 DEF AtMostOneTree
<1>7. DOMAIN q.files \subseteq Nat
  BY <1>2
<1>8. QED BY <1>1, <1>2, <1>3, <1>4, <1>5, <1>6, <1>7

LEMMA FileFacts ==
    ASSUME q \in Queries, NEW f \in DOMAIN q.files
    PROVE  /\ Len(q.files[f].target) \in Nat /\ q.files[f].base \in Nat
           /\ \A e \in Entries(f) :
                /\ e \in Nat /\ q.files[f].base + e <= MaxWord
                /\ q.files[f].target[e + 1] \in Seq(Value)
                /\ q.files[f].companion[e + 1] \in Seq(Value)
           /\ Entries(f) = 0 .. Len(q.files[f].companion) - 1
           /\ q.files[f].baskets \in Seq(BasketSet) /\ q.files[f].cbaskets \in Seq(BasketSet)
           /\ Describes(q.files[f].baskets, q.files[f].target)
           /\ Describes(q.files[f].cbaskets, q.files[f].companion)
           /\ q.files[f].stats = FileStats({b.stats : b \in ToSet(q.files[f].baskets)})
<1> DEFINE F == q.files[f]
<1>1. F \in FileSet /\ IsIndexed(F) /\ MaxWord \in Nat
  BY QueryFacts, PruneAssumption
<1>2. /\ F.base \in Nat /\ F.target \in Seq(Seq(Value)) /\ F.companion \in Seq(Seq(Value))
      /\ F.baskets \in Seq(BasketSet) /\ F.cbaskets \in Seq(BasketSet)
  BY <1>1 DEF FileSet
<1>3. /\ Describes(F.baskets, F.target) /\ Describes(F.cbaskets, F.companion)
      /\ F.stats = FileStats({b.stats : b \in ToSet(F.baskets)})
      /\ Len(F.companion) = Len(F.target) /\ F.base + Len(F.target) <= MaxWord
  BY <1>1 DEF IsIndexed
<1>4. \A e \in 0 .. Len(F.target) - 1 :
        /\ e \in Nat /\ F.base + e <= MaxWord /\ F.target[e + 1] \in Seq(Value) /\ F.companion[e + 1] \in Seq(Value)
  <2> SUFFICES ASSUME NEW e \in 0 .. Len(F.target) - 1
               PROVE  e \in Nat /\ F.base + e <= MaxWord /\ F.target[e + 1] \in Seq(Value)
                      /\ F.companion[e + 1] \in Seq(Value)
    OBVIOUS
  <2>1. Len(F.target) \in Nat /\ e + 1 \in 1 .. Len(F.target) /\ e + 1 \in 1 .. Len(F.companion)
    BY <1>2, <1>3
  <2>2. F.target[e + 1] \in Seq(Value) /\ F.companion[e + 1] \in Seq(Value)
    <3> DEFINE X == Seq(Value)
    <3>1. F.target \in Seq(X) /\ F.companion \in Seq(X)
      BY <1>2
    <3> HIDE DEF X, F
    <3>2. F.target[e + 1] \in X /\ F.companion[e + 1] \in X
      BY <2>1, <3>1
    <3>3. QED BY <3>2 DEF X
  <2>3. e \in Nat /\ F.base + e <= MaxWord
    <3> HIDE DEF F
    <3>1. QED BY <1>1, <1>2, <1>3, <2>1
  <2>4. QED BY <2>2, <2>3
<1>5. Len(F.target) \in Nat
  BY <1>2
<1>6. QED BY <1>2, <1>3, <1>4, <1>5 DEF Entries

\* The metadata of a basket of file f speak of the values of its entries.
LEMMA BasketFacts ==
    ASSUME NEW B, NEW S, B \in Seq(BasketSet), S \in Seq(Seq(Value)), Describes(B, S)
    PROVE  /\ \A i \in DOMAIN B :
                /\ B[i].begin \in Nat /\ B[i].end \in Nat /\ B[i].offset \in Nat /\ B[i].size \in Nat
                /\ B[i].begin <= B[i].end /\ B[i].end <= Len(S)
                /\ B[i].stats = Stats(Content(S, B[i])) /\ B[i] \in ToSet(B)
                /\ B[i].stats.min \in Value /\ B[i].stats.max \in Value
                /\ \A x \in Content(S, B[i]) : x.value \in Value
                /\ \A e \in Inside(B[i]) : /\ e \in Nat /\ e < Len(S)
                     /\ \A k \in DOMAIN S[e + 1] :
                          [entry |-> e, idx |-> k, value |-> S[e + 1][k]] \in Content(S, B[i])
           /\ \A b \in ToSet(B) : \E i \in DOMAIN B : b = B[i]
<1>1. \A b \in ToSet(B) : \E i \in DOMAIN B : b = B[i]
  BY DEF ToSet
<1>2. ASSUME NEW i \in DOMAIN B
      PROVE  /\ B[i].begin \in Nat /\ B[i].end \in Nat /\ B[i].offset \in Nat /\ B[i].size \in Nat
             /\ B[i].begin <= B[i].end /\ B[i].end <= Len(S)
             /\ B[i].stats = Stats(Content(S, B[i])) /\ B[i] \in ToSet(B)
             /\ B[i].stats.min \in Value /\ B[i].stats.max \in Value
  <2>1. B[i] \in BasketSet /\ B[i] \in ToSet(B)
    BY DEF ToSet
  <2>2. B[i].begin <= B[i].end /\ B[i].end <= Len(S) /\ B[i].stats = Stats(Content(S, B[i]))
    BY <2>1 DEF Describes
  <2>3. /\ B[i].begin \in Nat /\ B[i].end \in Nat /\ B[i].offset \in Nat /\ B[i].size \in Nat
        /\ B[i].stats.min \in Value /\ B[i].stats.max \in Value
    BY <2>1 DEF BasketSet
  <2>4. QED BY <2>1, <2>2, <2>3
<1>3. ASSUME NEW i \in DOMAIN B, NEW e \in Inside(B[i])
      PROVE  /\ e \in Nat /\ e < Len(S) /\ e + 1 \in DOMAIN S /\ S[e + 1] \in Seq(Value)
             /\ \A k \in DOMAIN S[e + 1] : [entry |-> e, idx |-> k, value |-> S[e + 1][k]] \in Content(S, B[i])
  <2>1. Len(S) \in Nat /\ B[i].begin \in Nat /\ B[i].end \in Nat /\ B[i].end <= Len(S)
    BY <1>2
  <2>2. e \in Nat /\ e < Len(S)
    BY <2>1 DEF Inside
  <2>3. e + 1 \in DOMAIN S /\ S[e + 1] \in Seq(Value)
    BY <2>1, <2>2
  <2>4. ASSUME NEW k \in DOMAIN S[e + 1]
        PROVE  [entry |-> e, idx |-> k, value |-> S[e + 1][k]] \in Content(S, B[i])
    <3>1. DOMAIN Flat(S, e) = DOMAIN S[e + 1] /\ Flat(S, e)[k] = [idx |-> k, value |-> S[e + 1][k]]
      BY DEF Flat
    <3>2. [idx |-> k, value |-> S[e + 1][k]] \in ToSet(Flat(S, e))
      BY <3>1 DEF ToSet
    <3>3. [entry |-> e, idx |-> k, value |-> S[e + 1][k]]
            \in {[entry |-> e, idx |-> v.idx, value |-> v.value] : v \in ToSet(Flat(S, e))}
      BY <3>2
    <3>4. QED BY <3>3 DEF Content
  <2>5. QED BY <2>2, <2>3, <2>4
<1>4. ASSUME NEW i \in DOMAIN B, NEW x \in Content(S, B[i]) PROVE x.value \in Value
  <2>1. PICK e \in Inside(B[i]) : x \in {[entry |-> e, idx |-> v.idx, value |-> v.value] : v \in ToSet(Flat(S, e))}
    BY DEF Content
  <2>2. PICK v \in ToSet(Flat(S, e)) : x = [entry |-> e, idx |-> v.idx, value |-> v.value]
    BY <2>1
  <2>3. S[e + 1] \in Seq(Value)
    BY <1>3
  <2>4. \A k \in DOMAIN S[e + 1] : S[e + 1][k] \in Value
    BY <2>3
  <2>5. PICK k \in DOMAIN Flat(S, e) : v = Flat(S, e)[k]
    BY DEF ToSet
  <2>6. k \in DOMAIN S[e + 1] /\ v = [idx |-> k, value |-> S[e + 1][k]]
    BY <2>5 DEF Flat
  <2>7. v.value \in Value
    BY <2>4, <2>6
  <2>8. QED BY <2>2, <2>7
<1>5. QED BY <1>1, <1>2, <1>3, <1>4

\* A row is a value of an entry of a file.
LEMMA RowFacts ==
    ASSUME q \in Queries, NEW r \in AllRows
    PROVE  /\ r.file \in DOMAIN q.files /\ r.entry \in Entries(r.file) /\ r.entry \in Nat
           /\ r.idx \in DOMAIN q.files[r.file].target[r.entry + 1] /\ r.idx \in Nat \ {0}
           /\ r.value = q.files[r.file].target[r.entry + 1][r.idx] /\ r.value \in Value
           /\ r = [file |-> r.file, entry |-> r.entry, idx |-> r.idx, value |-> r.value]
<1>0. PICK f \in DOMAIN q.files : r \in UNION {RowsOf(f, e) : e \in Entries(f)}
  BY DEF AllRows
<1>1. PICK e \in Entries(f) : r \in RowsOf(f, e)
  BY <1>0
<1>2. PICK i \in DOMAIN q.files[f].target[e + 1] :
        r = [file |-> f, entry |-> e, idx |-> i, value |-> q.files[f].target[e + 1][i]]
  BY <1>1 DEF RowsOf
<1>3. q.files[f].target[e + 1] \in Seq(Value) /\ e \in Nat
  BY FileFacts
<1>4. i \in Nat \ {0} /\ q.files[f].target[e + 1][i] \in Value
  BY <1>3
<1>5. QED BY <1>2, <1>3, <1>4

-----------------------------------------------------------------------------
(***************************************************************************)
(* Pruning drops no row that matches.  Infinities have no place between    *)
(* the extremes of a basket and a filter on values may lose them; NaN      *)
(* equals every constant of a path predicate, of which its metadata know   *)
(* nothing.  Ordinary excludes both where they matter.                     *)
(***************************************************************************)

Ordinary ==
    /\ q.value # {} /\ ~q.typed => \A r \in AllRows : r.value # PosInf /\ r.value # NegInf
    /\ q.predicates # <<>> =>
          \A f \in DOMAIN q.files : \A e \in Entries(f) : NaN \notin ToSet(q.files[f].companion[e + 1])

LEMMA MatchingFacts ==
    ASSUME q \in Queries, NEW r \in Matching
    PROVE  /\ r \in AllRows
           /\ \A f \in q.event : Holds(f.expr, q.files[r.file].base + r.entry)
           /\ \A f \in q.entry : Holds(f.expr, r.entry)
           /\ \A f \in q.source : Holds(f.expr, r.file)
           /\ \A f \in q.value : Holds(f.expr, r.value)
           /\ \A s \in q.selection : r.entry \in s[r.file]
           /\ PassesPathPredicates(r.file, r.entry)
BY DEF Matching, Satisfies

LEMMA ValueInNat == Value \subseteq Nat
BY PruneAssumption DEF Value, NegInf, NaN

\* A value in a zone, of a basket or of a file, keeps it.
LEMMA KeptByValueSound ==
    ASSUME q \in Queries, NEW v \in Value, \A f \in q.value : Holds(f.expr, v),
           q.value # {} /\ ~q.typed => v # PosInf /\ v # NegInf,
           NEW s, IsFinite(v) => /\ s.minmax = TRUE /\ s.min <= v /\ v <= s.max
                                 /\ s.min \in Nat /\ s.max \in Nat,
           v = NaN => s.nan
    PROVE  KeptByValue(s)
<1> SUFFICES ASSUME NEW f \in q.value, ~q.typed, ~s.nan, Excluded(ZonemapClause(f.expr, s, 1 .. Largest))
             PROVE  FALSE
  BY DEF KeptByValue
<1>1. f.expr \in Expression /\ IsTree(f.expr) /\ Holds(f.expr, v) /\ v \in Nat
  BY QueryFacts, ValueInNat
<1>2. v # PosInf /\ v # NegInf /\ v # NaN
  OBVIOUS
<1>3. IsFinite(v)
  BY <1>2, PruneAssumption DEF IsFinite, Value, PosInf, NegInf, NaN
<1>4. FALSE \notin ZonemapClause(f.expr, s, 1 .. Largest)
  BY <1>1, <1>3, ZonemapClauseSound
<1>5. QED BY <1>4 DEF Excluded

LEMMA SpanBounds ==
    ASSUME NEW base \in Nat, NEW e \in Nat, NEW n \in Nat, NEW lo \in Nat, NEW hi \in Nat,
           lo <= e, e < hi, e < n
    PROVE  /\ base + e \in Nat /\ base + n - 1 \in Nat /\ base + lo \in Nat
           /\ base + hi - 1 \in Nat
           /\ base <= base + e /\ base + e <= base + n - 1
           /\ base + lo <= base + e /\ base + e <= base + hi - 1
<1>1. base + n - 1 = base + (n - 1) /\ base + hi - 1 = base + (hi - 1) /\ n - 1 \in Nat /\ hi - 1 \in Nat
  OBVIOUS
<1>2. QED BY <1>1

LEMMA KeptByEventSound ==
    ASSUME q \in Queries, NEW v \in Nat, \A f \in q.event : Holds(f.expr, v),
           NEW first \in Nat, NEW last \in Nat, first <= v, v <= last
    PROVE  KeptByEvent(first, last)
<1> SUFFICES ASSUME NEW f \in q.event, Excluded(ZonemapClause(f.expr, Span(first, last), Nat))
             PROVE  FALSE
  BY DEF KeptByEvent
<1>1. f.expr \in Expression /\ IsTree(f.expr) /\ Holds(f.expr, v)
  BY QueryFacts
<1> DEFINE z == Span(first, last)
<1>2. z.minmax = TRUE /\ z.min = first /\ z.max = last
  BY DEF Span
<1> HIDE DEF z
<1>3. FALSE \notin ZonemapClause(f.expr, z, Nat)
  BY <1>1, <1>2, ZonemapClauseSound
<1>4. QED BY <1>3 DEF Excluded, z

\* DatasetTaskPlanner::Plan: whatever the filters, a basket with an entry that has a
\* matching row passes every test of the metadata: the extremes of its file and
\* its own, the ranges of entries and events, the source, the Bloom filter.
THEOREM MatchingIsKept ==
    ASSUME q \in Queries, Ordinary, NEW r \in Matching,
           NEW i \in DOMAIN q.files[r.file].baskets, r.entry \in Inside(q.files[r.file].baskets[i])
    PROVE  Kept(r.file, q.files[r.file].baskets[i])
<1> DEFINE f == r.file
           F == q.files[f]
           b == F.baskets[i]
           e == r.entry
<1>1. /\ f \in DOMAIN q.files /\ e \in Entries(f) /\ e \in Nat
      /\ r.idx \in DOMAIN F.target[e + 1] /\ r.value = F.target[e + 1][r.idx] /\ r.value \in Value
  BY MatchingFacts, RowFacts
<1>2. /\ F.base \in Nat /\ Len(F.target) \in Nat /\ F.base + e <= MaxWord
      /\ F.baskets \in Seq(BasketSet) /\ Describes(F.baskets, F.target)
      /\ F.stats = FileStats({c.stats : c \in ToSet(F.baskets)})
  BY <1>1, FileFacts
<1>3. F.target \in Seq(Seq(Value))
  BY <1>1, QueryFacts DEF FileSet
<1>4. /\ b.begin \in Nat /\ b.end \in Nat /\ b.begin <= b.end /\ b.end <= Len(F.target)
      /\ b.stats = Stats(Content(F.target, b)) /\ b \in ToSet(F.baskets)
      /\ \A x \in Content(F.target, b) : x.value \in Value
      /\ [entry |-> e, idx |-> r.idx, value |-> r.value] \in Content(F.target, b)
      /\ b.begin <= e /\ e < b.end /\ e < Len(F.target)
  <2>1. i \in DOMAIN F.baskets /\ e \in Inside(b)
    OBVIOUS
  <2>2. /\ b.begin \in Nat /\ b.end \in Nat /\ b.begin <= b.end /\ b.end <= Len(F.target)
        /\ b.stats = Stats(Content(F.target, b)) /\ b \in ToSet(F.baskets)
        /\ \A x \in Content(F.target, b) : x.value \in Value
    BY ONLY <2>1, <1>2, <1>3, BasketFacts
  <2>3. /\ e < Len(F.target)
        /\ \A k \in DOMAIN F.target[e + 1] :
              [entry |-> e, idx |-> k, value |-> F.target[e + 1][k]] \in Content(F.target, b)
    BY ONLY <2>1, <1>2, <1>3, BasketFacts
  <2>4. [entry |-> e, idx |-> r.idx, value |-> r.value] \in Content(F.target, b)
    BY ONLY <2>3, <1>1
  <2> HIDE DEF b, F, e, f
  <2>5. b.begin <= e /\ e < b.end
    BY ONLY <2>1, <2>2, <1>1 DEF Inside
  <2>6. QED BY ONLY <2>2, <2>3, <2>4, <2>5
<1>5. /\ \A g \in q.event : Holds(g.expr, F.base + e)
      /\ \A g \in q.entry : Holds(g.expr, e)
      /\ \A g \in q.source : Holds(g.expr, f)
      /\ \A g \in q.value : Holds(g.expr, r.value)
  BY MatchingFacts
<1>6. q.value # {} /\ ~q.typed => r.value # PosInf /\ r.value # NegInf
  BY MatchingFacts DEF Ordinary
<1>7. /\ IsFinite(r.value) => /\ b.stats.minmax = TRUE /\ b.stats.min <= r.value /\ r.value <= b.stats.max
                              /\ b.stats.min \in Nat /\ b.stats.max \in Nat
      /\ r.value = NaN => b.stats.nan
      /\ MayContain(b.stats.bloom, r.value)
  <2> DEFINE V == Content(F.target, b)
             y == [entry |-> e, idx |-> r.idx, value |-> r.value]
  <2>1. y \in V /\ y.value = r.value /\ (\A x \in V : x.value \in Value) /\ b.stats = Stats(V)
    BY <1>4
  <2> HIDE DEF V, y
  <2>2. QED BY <2>1, StatsSound
<1> HIDE DEF b
<1>8. KeptByValue(b.stats)
  BY <1>1, <1>5, <1>6, <1>7, KeptByValueSound
<1>9. KeptByValue(F.stats)
  <2> DEFINE S == {c.stats : c \in ToSet(F.baskets)}
  <2>1. \A s \in S : s.min \in Value /\ s.max \in Value
    BY <1>2, <1>3, BasketFacts
  <2>2. b.stats \in S
    BY <1>4
  <2> HIDE DEF S
  <2>3. /\ b.stats.minmax => /\ FileStats(S).minmax = TRUE /\ FileStats(S).min <= b.stats.min
                             /\ b.stats.max <= FileStats(S).max
                             /\ FileStats(S).min \in Nat /\ FileStats(S).max \in Nat
        /\ b.stats.nan => FileStats(S).nan
    BY <2>1, <2>2, FileStatsSound
  <2>4. IsFinite(r.value) => /\ FileStats(S).minmax = TRUE /\ FileStats(S).min <= r.value
                             /\ r.value <= FileStats(S).max
                             /\ FileStats(S).min \in Nat /\ FileStats(S).max \in Nat
    <3>1. r.value \in Nat
      BY <1>1, ValueInNat
    <3>2. ASSUME IsFinite(r.value)
          PROVE  /\ FileStats(S).minmax = TRUE /\ FileStats(S).min <= r.value
                 /\ r.value <= FileStats(S).max
                 /\ FileStats(S).min \in Nat /\ FileStats(S).max \in Nat
      <4>1. /\ b.stats.minmax /\ b.stats.min <= r.value /\ r.value <= b.stats.max
            /\ b.stats.min \in Nat /\ b.stats.max \in Nat
        BY <1>7, <3>2
      <4>2. /\ FileStats(S).minmax = TRUE /\ FileStats(S).min <= b.stats.min /\ b.stats.max <= FileStats(S).max
            /\ FileStats(S).min \in Nat /\ FileStats(S).max \in Nat
        BY <2>3, <4>1
      <4> HIDE DEF F, e
      <4>3. QED BY <3>1, <4>1, <4>2
    <3>3. QED BY <3>2
  <2>5. r.value = NaN => FileStats(S).nan
    BY <1>7, <2>3
  <2>6. KeptByValue(FileStats(S))
    BY <1>1, <1>5, <1>6, <2>4, <2>5, KeptByValueSound
  <2>7. F.stats = FileStats(S)
    BY <1>2 DEF S
  <2>8. QED BY <2>6, <2>7
<1>10. KeptByRange(b)
  <2> SUFFICES ASSUME NEW g \in q.entry, ExtractRootUnsignedRange(g.expr).known
               PROVE  /\ b.begin <= ExtractRootUnsignedRange(g.expr).upper
                      /\ b.end > ExtractRootUnsignedRange(g.expr).lower
    BY DEF KeptByRange, EntryRange
  <2> DEFINE R == ExtractRootUnsignedRange(g.expr)
  <2>1. g.expr \in Expression /\ IsTree(g.expr) /\ Holds(g.expr, e)
    BY <1>5, QueryFacts
  <2>2. e <= MaxWord
    <3> DEFINE B == F.base
    <3>1. B \in Nat /\ e \in Nat /\ B + e <= MaxWord /\ MaxWord \in Nat
      BY ONLY <1>1, <1>2, PruneAssumption
    <3> HIDE DEF B, F, e
    <3>2. QED BY ONLY <3>1
  <2>3. R \in RangeSet /\ Admits(R, e)
    BY <1>1, <2>1, <2>2, RangeSound
  <2> HIDE DEF R
  <2>4. R.lower \in Nat /\ R.upper \in Nat
    BY <2>3 DEF RangeSet
  <2>5. R.known => R.lower <= e /\ e <= R.upper
    BY <2>3 DEF Admits
  <2> HIDE DEF F, e, f
  <2>6. R.known => b.begin <= R.upper /\ b.end > R.lower
    BY ONLY <1>1, <1>4, <2>4, <2>5
  <2>7. QED BY <2>6 DEF R
<1>11. KeptByEvent(F.base, F.base + Len(F.target) - 1) /\ KeptByEvent(F.base + b.begin, F.base + b.end - 1)
  <2>1. e \in Nat /\ b.begin <= e /\ e < b.end /\ e < Len(F.target)
    BY ONLY <1>1, <1>4
  <2>2. F.base \in Nat /\ b.begin \in Nat /\ b.end \in Nat /\ Len(F.target) \in Nat
    BY <1>2, <1>4
  <2> HIDE DEF F, e, f
  <2>3. /\ F.base + e \in Nat /\ F.base + Len(F.target) - 1 \in Nat /\ F.base + b.begin \in Nat
        /\ F.base + b.end - 1 \in Nat
        /\ F.base <= F.base + e /\ F.base + e <= F.base + Len(F.target) - 1
        /\ F.base + b.begin <= F.base + e /\ F.base + e <= F.base + b.end - 1
    BY <2>1, <2>2, SpanBounds
  <2>4. QED BY <2>2, <1>5, <2>3, KeptByEventSound
<1>12. KeptBySource(f)
  <2> SUFFICES ASSUME NEW s \in q.source, Excluded(ExactStringFilterClause(s.expr, f)) PROVE FALSE
    BY DEF KeptBySource
  <2>1. s.expr \in Expression /\ IsTree(s.expr) /\ Holds(s.expr, f)
    BY <1>5, QueryFacts
  <2>2. FALSE \notin ExactStringFilterClause(s.expr, f)
    BY <2>1, StringClauseSound
  <2>3. QED BY <2>2 DEF Excluded
<1>13. KeptByBloom(b.stats)
  <2> SUFFICES ASSUME NEW g \in q.value PROVE BloomMayContainFilter(g.expr, b.stats.bloom)
    BY DEF KeptByBloom
  <2>1. g.expr \in Expression /\ IsTree(g.expr) /\ Holds(g.expr, r.value)
    BY <1>5, QueryFacts
  <2>2. QED BY <1>7, <2>1, BloomFilterSound
<1>14. QED BY <1>8, <1>9, <1>10, <1>11, <1>12, <1>13 DEF Kept, b

\* An entry a query has to read: of a row that matches.
LEMMA MatchingIsCandidate ==
    ASSUME q \in Queries, Ordinary, NEW r \in Matching
    PROVE  /\ r.entry \in CandidateEntries(r.file)
           /\ ~NothingToRead
           /\ \A R \in EntryRange : R \in RangeSet /\ Admits(R, r.entry)
           /\ \A R \in EventRange : R \in RangeSet /\ Admits(R, q.files[r.file].base + r.entry)
           /\ PassesDatasetEntryFilters(r.file, r.entry) /\ PassesPathPredicates(r.file, r.entry)
           /\ Passes(q.value, r.value)
<1> DEFINE f == r.file
           F == q.files[f]
           e == r.entry
<1>1. f \in DOMAIN q.files /\ e \in Entries(f) /\ e \in Nat
  BY MatchingFacts, RowFacts
<1>2. /\ F.base \in Nat /\ Len(F.target) \in Nat /\ F.base + e <= MaxWord
      /\ F.cbaskets \in Seq(BasketSet) /\ Describes(F.cbaskets, F.companion)
      /\ Entries(f) = 0 .. Len(F.companion) - 1 /\ F.companion[e + 1] \in Seq(Value)
  BY <1>1, FileFacts
<1>3. F.companion \in Seq(Seq(Value))
  BY <1>1, QueryFacts DEF FileSet
<1>4. /\ \A g \in q.event : Holds(g.expr, F.base + e)
      /\ \A g \in q.entry : Holds(g.expr, e)
      /\ \A g \in q.source : Holds(g.expr, f)
      /\ \A g \in q.value : Holds(g.expr, r.value)
      /\ \A s \in q.selection : e \in s[f]
      /\ PassesPathPredicates(f, e)
  BY MatchingFacts
<1>5. ASSUME NEW k \in DOMAIN q.predicates PROVE e \in PredicateEntries(q.predicates[k], f)
  <2> DEFINE p == q.predicates[k]
             W == F.companion[e + 1]
  <2>1. IsPredicate(p) /\ p.op \in Comparisons \cup {"between", "in"} /\ p.consts \in Seq(Value)
    BY QueryFacts
  <2>2. PathPredicateEventMatches(p, W)
    BY <1>4 DEF PassesPathPredicates
  <2>3. NaN \notin ToSet(W)
    <3>1. q.predicates # <<>>
      OBVIOUS
    <3>2. QED BY <1>1, <3>1 DEF Ordinary
  <2>4. PICK y \in ToSet(W) : PathPredicateValueMatches(p, y)
    <3>1. W \in Seq(Value) /\ W # <<>>
      BY <1>2, <2>2 DEF PathPredicateEventMatches
    <3> HIDE DEF W
    <3>2. W[1] \in ToSet(W)
      <4>1. 1 \in DOMAIN W
        BY <3>1
      <4>2. QED BY <4>1 DEF ToSet
    <3>3. QED BY <2>2, <3>2 DEF PathPredicateEventMatches
  <2>5. PICK j \in DOMAIN W : y = W[j]
    BY DEF ToSet
  <2>6. PICK c \in ToSet(F.cbaskets) : e \in Inside(c)
    BY <1>1, <1>2 DEF Describes
  <2>7. PICK m \in DOMAIN F.cbaskets : c = F.cbaskets[m]
    BY <1>2, <1>3, BasketFacts
  <2> DEFINE V == Content(F.companion, c)
             x == [entry |-> e, idx |-> j, value |-> y]
  <2>8. c.stats = Stats(V) /\ (\A z \in V : z.value \in Value) /\ x \in V /\ x.value = y
    BY <1>2, <1>3, <2>5, <2>6, <2>7, BasketFacts
  <2>9. y # NaN
    BY <2>3
  <2> HIDE DEF V, x, p, W
  <2>10. PredicateMetadataMayMatch(p, c.stats)
    BY <2>1, <2>4, <2>8, <2>9, PredicateSound
  <2>11. c \in {d \in ToSet(F.cbaskets) : PredicateMetadataMayMatch(p, d.stats)}
    BY <2>6, <2>10
  <2>12. e \in PredicateEntries(p, f)
    BY <2>6, <2>11 DEF PredicateEntries
  <2>13. QED BY <2>12 DEF p
<1>6. e \in CandidateEntries(f)
  BY <1>1, <1>4, <1>5 DEF CandidateEntries
<1>7. \A R \in EntryRange : R \in RangeSet /\ Admits(R, e)
  <2> SUFFICES ASSUME NEW g \in q.entry
               PROVE  ExtractRootUnsignedRange(g.expr) \in RangeSet /\ Admits(ExtractRootUnsignedRange(g.expr), e)
    BY DEF EntryRange
  <2>1. g.expr \in Expression /\ IsTree(g.expr) /\ Holds(g.expr, e)
    BY <1>4, QueryFacts
  <2>2. e <= MaxWord
    <3> DEFINE B == F.base
    <3>1. B \in Nat /\ e \in Nat /\ B + e <= MaxWord /\ MaxWord \in Nat
      BY ONLY <1>1, <1>2, PruneAssumption
    <3> HIDE DEF B, F, e
    <3>2. QED BY ONLY <3>1
  <2>3. QED BY <1>1, <2>1, <2>2, RangeSound
<1>8. \A R \in EventRange : R \in RangeSet /\ Admits(R, F.base + e)
  <2> SUFFICES ASSUME NEW g \in q.event
               PROVE  /\ ExtractRootUnsignedRange(g.expr) \in RangeSet
                      /\ Admits(ExtractRootUnsignedRange(g.expr), F.base + e)
    BY DEF EventRange
  <2>1. g.expr \in Expression /\ IsTree(g.expr) /\ Holds(g.expr, F.base + e)
    BY <1>4, QueryFacts
  <2>2. F.base + e \in Nat
    BY <1>1, <1>2
  <2>3. QED BY <1>2, <2>1, <2>2, RangeSound
<1>9. ~NothingToRead
  BY <1>7, <1>8 DEF NothingToRead, Admits
<1>10. PassesDatasetEntryFilters(f, e) /\ Passes(q.value, r.value)
  BY <1>4 DEF PassesDatasetEntryFilters, Passes
<1>11. QED BY <1>4, <1>6, <1>7, <1>8, <1>9, <1>10

-----------------------------------------------------------------------------
(***************************************************************************)
(* The numbers of a finite set, in order.                                  *)
(***************************************************************************)

Below(S, x) == {y \in S : y < x}

LEMMA BelowFacts ==
    ASSUME NEW S, S \subseteq Nat, IsFiniteSet(S), NEW x \in Nat
    PROVE  /\ IsFiniteSet(Below(S, x)) /\ Cardinality(Below(S, x)) \in Nat
           /\ Cardinality(Below(S, x)) <= Cardinality(S) /\ Cardinality(S) \in Nat
           /\ x \in S => Cardinality(Below(S, x)) < Cardinality(S)
<1>1. Below(S, x) \in SUBSET S
  BY DEF Below
<1>2. /\ IsFiniteSet(Below(S, x)) /\ Cardinality(Below(S, x)) \in Nat /\ Cardinality(S) \in Nat
      /\ Cardinality(Below(S, x)) <= Cardinality(S)
  BY <1>1, FS_Subset, FS_CardinalityType
<1>3. ASSUME x \in S PROVE Cardinality(Below(S, x)) < Cardinality(S)
  <2>1. x \notin Below(S, x)
    BY DEF Below
  <2>2. IsFiniteSet(Below(S, x) \cup {x}) /\ Cardinality(Below(S, x) \cup {x}) = Cardinality(Below(S, x)) + 1
    BY <1>2, <2>1, FS_AddElement
  <2>3. Below(S, x) \cup {x} \in SUBSET S
    BY <1>1, <1>3
  <2>4. Cardinality(Below(S, x) \cup {x}) <= Cardinality(S)
    BY <2>3, FS_Subset
  <2>5. QED BY <1>2, <2>2, <2>4
<1>4. QED BY <1>2, <1>3

LEMMA BelowNext ==
    ASSUME NEW S, S \subseteq Nat, IsFiniteSet(S), NEW x \in S, NEW y \in S, x < y,
           \A z \in S : x < z => y <= z
    PROVE  Cardinality(Below(S, y)) = Cardinality(Below(S, x)) + 1
<1>0. \A z \in S : z \in Nat
  OBVIOUS
<1>1. Below(S, y) = Below(S, x) \cup {x} /\ x \notin Below(S, x)
  <2>1. \A z \in S : z < y <=> z < x \/ z = x
    BY <1>0
  <2>2. ~ (x < x)
    BY <1>0
  <2>3. QED BY <2>1, <2>2 DEF Below
<1>2. IsFiniteSet(Below(S, x))
  BY BelowFacts
<1>3. QED BY <1>1, <1>2, FS_AddElement

LEMMA BelowOrder ==
    ASSUME NEW S, S \subseteq Nat, IsFiniteSet(S), NEW x \in S, NEW y \in S,
           Cardinality(Below(S, x)) = Cardinality(Below(S, y))
    PROVE  x = y
<1>1. ASSUME NEW a \in S, NEW b \in S, a < b PROVE Cardinality(Below(S, a)) < Cardinality(Below(S, b))
  <2>1. Below(S, a) \cup {a} \in SUBSET Below(S, b) /\ a \notin Below(S, a)
    <3>1. \A z \in S : z \in Nat
      OBVIOUS
    <3>2. ~ (a < a) /\ \A z \in S : z < a => z < b
      BY <1>1, <3>1
    <3>3. QED BY <1>1, <3>2 DEF Below
  <2>2. /\ IsFiniteSet(Below(S, a)) /\ IsFiniteSet(Below(S, b))
        /\ Cardinality(Below(S, a)) \in Nat /\ Cardinality(Below(S, b)) \in Nat
    BY BelowFacts
  <2>3. Cardinality(Below(S, a) \cup {a}) = Cardinality(Below(S, a)) + 1
    BY <2>1, <2>2, FS_AddElement
  <2>4. Cardinality(Below(S, a) \cup {a}) <= Cardinality(Below(S, b))
    BY <2>1, <2>2, FS_Subset
  <2>5. QED BY <2>2, <2>3, <2>4
<1>2. Cardinality(Below(S, x)) \in Nat /\ x \in Nat /\ y \in Nat
  BY BelowFacts
<1>3. ~ (x < y) /\ ~ (y < x)
  BY <1>1, <1>2
<1>4. QED BY <1>2, <1>3

\* Nth counts a set up: each of its numbers has one place.
LEMMA NthFacts ==
    ASSUME NEW S, S \subseteq Nat, IsFiniteSet(S)
    PROVE  /\ Cardinality(S) \in Nat
           /\ \A i \in 1 .. Cardinality(S) : Nth(S, i) \in S /\ Cardinality(Below(S, Nth(S, i))) = i - 1
           /\ \A i, j \in 1 .. Cardinality(S) : Nth(S, i) = Nth(S, j) => i = j
           /\ \A x \in S : \E i \in 1 .. Cardinality(S) : x = Nth(S, i)
<1> DEFINE n == Cardinality(S)
           G == {i \in 1 .. n : \E x \in S : Cardinality(Below(S, x)) = i - 1}
<1>1. n \in Nat
  BY FS_CardinalityType
<1> HIDE DEF n
<1>2. ASSUME NEW i \in 1 .. n, \A m \in 1 .. i - 1 : m \in G PROVE i \in G
  <2>1. CASE i = 1
    <3>1. S # {}
      BY <1>1, FS_EmptySet DEF n
    <3>2. PICK x \in S : \A y \in S : x <= y
      BY <3>1, LeastNumber
    <3>3. Below(S, x) = {}
      <4>1. \A y \in S : y \in Nat
        OBVIOUS
      <4>2. \A y \in S : ~ (y < x)
        BY <3>2, <4>1
      <4>3. QED BY <4>2 DEF Below
    <3>4. Cardinality(Below(S, x)) = 0
      BY <3>3, FS_EmptySet
    <3>5. QED BY <2>1, <3>4
  <2>2. CASE i # 1
    <3>1. i - 1 \in 1 .. i - 1 /\ i - 1 \in Nat
      BY <1>1, <2>2
    <3>2. PICK x \in S : Cardinality(Below(S, x)) = (i - 1) - 1
      BY <1>2, <3>1
    <3> DEFINE A == {y \in S : x < y}
    <3>3. A # {}
      <4>1. SUFFICES ASSUME A = {} PROVE FALSE
        OBVIOUS
      <4>2. S = Below(S, x) \cup {x} /\ x \notin Below(S, x)
        <5>1. \A y \in S : y \in Nat /\ ~ (x < y)
          BY <4>1
        <5>2. ~ (x < x) /\ \A y \in S : y < x \/ y = x
          BY <5>1
        <5>3. QED BY <5>2 DEF Below
      <4>3. IsFiniteSet(Below(S, x))
        BY BelowFacts
      <4>4. n = ((i - 1) - 1) + 1
        BY <3>2, <4>2, <4>3, FS_AddElement DEF n
      <4>5. QED BY <1>1, <3>1, <4>4
    <3>4. PICK y \in A : \A z \in A : y <= z
      BY <3>3, LeastNumber
    <3>5. y \in S /\ x < y /\ \A z \in S : x < z => y <= z
      BY <3>4
    <3>6. Cardinality(Below(S, y)) = ((i - 1) - 1) + 1
      BY <3>2, <3>5, BelowNext
    <3>7. Cardinality(Below(S, y)) = i - 1
      BY <3>1, <3>6
    <3>8. QED BY <3>5, <3>7
  <2>3. QED BY <2>1, <2>2
<1> HIDE DEF G
<1>3. \A i \in 1 .. n : i \in G
  <2>1. 1 \in Nat /\ n \in Int
    BY <1>1
  <2>2. QED BY <1>2, <2>1, IntervalInduction
<1>4. ASSUME NEW i \in 1 .. n PROVE Nth(S, i) \in S /\ Cardinality(Below(S, Nth(S, i))) = i - 1
  <2>1. \E x \in S : Cardinality(Below(S, x)) = i - 1
    BY <1>3 DEF G
  <2>2. \E x \in S : Cardinality({y \in S : y < x}) = i - 1
    BY <2>1 DEF Below
  <2>3. Nth(S, i) \in S /\ Cardinality({y \in S : y < Nth(S, i)}) = i - 1
    BY <2>2 DEF Nth
  <2>4. QED BY <2>3 DEF Below
<1>5. ASSUME NEW i \in 1 .. n, NEW j \in 1 .. n, Nth(S, i) = Nth(S, j) PROVE i = j
  <2>1. i - 1 = j - 1 /\ i \in Int /\ j \in Int
    BY <1>4, <1>5
  <2>2. QED BY <2>1
<1>6. ASSUME NEW x \in S PROVE \E i \in 1 .. n : x = Nth(S, i)
  <2> DEFINE i == Cardinality(Below(S, x)) + 1
  <2>1. i \in 1 .. n /\ i - 1 = Cardinality(Below(S, x))
    <3>1. x \in Nat
      OBVIOUS
    <3>2. Cardinality(Below(S, x)) \in Nat /\ Cardinality(Below(S, x)) < n
      BY <3>1, BelowFacts DEF n
    <3>3. QED BY <1>1, <3>2
  <2>2. Nth(S, i) \in S /\ Cardinality(Below(S, Nth(S, i))) = Cardinality(Below(S, x))
    BY <1>4, <2>1
  <2>3. QED BY <2>1, <2>2, BelowOrder
<1>7. QED BY <1>1, <1>4, <1>5, <1>6 DEF n

-----------------------------------------------------------------------------
(***************************************************************************)
(* Tasks.  A sequence of tasks holds entries of files; in the plan each    *)
(* once, files in order.                                                   *)
(***************************************************************************)

AnyTask == [file: Nat, begin: Nat, end: Nat, offset: Nat, size: Nat]

Holding(T, k, f, e) == T[k].file = f /\ e \in Inside(T[k])
Covered(T, f, e) == \E k \in DOMAIN T : Holding(T, k, f, e)

\* Every task has an entry and no entry is in two tasks.
Disjoint(T) ==
    /\ T \in Seq(AnyTask)
    /\ \A k \in DOMAIN T : T[k].begin < T[k].end
    /\ \A k, l \in DOMAIN T : k # l /\ T[k].file = T[l].file => Inside(T[k]) \cap Inside(T[l]) = {}
    /\ \A k, l \in DOMAIN T : k <= l => T[k].file <= T[l].file

\* The entries of a basket that Clip keeps.
ClipSet(f, b) == IF IntervalFilterActive THEN CandidateEntries(f) \cap Inside(b) ELSE Inside(b)

\* BuildPredicateIntersection and the clipping of a basket: the tasks cut from a
\* basket hold what is left of its entries, each once.
LEMMA ClipFacts ==
    ASSUME NEW f \in Nat, NEW b, b.begin \in Nat, b.end \in Nat, b.offset \in Nat, b.size \in Nat
    PROVE  /\ Disjoint(Clip(f, b))
           /\ \A k \in DOMAIN Clip(f, b) : Clip(f, b)[k].file = f
           /\ \A g, e : Covered(Clip(f, b), g, e) <=> g = f /\ e \in ClipSet(f, b)
<1> DEFINE C == ClipSet(f, b)
           Starts == {e \in C : e - 1 \notin C}
           End(e) == Min({x \in e .. b.end : x \notin C})
           n == Cardinality(Starts)
           Cut(e) == [file |-> f, begin |-> e, end |-> End(e), offset |-> b.offset, size |-> b.size]
           K == Clip(f, b)
<1>1. K = [i \in 1 .. n |-> Cut(Nth(Starts, i))]
  BY DEF Clip, ClipSet
<1>2. C \subseteq Inside(b)
  BY DEF ClipSet
<1>3. \A e \in C : e \in Nat /\ b.begin <= e /\ e < b.end
  BY <1>2 DEF Inside
<1>4. b.end \notin C /\ Starts \subseteq C /\ Starts \subseteq Nat
  BY <1>3
<1>5. \A e \in Starts : e \in C /\ e - 1 \notin C
  OBVIOUS
<1> HIDE DEF C
<1>6. IsFiniteSet(Starts)
  <2>1. \A e \in Starts : e <= b.end
    BY <1>3
  <2>2. Starts \in SUBSET Nat
    BY <1>4
  <2> HIDE DEF Starts
  <2>3. QED BY <2>1, <2>2, FS_BoundedSetOfNaturals
<1>7. ASSUME NEW e \in C
      PROVE  /\ End(e) \in Nat /\ e < End(e) /\ End(e) <= b.end /\ End(e) \notin C
             /\ \A x \in e .. End(e) - 1 : x \in C
  <2> DEFINE E == {x \in e .. b.end : x \notin C}
  <2>1. e \in Nat /\ e < b.end
    BY <1>3
  <2>2. E \subseteq Nat /\ b.end \in E
    BY <1>4, <2>1
  <2>3. \A x \in E : x # e /\ e <= x /\ x <= b.end /\ x \notin C
    OBVIOUS
  <2>4. \A x \in e .. b.end : x \notin E => x \in C
    OBVIOUS
  <2> HIDE DEF E
  <2>5. Min(E) \in E /\ \A x \in E : Min(E) <= x
    BY <2>2, LeastOf
  <2>6. Min(E) \in Nat /\ e < Min(E) /\ Min(E) <= b.end /\ Min(E) \notin C
    <3>1. Min(E) \in E
      BY <2>5
    <3>2. Min(E) # e /\ e <= Min(E) /\ Min(E) <= b.end /\ Min(E) \notin C
      BY <2>3, <3>1
    <3>3. Min(E) \in Nat
      BY <2>2, <3>1
    <3>4. QED BY <2>1, <3>2, <3>3
  <2>7. \A x \in e .. Min(E) - 1 : x \in e .. b.end /\ x \notin E
    BY <2>1, <2>2, <2>5, <2>6
  <2>8. QED BY <2>4, <2>6, <2>7 DEF E
<1> HIDE DEF End
<1>8. /\ n \in Nat
      /\ \A i \in 1 .. n : Nth(Starts, i) \in Starts
      /\ \A i, j \in 1 .. n : Nth(Starts, i) = Nth(Starts, j) => i = j
      /\ \A x \in Starts : \E i \in 1 .. n : x = Nth(Starts, i)
  <2> HIDE DEF Starts
  <2>1. QED BY <1>4, <1>6, NthFacts
<1> HIDE DEF Starts, n
<1>9. \A e \in Starts : Cut(e) \in AnyTask /\ Cut(e).begin < Cut(e).end /\ Cut(e).file = f
  BY <1>3, <1>5, <1>7 DEF AnyTask
<1>10. \A e \in Starts : \A x : x \in Inside(Cut(e)) <=> x \in e .. End(e) - 1
  BY DEF Inside
<1>11. ASSUME NEW d \in Starts, NEW e \in Starts, NEW x, x \in Inside(Cut(d)), x \in Inside(Cut(e)) PROVE d = e
  <2>1. d \in Nat /\ e \in Nat /\ x \in Nat /\ d <= x /\ x < End(d) /\ e <= x /\ x < End(e)
        /\ End(d) \in Nat /\ End(e) \in Nat
    BY <1>3, <1>5, <1>7, <1>10, <1>11
  <2>2. ~ (d < e)
    <3>1. SUFFICES ASSUME d < e PROVE FALSE
      OBVIOUS
    <3>2. e - 1 \in d .. End(d) - 1
      BY <2>1, <3>1
    <3>3. QED BY <1>5, <1>7, <3>2
  <2>3. ~ (e < d)
    <3>1. SUFFICES ASSUME e < d PROVE FALSE
      OBVIOUS
    <3>2. d - 1 \in e .. End(e) - 1
      BY <2>1, <3>1
    <3>3. QED BY <1>5, <1>7, <3>2
  <2>4. QED BY <2>1, <2>2, <2>3
<1>12. ASSUME NEW x \in C PROVE \E e \in Starts : x \in Inside(Cut(e))
  <2> DEFINE L == {y \in 0 .. x : \A z \in y .. x : z \in C}
  <2>1. x \in Nat
    BY <1>3
  <2>2. x \in L /\ L \subseteq Nat
    BY <2>1
  <2>3. \A y \in L : y \in Nat /\ y <= x /\ \A z \in y .. x : z \in C
    BY <2>1
  <2>4. \A y \in 0 .. x : (\A z \in y .. x : z \in C) => y \in L
    OBVIOUS
  <2> HIDE DEF L
  <2>5. PICK e \in L : \A y \in L : e <= y
    BY <2>2, LeastNumber
  <2>6. e \in Nat /\ e <= x /\ e \in C /\ \A z \in e .. x : z \in C
    BY <2>1, <2>3, <2>5
  <2>7. e - 1 \notin C
    <3>1. SUFFICES ASSUME e - 1 \in C PROVE FALSE
      OBVIOUS
    <3>2. e - 1 \in Nat /\ e - 1 \in 0 .. x
      BY <1>3, <2>1, <2>6, <3>1
    <3>3. \A z \in e - 1 .. x : z = e - 1 \/ z \in e .. x
      BY <2>1, <2>6
    <3>4. \A z \in e - 1 .. x : z \in C
      BY <2>6, <3>1, <3>3
    <3>5. e - 1 \in L
      BY <2>4, <3>2, <3>4
    <3>6. QED BY <2>5, <2>6, <3>2, <3>5
  <2>8. e \in Starts
    BY <2>6, <2>7 DEF Starts
  <2>9. x < End(e)
    <3>1. SUFFICES ASSUME End(e) <= x PROVE FALSE
      BY <1>7, <2>1, <2>6
    <3>2. End(e) \in e .. x
      BY <1>7, <2>1, <2>6, <3>1
    <3>3. QED BY <1>7, <2>6, <3>2
  <2>10. x \in e .. End(e) - 1
    BY <1>7, <2>1, <2>6, <2>9
  <2>11. QED BY <1>10, <2>8, <2>10
<1> HIDE DEF Cut, K
<1>13. K \in Seq(AnyTask) /\ Len(K) = n /\ DOMAIN K = 1 .. n /\ \A i \in 1 .. n : K[i] = Cut(Nth(Starts, i))
  <2>1. \A i \in 1 .. n : Cut(Nth(Starts, i)) \in AnyTask
    BY <1>8, <1>9
  <2>2. K \in [1 .. n -> AnyTask]
    BY <1>1, <2>1
  <2>3. QED BY <1>1, <1>8, <2>2
<1>14. \A i \in 1 .. n : K[i].begin < K[i].end /\ K[i].file = f
  BY <1>8, <1>9, <1>13
<1>15. \A k, l \in 1 .. n : k # l => Inside(K[k]) \cap Inside(K[l]) = {}
  <2> SUFFICES ASSUME NEW k \in 1 .. n, NEW l \in 1 .. n, NEW x, x \in Inside(K[k]), x \in Inside(K[l])
               PROVE  k = l
    OBVIOUS
  <2>1. Nth(Starts, k) = Nth(Starts, l)
    BY <1>8, <1>11, <1>13
  <2>2. QED BY <1>8, <2>1
<1>16. Disjoint(K)
  BY <1>13, <1>14, <1>15 DEF Disjoint
<1>17. ASSUME NEW g, NEW e PROVE Covered(K, g, e) <=> g = f /\ e \in C
  <2>1. ASSUME NEW k \in 1 .. n, K[k].file = g, e \in Inside(K[k]) PROVE g = f /\ e \in C
    <3>1. Nth(Starts, k) \in Starts /\ e \in Nth(Starts, k) .. End(Nth(Starts, k)) - 1
      BY <1>8, <1>10, <1>13, <2>1
    <3>2. QED BY <1>5, <1>7, <1>14, <2>1, <3>1
  <2>2. ASSUME g = f, e \in C PROVE \E k \in 1 .. n : K[k].file = g /\ e \in Inside(K[k])
    <3>1. PICK d \in Starts : e \in Inside(Cut(d))
      BY <1>12, <2>2
    <3>2. PICK k \in 1 .. n : d = Nth(Starts, k)
      BY <1>8
    <3>3. QED BY <1>13, <1>14, <2>2, <3>1, <3>2
  <2>3. QED BY <1>13, <2>1, <2>2 DEF Covered, Holding
<1>18. QED BY <1>13, <1>14, <1>16, <1>17 DEF K, C

\* R is T followed by C, of which the first s tasks went into the last of T.
Joins(R, T, C, s) ==
    /\ R \in Seq(AnyTask) /\ Len(R) = Len(T) + Len(C) - s
    /\ \A k \in DOMAIN R : R[k].begin < R[k].end
    /\ \A k \in DOMAIN T : /\ k \in DOMAIN R /\ R[k].file = T[k].file
                           /\ Inside(T[k]) \subseteq Inside(R[k])
    /\ \A k \in DOMAIN C : /\ Len(T) - s + k \in DOMAIN R /\ R[Len(T) - s + k].file = C[k].file
                           /\ Inside(C[k]) \subseteq Inside(R[Len(T) - s + k])
    /\ \A k \in DOMAIN R : \A e \in Inside(R[k]) :
          \/ k \in DOMAIN T /\ e \in Inside(T[k])
          \/ k - Len(T) + s \in DOMAIN C /\ e \in Inside(C[k - Len(T) + s])

\* Tasks of later files that hold other entries can follow.
LEMMA JoinsFacts ==
    ASSUME NEW T, NEW C, NEW f \in Nat, NEW s \in {0, 1}, NEW R, Disjoint(T), Disjoint(C), C # <<>>,
           s = 1 => T # <<>>,
           \A k \in DOMAIN C : C[k].file = f, \A k \in DOMAIN T : T[k].file <= f,
           \A e : Covered(C, f, e) => ~Covered(T, f, e), Joins(R, T, C, s)
    PROVE  /\ Disjoint(R)
           /\ \A k \in DOMAIN R : R[k].file <= f
           /\ \A g, e : Covered(R, g, e) <=> Covered(T, g, e) \/ Covered(C, g, e)
<1> DEFINE n == Len(T)
           m == Len(C)
<1>1. /\ n \in Nat /\ m \in Nat /\ m >= 1 /\ (s = 1 => n >= 1)
      /\ DOMAIN T = 1 .. n /\ DOMAIN C = 1 .. m /\ DOMAIN R = 1 .. n + m - s
      /\ \A k \in 1 .. n : T[k] \in AnyTask
      /\ \A k \in 1 .. m : C[k] \in AnyTask
      /\ \A k \in 1 .. n + m - s : R[k] \in AnyTask
  BY DEF Disjoint, Joins
<1>2. \A k \in 1 .. n + m - s : k \in 1 .. n \/ k - n + s \in 1 .. m
  BY <1>1
<1>3. \A k \in 1 .. n : k \in 1 .. n + m - s /\ R[k].file = T[k].file /\ R[k].file <= f
  BY <1>1 DEF Joins
<1>4. \A k \in 1 .. n + m - s : k - n + s \in 1 .. m => R[k].file = f
  <2> SUFFICES ASSUME NEW k \in 1 .. n + m - s, k - n + s \in 1 .. m PROVE R[k].file = f
    OBVIOUS
  <2> DEFINE j == k - n + s
  <2>1. n - s + j = k
    BY <1>1
  <2>2. R[n - s + j].file = C[j].file
    BY <1>1 DEF Joins
  <2>3. QED BY <1>1, <2>1, <2>2
<1>5. \A k \in 1 .. n + m - s : R[k].file <= f
  BY <1>2, <1>3, <1>4
<1>6. ASSUME NEW k \in 1 .. n + m - s, NEW l \in 1 .. n + m - s, k <= l PROVE R[k].file <= R[l].file
  <2>1. CASE l \in 1 .. n
    <3>1. k \in 1 .. n
      BY <1>1, <1>6, <2>1
    <3>2. T[k].file <= T[l].file
      BY <1>1, <1>6, <2>1, <3>1 DEF Disjoint
    <3>3. QED BY <1>3, <2>1, <3>1, <3>2
  <2>2. CASE l - n + s \in 1 .. m
    BY <1>4, <1>5, <2>2
  <2>3. QED BY <1>2, <2>1, <2>2
<1>7. ASSUME NEW k \in 1 .. n + m - s, NEW e, e \in Inside(R[k])
      PROVE  \/ k \in 1 .. n /\ Holding(T, k, R[k].file, e)
             \/ k - n + s \in 1 .. m /\ R[k].file = f /\ Holding(C, k - n + s, f, e)
  <2>1. CASE k \in DOMAIN T /\ e \in Inside(T[k])
    BY <1>1, <1>3, <2>1 DEF Holding
  <2>2. CASE k - n + s \in DOMAIN C /\ e \in Inside(C[k - n + s])
    BY <1>1, <1>4, <2>2 DEF Holding
  <2>3. QED BY <1>1, <1>7, <2>1, <2>2 DEF Joins
<1>8. ASSUME NEW k \in 1 .. n + m - s, NEW l \in 1 .. n + m - s, R[k].file = R[l].file,
             NEW e, e \in Inside(R[k]), e \in Inside(R[l])
      PROVE  k = l
  <2>1. CASE k \in 1 .. n /\ Holding(T, k, R[k].file, e) /\ l \in 1 .. n /\ Holding(T, l, R[l].file, e)
    BY <1>1, <1>8, <2>1 DEF Holding, Disjoint
  <2>2. CASE /\ k - n + s \in 1 .. m /\ Holding(C, k - n + s, f, e)
             /\ l - n + s \in 1 .. m /\ Holding(C, l - n + s, f, e)
    <3>1. k - n + s = l - n + s
      BY <1>1, <2>2 DEF Holding, Disjoint
    <3>2. QED BY <1>1, <3>1
  <2>3. ~ (k \in 1 .. n /\ Holding(T, k, f, e) /\ l - n + s \in 1 .. m /\ Holding(C, l - n + s, f, e))
    BY <1>1 DEF Covered
  <2>4. ~ (l \in 1 .. n /\ Holding(T, l, f, e) /\ k - n + s \in 1 .. m /\ Holding(C, k - n + s, f, e))
    BY <1>1 DEF Covered
  <2>5. QED BY <1>7, <1>8, <2>1, <2>2, <2>3, <2>4
<1>9. Disjoint(R)
  <2>1. R \in Seq(AnyTask) /\ \A k \in DOMAIN R : R[k].begin < R[k].end
    BY DEF Joins
  <2>2. QED BY <1>1, <1>6, <1>8, <2>1 DEF Disjoint
<1>10. ASSUME NEW g, NEW e, Covered(R, g, e) PROVE Covered(T, g, e) \/ Covered(C, g, e)
  <2>1. PICK k \in 1 .. n + m - s : R[k].file = g /\ e \in Inside(R[k])
    BY <1>1, <1>10 DEF Covered, Holding
  <2>2. QED BY <1>1, <1>7, <2>1 DEF Covered
<1>11. ASSUME NEW g, NEW e, Covered(T, g, e) PROVE Covered(R, g, e)
  BY <1>11 DEF Covered, Holding, Joins
<1>12. ASSUME NEW g, NEW e, Covered(C, g, e) PROVE Covered(R, g, e)
  BY <1>12 DEF Covered, Holding, Joins
<1>13. QED BY <1>1, <1>5, <1>9, <1>10, <1>11, <1>12

LEMMA AppendFacts ==
    ASSUME NEW S, NEW A \in Seq(S), NEW B \in Seq(S)
    PROVE  /\ A \o B \in Seq(S) /\ Len(A \o B) = Len(A) + Len(B)
           /\ Len(A) \in Nat /\ Len(B) \in Nat
           /\ \A k \in 1 .. Len(A) : (A \o B)[k] = A[k]
           /\ \A k \in 1 .. Len(B) : (A \o B)[Len(A) + k] = B[k]
  OBVIOUS

\* Coalescing moves no entry.
LEMMA CoalesceFacts ==
    ASSUME NEW T, NEW C, NEW f \in Nat, Disjoint(T), Disjoint(C), C # <<>>,
           \A k \in DOMAIN C : C[k].file = f, \A k \in DOMAIN T : T[k].file <= f,
           \A e : Covered(C, f, e) => ~Covered(T, f, e)
    PROVE  /\ Disjoint(Coalesce(T, C))
           /\ \A k \in DOMAIN Coalesce(T, C) : Coalesce(T, C)[k].file <= f
           /\ \A g, e : Covered(Coalesce(T, C), g, e) <=> Covered(T, g, e) \/ Covered(C, g, e)
<1> DEFINE n == Len(T)
           m == Len(C)
           R == Coalesce(T, C)
<1>0. n \in Nat /\ m \in Nat
  BY DEF Disjoint
<1>1. /\ T \in Seq(AnyTask) /\ C \in Seq(AnyTask) /\ n \in Nat /\ m \in Nat /\ m >= 1
      /\ DOMAIN T = 1 .. n /\ DOMAIN C = 1 .. m
      /\ \A k \in 1 .. n : T[k] \in AnyTask /\ T[k].begin < T[k].end
      /\ \A k \in 1 .. m : C[k] \in AnyTask /\ C[k].begin < C[k].end
  BY DEF Disjoint
<1>2. CASE T # <<>> /\ Adjacent(Last(T), Head(C))
  <2> DEFINE t == T[n]
             c == C[1]
             J == [t EXCEPT !.end = c.end, !.size = c.offset + c.size - t.offset]
  <2>1. n >= 1 /\ Last(T) = t /\ Head(C) = c /\ t \in AnyTask /\ c \in AnyTask
        /\ t.begin < t.end /\ c.begin < c.end
    BY <1>1, <1>2 DEF Last
  <2>2. /\ t.file = c.file /\ t.end = c.begin /\ c.offset >= t.offset + t.size
    BY <1>2, <2>1 DEF Adjacent
  <2>3. /\ t.file \in Nat /\ t.begin \in Nat /\ t.end \in Nat /\ t.offset \in Nat /\ t.size \in Nat
        /\ c.end \in Nat /\ c.begin \in Nat /\ c.offset \in Nat /\ c.size \in Nat
    BY ONLY <2>1 DEF AnyTask
  <2>4. J \in AnyTask /\ J.file = t.file /\ J.begin = t.begin /\ J.end = c.end
    <3> DEFINE z == c.offset + c.size - t.offset
    <3>1. z \in Nat
      <4> DEFINE u == t.offset
                 v == t.size
                 x == c.offset
                 y == c.size
      <4>1. u \in Nat /\ v \in Nat /\ x \in Nat /\ y \in Nat /\ x >= u + v /\ z = x + y - u
        BY ONLY <2>2, <2>3
      <4> HIDE DEF u, v, x, y, z
      <4>2. QED BY ONLY <4>1
    <3> HIDE DEF z
    <3>2. J = [t EXCEPT !.end = c.end, !.size = z]
      BY DEF z
    <3> HIDE DEF J
    <3>3. J = [file |-> t.file, begin |-> t.begin, end |-> c.end, offset |-> t.offset, size |-> z]
      BY <2>1, <3>2 DEF AnyTask
    <3>4. QED BY <2>3, <3>1, <3>3 DEF AnyTask
  <2>5. J.begin < J.end /\ \A e : e \in Inside(J) <=> e \in Inside(t) \/ e \in Inside(c)
    <3> DEFINE u == t.begin
               v == t.end
               x == c.end
    <3>1. u \in Nat /\ v \in Nat /\ x \in Nat /\ u < v /\ v < x
      BY ONLY <2>1, <2>2, <2>3
    <3>2. /\ J.begin = u /\ J.end = x
          /\ Inside(J) = u .. x - 1 /\ Inside(t) = u .. v - 1 /\ Inside(c) = v .. x - 1
      BY ONLY <2>2, <2>4 DEF Inside
    <3> HIDE DEF J, u, v, x
    <3>3. u < x /\ \A e : e \in u .. x - 1 <=> e \in u .. v - 1 \/ e \in v .. x - 1
      BY ONLY <3>1
    <3>4. QED BY ONLY <3>2, <3>3
  <2> HIDE DEF J
  <2>6. R = Front(T) \o <<J>> \o Tail(C)
    BY <1>2, <2>1 DEF Coalesce, J
  <2>7. Front(T) \in Seq(AnyTask) /\ Len(Front(T)) = n - 1 /\ \A k \in 1 .. n - 1 : Front(T)[k] = T[k]
    BY <1>1, <2>1 DEF Front
  <2>8. Tail(C) \in Seq(AnyTask) /\ Len(Tail(C)) = m - 1 /\ \A k \in 1 .. m - 1 : Tail(C)[k] = C[k + 1]
    BY <1>1
  <2>9. /\ R \in Seq(AnyTask) /\ Len(R) = n + m - 1
        /\ \A k \in 1 .. n - 1 : R[k] = T[k]
        /\ R[n] = J
        /\ \A k \in 2 .. m : R[n - 1 + k] = C[k]
    <3> DEFINE U == Front(T) \o <<J>>
    <3>0. n - 1 \in Nat /\ n - 1 + 1 = n /\ n + (m - 1) = n + m - 1 /\ 1 \in 1 .. 1
      BY <1>0, <2>1
    <3>1. U \in Seq(AnyTask) /\ Len(U) = n /\ (\A k \in 1 .. n - 1 : U[k] = T[k]) /\ U[n] = J
      <4>1. <<J>> \in Seq(AnyTask) /\ Len(<<J>>) = 1 /\ <<J>>[1] = J
        BY <2>4
      <4> DEFINE A == Front(T)
                 B == <<J>>
      <4>2. A \in Seq(AnyTask) /\ B \in Seq(AnyTask)
        BY <2>7, <4>1
      <4> HIDE DEF A, B
      <4>3. /\ A \o B \in Seq(AnyTask) /\ Len(A \o B) = Len(A) + Len(B)
            /\ \A k \in 1 .. Len(A) : (A \o B)[k] = A[k]
            /\ \A k \in 1 .. Len(B) : (A \o B)[Len(A) + k] = B[k]
        BY <4>2, AppendFacts
      <4>4. Len(A) = n - 1 /\ (\A k \in 1 .. n - 1 : A[k] = T[k]) /\ Len(B) = 1 /\ B[1] = J
        BY <2>7, <4>1 DEF A, B
      <4>5. U = A \o B
        BY DEF A, B
      <4>6. (A \o B)[n] = J
        <5>1. Len(A) + 1 = n /\ 1 \in 1 .. Len(B)
          BY <3>0, <4>4
        <5>2. (A \o B)[Len(A) + 1] = B[1]
          BY <4>3, <5>1
        <5>3. QED BY <4>4, <5>1, <5>2
      <4>7. QED BY <3>0, <4>3, <4>4, <4>5, <4>6
    <3> HIDE DEF U
    <3>2. /\ U \o Tail(C) \in Seq(AnyTask) /\ Len(U \o Tail(C)) = n + m - 1
          /\ \A k \in 1 .. n : (U \o Tail(C))[k] = U[k]
          /\ \A k \in 1 .. m - 1 : (U \o Tail(C))[n + k] = Tail(C)[k]
      <4> DEFINE D == Tail(C)
      <4>0. U \in Seq(AnyTask)
        BY <3>1
      <4>1. D \in Seq(AnyTask) /\ Len(D) = m - 1
        BY <2>8
      <4> HIDE DEF D
      <4>2. /\ U \o D \in Seq(AnyTask) /\ Len(U \o D) = Len(U) + Len(D)
            /\ \A k \in 1 .. Len(U) : (U \o D)[k] = U[k]
            /\ \A k \in 1 .. Len(D) : (U \o D)[Len(U) + k] = D[k]
        <5>1. U \o D \in Seq(AnyTask) /\ Len(U \o D) = Len(U) + Len(D)
          BY ONLY <4>0, <4>1
        <5>2. \A k \in 1 .. Len(U) : (U \o D)[k] = U[k]
          BY ONLY <4>0, <4>1
        <5>3. \A k \in 1 .. Len(D) : (U \o D)[Len(U) + k] = D[k]
          BY ONLY <4>0, <4>1
        <5>4. QED BY ONLY <5>1, <5>2, <5>3
      <4>3. Len(U \o D) = n + m - 1
        BY <3>0, <3>1, <4>1, <4>2
      <4>4. QED BY <3>1, <4>1, <4>2, <4>3 DEF D
    <3>3. R = U \o Tail(C)
      BY <2>6 DEF U
    <3>4. \A k \in 2 .. m : R[n - 1 + k] = C[k]
      <4> TAKE k \in 2 .. m
      <4>1. k - 1 \in 1 .. m - 1 /\ n + (k - 1) = n - 1 + k /\ k - 1 + 1 = k
        BY <1>1
      <4>2. QED BY <2>8, <3>2, <3>3, <4>1
    <3>5. \A k \in 1 .. n - 1 : k \in 1 .. n
      BY <1>1
    <3>6. QED BY <1>1, <2>1, <3>1, <3>2, <3>3, <3>4, <3>5
  <2> HIDE DEF R
  <2>10. DOMAIN R = 1 .. n + m - 1
    BY <1>1, <2>9
  <2>11. \A k \in 1 .. n : k \in 1 .. n + m - 1 /\ R[k].file = T[k].file /\ Inside(T[k]) \subseteq Inside(R[k])
                           /\ R[k].begin < R[k].end
    <3> TAKE k \in 1 .. n
    <3>1. k \in 1 .. n + m - 1
      BY <1>1
    <3>2. CASE k = n
      BY <2>4, <2>5, <2>9, <3>1, <3>2
    <3>3. CASE k # n
      <4>1. k \in 1 .. n - 1
        BY <1>0, <3>3
      <4>2. QED BY <1>1, <2>9, <3>1, <4>1
    <3>4. QED BY <3>2, <3>3
  <2>12. \A k \in 1 .. m : /\ n - 1 + k \in 1 .. n + m - 1 /\ R[n - 1 + k].file = C[k].file
                           /\ Inside(C[k]) \subseteq Inside(R[n - 1 + k]) /\ R[n - 1 + k].begin < R[n - 1 + k].end
    <3> TAKE k \in 1 .. m
    <3>1. n - 1 + k \in 1 .. n + m - 1
      BY <1>1, <2>1
    <3>2. CASE k = 1
      <4>1. n - 1 + k = n
        BY <1>1, <3>2
      <4>2. QED BY <2>2, <2>4, <2>5, <2>9, <3>1, <3>2, <4>1
    <3>3. CASE k # 1
      <4>1. k \in 2 .. m
        BY <1>1, <3>3
      <4>2. QED BY <1>1, <2>9, <3>1, <4>1
    <3>4. QED BY <3>2, <3>3
  <2>13. \A k \in 1 .. n + m - 1 : k \in 1 .. n - 1 \/ k = n \/ k - n + 1 \in 2 .. m
    BY <1>0
  <2>14. ASSUME NEW k \in 1 .. n + m - 1
         PROVE  /\ R[k].begin < R[k].end
                /\ \A e \in Inside(R[k]) : \/ k \in 1 .. n /\ e \in Inside(T[k])
                                           \/ k - n + 1 \in 1 .. m /\ e \in Inside(C[k - n + 1])
    <3>1. CASE k \in 1 .. n - 1
      <4>1. k \in 1 .. n
        BY <1>1, <3>1
      <4>2. QED BY <2>9, <2>11, <3>1, <4>1
    <3>2. CASE k = n
      <4>1. n \in 1 .. n /\ k - n + 1 = 1 /\ 1 \in 1 .. m
        BY <1>1, <2>1, <3>2
      <4>2. QED BY <2>5, <2>9, <3>2, <4>1
    <3>3. CASE k - n + 1 \in 2 .. m
      <4>1. n - 1 + (k - n + 1) = k /\ k - n + 1 \in 1 .. m
        BY <1>1, <3>3
      <4>2. R[k] = C[k - n + 1]
        BY <2>9, <3>3, <4>1
      <4>3. QED BY <1>1, <4>1, <4>2
    <3>4. QED BY <2>13, <3>1, <3>2, <3>3
  <2>15. Joins(R, T, C, 1)
    BY <1>1, <2>9, <2>10, <2>11, <2>12, <2>14 DEF Joins
  <2>16. QED BY <2>1, <2>15, JoinsFacts DEF R
<1>3. CASE ~ (T # <<>> /\ Adjacent(Last(T), Head(C)))
  <2>1. R = T \o C
    BY <1>3 DEF Coalesce
  <2>2. /\ R \in Seq(AnyTask) /\ Len(R) = n + m
        /\ \A k \in 1 .. n : R[k] = T[k]
        /\ \A k \in 1 .. m : R[n + k] = C[k]
    BY <1>1, <2>1
  <2> HIDE DEF R
  <2>3. DOMAIN R = 1 .. n + m
    BY <1>1, <2>2
  <2>4. \A k \in 1 .. n : k \in 1 .. n + m
    BY <1>1
  <2>5. \A k \in 1 .. m : n - 0 + k \in 1 .. n + m /\ R[n - 0 + k] = C[k]
    BY <1>1, <2>2
  <2>6. ASSUME NEW k \in 1 .. n + m
        PROVE  \/ k \in 1 .. n /\ R[k] = T[k]
               \/ k - n + 0 \in 1 .. m /\ R[k] = C[k - n + 0]
    <3>1. CASE k \in 1 .. n
      BY <2>2, <3>1
    <3>2. CASE k \notin 1 .. n
      <4>1. k - n + 0 \in 1 .. m /\ n - 0 + (k - n + 0) = k
        BY <1>1, <3>2
      <4>2. QED BY <2>5, <4>1
    <3>3. QED BY <3>1, <3>2
  <2>7. \A k \in 1 .. n + m : R[k].begin < R[k].end
    BY <1>1, <2>6
  <2>8. \A k \in DOMAIN R : \A e \in Inside(R[k]) :
          \/ k \in DOMAIN T /\ e \in Inside(T[k])
          \/ k - Len(T) + 0 \in DOMAIN C /\ e \in Inside(C[k - Len(T) + 0])
    BY <1>1, <2>3, <2>6
  <2>9. Len(R) = n + m - 0
    BY <1>1, <2>2
  <2>10. Joins(R, T, C, 0)
    BY <1>1, <2>2, <2>3, <2>4, <2>5, <2>7, <2>8, <2>9 DEF Joins
  <2>11. QED BY <2>10, JoinsFacts DEF R
<1>4. QED BY <1>2, <1>3

\* Group g of a plan holds task i.
InGroup(g, i) == g[1] <= i /\ i <= g[2]

\* BuildFileTaskGroups: every task is in one group.
LEMMA GroupFacts ==
    ASSUME NEW T, Disjoint(T)
    PROVE  /\ Len(FileTaskGroups(T)) \in Nat /\ DOMAIN FileTaskGroups(T) = 1 .. Len(FileTaskGroups(T))
           /\ \A k \in DOMAIN FileTaskGroups(T) :
                /\ FileTaskGroups(T)[k][1] \in 1 .. Len(T) /\ FileTaskGroups(T)[k][2] \in 1 .. Len(T)
                /\ FileTaskGroups(T)[k][1] <= FileTaskGroups(T)[k][2]
           /\ \A k, l \in DOMAIN FileTaskGroups(T) : \A i \in 1 .. Len(T) :
                 InGroup(FileTaskGroups(T)[k], i) /\ InGroup(FileTaskGroups(T)[l], i) => k = l
           /\ \A i \in 1 .. Len(T) : \E k \in DOMAIN FileTaskGroups(T) : InGroup(FileTaskGroups(T)[k], i)
<1> DEFINE n == Len(T)
           Firsts == {i \in DOMAIN T : i = 1 \/ T[i - 1].file # T[i].file}
           LastOf(i) == Max({j \in DOMAIN T : T[j].file = T[i].file})
           m == Cardinality(Firsts)
           G == FileTaskGroups(T)
<1>1. G = [k \in 1 .. m |-> <<Nth(Firsts, k), LastOf(Nth(Firsts, k))>>]
  BY DEF FileTaskGroups
<1>2. n \in Nat /\ DOMAIN T = 1 .. n
  BY DEF Disjoint
<1>3. \A i \in 1 .. n : T[i].file \in Nat
  <2>1. \A i \in 1 .. n : T[i] \in AnyTask
    BY <1>2 DEF Disjoint
  <2>2. QED BY <2>1 DEF AnyTask
<1>4. \A i, j \in 1 .. n : i <= j => T[i].file <= T[j].file
  BY <1>2 DEF Disjoint
<1>5. ASSUME NEW i \in 1 .. n
      PROVE  LastOf(i) \in 1 .. n /\ i <= LastOf(i) /\ T[LastOf(i)].file = T[i].file
             /\ \A j \in 1 .. n : T[j].file = T[i].file => j <= LastOf(i)
  <2> DEFINE S == {j \in DOMAIN T : T[j].file = T[i].file}
  <2>1. S \subseteq Nat /\ i \in S /\ (\A j \in S : j <= n) /\ S \subseteq 1 .. n
    BY <1>2
  <2>2. \A j \in S : T[j].file = T[i].file
    OBVIOUS
  <2>3. \A j \in 1 .. n : T[j].file = T[i].file => j \in S
    BY <1>2
  <2> HIDE DEF S
  <2>4. Max(S) \in S /\ \A j \in S : j <= Max(S)
    BY <1>2, <2>1, GreatestOf
  <2>5. QED BY <2>1, <2>2, <2>3, <2>4 DEF S
<1>6. Firsts \subseteq 1 .. n /\ \A i \in 1 .. n : i \in Firsts <=> i = 1 \/ T[i - 1].file # T[i].file
  BY <1>2
<1> HIDE DEF Firsts, LastOf, n
<1>7. Firsts \subseteq Nat /\ IsFiniteSet(Firsts)
  <2>1. IsFiniteSet(1 .. n)
    BY <1>2, FS_Interval
  <2>2. Firsts \in SUBSET (1 .. n) /\ Firsts \subseteq Nat
    BY <1>2, <1>6
  <2>3. IsFiniteSet(Firsts)
    BY <2>1, <2>2, FS_Subset
  <2>4. QED BY <2>2, <2>3
<1>8. /\ m \in Nat
      /\ \A i \in 1 .. m : Nth(Firsts, i) \in Firsts
      /\ \A i, j \in 1 .. m : Nth(Firsts, i) = Nth(Firsts, j) => i = j
      /\ \A x \in Firsts : \E i \in 1 .. m : x = Nth(Firsts, i)
  BY <1>7, NthFacts
<1> HIDE DEF m, G
<1>9. Len(G) = m /\ DOMAIN G = 1 .. m
  BY <1>1, <1>8
<1>10. \A k \in 1 .. m : G[k][1] = Nth(Firsts, k) /\ G[k][2] = LastOf(Nth(Firsts, k))
  BY <1>1
<1>11. \A k \in 1 .. m : G[k][1] \in Firsts /\ G[k][1] \in 1 .. n /\ G[k][2] \in 1 .. n /\ G[k][1] <= G[k][2]
                         /\ G[k][2] = LastOf(G[k][1])
  <2> SUFFICES ASSUME NEW k \in 1 .. m
               PROVE  G[k][1] \in Firsts /\ G[k][1] \in 1 .. n /\ G[k][2] \in 1 .. n /\ G[k][1] <= G[k][2]
                      /\ G[k][2] = LastOf(G[k][1])
    OBVIOUS
  <2>1. Nth(Firsts, k) \in Firsts
    BY <1>8
  <2>2. Nth(Firsts, k) \in 1 .. n
    BY <1>6, <2>1
  <2>3. LastOf(Nth(Firsts, k)) \in 1 .. n /\ Nth(Firsts, k) <= LastOf(Nth(Firsts, k))
    BY <1>5, <2>2
  <2>4. G[k][1] = Nth(Firsts, k) /\ G[k][2] = LastOf(Nth(Firsts, k))
    BY <1>10
  <2>5. QED BY ONLY <2>1, <2>2, <2>3, <2>4
<1>12. ASSUME NEW a \in Firsts, NEW i \in 1 .. n, a <= i, i <= LastOf(a) PROVE T[i].file = T[a].file
  <2>1. a \in 1 .. n /\ LastOf(a) \in 1 .. n /\ T[LastOf(a)].file = T[a].file
    BY <1>5, <1>6
  <2>2. T[a].file <= T[i].file /\ T[i].file <= T[LastOf(a)].file
    BY <1>4, <1>12, <2>1
  <2>3. T[a].file \in Nat /\ T[i].file \in Nat
    BY <1>3, <2>1
  <2>4. QED BY <2>1, <2>2, <2>3
<1>13. ASSUME NEW a \in Firsts, NEW c \in Firsts, T[a].file = T[c].file PROVE ~ (a < c)
  <2> SUFFICES ASSUME a < c PROVE FALSE
    OBVIOUS
  <2>1. a \in 1 .. n /\ c \in 1 .. n
    BY <1>6
  <2>2. c - 1 \in 1 .. n /\ a <= c - 1 /\ c - 1 <= c /\ c # 1
    BY <1>2, <2>1
  <2>3. T[a].file <= T[c - 1].file /\ T[c - 1].file <= T[c].file
    BY <1>4, <2>1, <2>2
  <2>4. T[a].file \in Nat /\ T[c - 1].file \in Nat
    BY <1>3, <2>1, <2>2
  <2>5. T[c - 1].file = T[c].file
    BY <1>13, <2>3, <2>4
  <2>6. QED BY <1>6, <2>1, <2>2, <2>5
<1>14. ASSUME NEW k \in 1 .. m, NEW l \in 1 .. m, NEW i \in 1 .. n, InGroup(G[k], i), InGroup(G[l], i)
       PROVE  k = l
  <2>1. T[i].file = T[G[k][1]].file /\ T[i].file = T[G[l][1]].file
    BY <1>11, <1>12, <1>14 DEF InGroup
  <2>2. ~ (G[k][1] < G[l][1]) /\ ~ (G[l][1] < G[k][1])
    BY <1>11, <1>13, <2>1
  <2>3. G[k][1] = G[l][1]
    BY <1>2, <1>11, <2>2
  <2>4. QED BY <1>8, <1>10, <2>3
<1>15. ASSUME NEW i \in 1 .. n PROVE \E k \in 1 .. m : InGroup(G[k], i)
  <2> DEFINE S == {j \in 1 .. n : T[j].file = T[i].file}
  <2>1. S \subseteq Nat /\ i \in S /\ (\A j \in S : j \in 1 .. n /\ T[j].file = T[i].file)
    BY <1>2
  <2>2. \A j \in 1 .. n : j \notin S => T[j].file # T[i].file
    OBVIOUS
  <2> HIDE DEF S
  <2>3. PICK a \in S : \A j \in S : a <= j
    BY <2>1, LeastNumber
  <2>4. a \in 1 .. n /\ a <= i /\ T[a].file = T[i].file
    BY <2>1, <2>3
  <2>5. a # 1 => a - 1 \in 1 .. n
    BY <1>2, <2>4
  <2>6. a # 1 => a - 1 \notin S
    BY <1>2, <2>3, <2>4
  <2>7. a \in Firsts
    BY <1>6, <2>2, <2>4, <2>5, <2>6
  <2>8. i <= LastOf(a)
    BY <1>5, <2>4
  <2>9. PICK k \in 1 .. m : a = Nth(Firsts, k)
    BY <1>8, <2>7
  <2>10. QED BY <1>10, <2>4, <2>8, <2>9 DEF InGroup
<1>16. QED BY <1>8, <1>9, <1>11, <1>14, <1>15 DEF n, G

-----------------------------------------------------------------------------
(***************************************************************************)
(* The plan while it grows, basket by basket.                              *)
(***************************************************************************)

BasketOf(s) == q.files[s[1]].baskets[s[2]]

\* The order of the basket query: root_uri, then offset.
Before(s, t) == s[1] < t[1] \/ (s[1] = t[1] /\ s[2] <= t[2])

\* What the selection and the predicates leave of a basket, and whether the
\* basket is read at all.
ClipOf(s) == ClipSet(s[1], BasketOf(s))
KeptOf(s) == Kept(s[1], BasketOf(s))

PlannedRows(T) == {r \in AllRows : Covered(T, r.file, r.entry)}

\* The plan T of the baskets F with n values: F is a beginning of the baskets in
\* their order, T holds what their files have to offer and nothing else.
IsPlan(T, F, n) ==
    /\ n \in Nat
    /\ F \subseteq Selected
    /\ \A s \in F : \A t \in Selected : Before(t, s) => t \in F
    /\ Disjoint(T)
    /\ \A f, e : Covered(T, f, e) => \E s \in F : s[1] = f /\ e \in ClipOf(s)
    /\ \A s \in F : KeptOf(s) => \A e \in ClipOf(s) : Covered(T, s[1], e)
    /\ CanStop => n <= Cardinality(PlannedRows(T))

PlanInv == q \in Queries /\ IsPlan(tasks, fetched, planned)

\* The query does not change.
LEMMA PlanSame ==
    ASSUME q' = q
    PROVE  /\ Selected' = Selected /\ AllRows' = AllRows /\ CanStop' = CanStop
           /\ \A s : ClipOf(s)' = ClipOf(s)
           /\ \A s : KeptOf(s)' = KeptOf(s)
<1>1. Selected' = Selected
  BY DEF Selected
<1>2. AllRows' = AllRows
  BY DEF AllRows, RowsOf, Entries
<1>3. CanStop' = CanStop
  BY DEF CanStop, IntervalFilterActive, Limited
<1>4. \A s : ClipOf(s)' = ClipOf(s)
  BY DEF ClipOf, BasketOf, ClipSet, CandidateEntries, IntervalFilterActive, Inside, Entries, PredicateEntries
<1>5. \A s : KeptOf(s)' = KeptOf(s)
  BY DEF KeptOf, BasketOf, Kept, KeptByValue, KeptByRange, KeptByEvent, KeptBySource, KeptByBloom, EntryRange
<1>6. QED BY <1>1, <1>2, <1>3, <1>4, <1>5

LEMMA PlanInvSame ==
    ASSUME q \in Queries, q' = q, IsPlan(tasks', fetched', planned')
    PROVE  PlanInv'
<1>1. /\ planned' \in Nat /\ fetched' \subseteq Selected /\ Disjoint(tasks')
      /\ \A s \in fetched' : \A t \in Selected : Before(t, s) => t \in fetched'
      /\ \A f, e : Covered(tasks', f, e) => \E s \in fetched' : s[1] = f /\ e \in ClipOf(s)
      /\ \A s \in fetched' : KeptOf(s) => \A e \in ClipOf(s) : Covered(tasks', s[1], e)
      /\ CanStop => planned' <= Cardinality(PlannedRows(tasks'))
  BY DEF IsPlan
<1>2. Disjoint(tasks)' = Disjoint(tasks')
  BY DEF Disjoint, Inside
<1>3. \A f, e : Covered(tasks, f, e)' <=> Covered(tasks', f, e)
  BY DEF Covered, Holding, Inside
<1>4. PlannedRows(tasks)' = PlannedRows(tasks')
  BY PlanSame DEF PlannedRows, Covered, Holding, Inside
<1>5. IsPlan(tasks, fetched, planned)'
  BY <1>1, <1>2, <1>3, <1>4, PlanSame DEF IsPlan, Before
<1>6. QED BY <1>5 DEF PlanInv

LEMMA PlanInvUnchanged ==
    ASSUME PlanInv, UNCHANGED <<q, fetched, planned, tasks>>
    PROVE  PlanInv'
<1>1. q \in Queries /\ q' = q /\ IsPlan(tasks', fetched', planned')
  BY DEF PlanInv
<1>2. QED BY <1>1, PlanInvSame

\* A basket of the query: of a file, with entries of that file that no other of
\* its baskets has.
LEMMA SelectedFacts ==
    ASSUME q \in Queries, NEW s \in Selected
    PROVE  /\ s[1] \in DOMAIN q.files /\ s[2] \in DOMAIN q.files[s[1]].baskets /\ s = <<s[1], s[2]>>
           /\ s[1] \in Nat /\ s[2] \in Nat
           /\ BasketOf(s).begin \in Nat /\ BasketOf(s).end \in Nat
           /\ BasketOf(s).offset \in Nat /\ BasketOf(s).size \in Nat
           /\ ClipOf(s) \subseteq Inside(BasketOf(s)) /\ Inside(BasketOf(s)) \subseteq Entries(s[1])
           /\ \A t \in Selected : t[1] = s[1] /\ t # s => Inside(BasketOf(t)) \cap Inside(BasketOf(s)) = {}
<1>1. ASSUME NEW t \in Selected
      PROVE  t[1] \in DOMAIN q.files /\ t[2] \in DOMAIN q.files[t[1]].baskets /\ t = <<t[1], t[2]>>
  BY DEF Selected
<1> DEFINE f == s[1]
           F == q.files[f]
<1>2. /\ f \in DOMAIN q.files /\ s[2] \in DOMAIN F.baskets /\ f \in Nat
  BY <1>1, QueryFacts
<1>3. /\ F.baskets \in Seq(BasketSet) /\ Describes(F.baskets, F.target) /\ Len(F.target) \in Nat
  BY <1>2, FileFacts
<1>4. F.target \in Seq(Seq(Value))
  BY <1>2, QueryFacts DEF FileSet
<1>5. s[2] \in Nat
  BY <1>2, <1>3
<1>6. /\ BasketOf(s).begin \in Nat /\ BasketOf(s).end \in Nat /\ BasketOf(s).end <= Len(F.target)
      /\ BasketOf(s).offset \in Nat /\ BasketOf(s).size \in Nat
  <2> HIDE DEF F
  <2>1. F.baskets[s[2]].begin \in Nat /\ F.baskets[s[2]].end \in Nat /\ F.baskets[s[2]].end <= Len(F.target)
        /\ F.baskets[s[2]].offset \in Nat /\ F.baskets[s[2]].size \in Nat
    BY <1>2, <1>3, <1>4, BasketFacts
  <2>2. QED BY <2>1 DEF BasketOf, F
<1>7. ClipOf(s) \subseteq Inside(BasketOf(s))
  BY DEF ClipOf, ClipSet
<1>8. Inside(BasketOf(s)) \subseteq Entries(s[1])
  <2> DEFINE b == BasketOf(s)
             N == Len(F.target)
  <2>1. b.begin \in Nat /\ b.end \in Nat /\ b.end <= N /\ N \in Nat
    BY <1>3, <1>6
  <2>2. Entries(s[1]) = 0 .. N - 1 /\ Inside(b) = b.begin .. b.end - 1
    BY DEF Entries, Inside
  <2> HIDE DEF b, N
  <2>3. b.begin .. b.end - 1 \subseteq 0 .. N - 1
    BY <2>1
  <2>4. QED BY <2>2, <2>3 DEF b
<1>9. ASSUME NEW t \in Selected, t[1] = s[1], t # s
      PROVE  Inside(BasketOf(t)) \cap Inside(BasketOf(s)) = {}
  <2>1. t[2] # s[2] /\ t[2] \in DOMAIN F.baskets
    BY <1>1, <1>9
  <2>2. Inside(F.baskets[t[2]]) \cap Inside(F.baskets[s[2]]) = {}
    BY <1>2, <1>3, <2>1 DEF Describes
  <2>3. QED BY <1>9, <2>2 DEF BasketOf
<1>10. QED BY <1>1, <1>2, <1>5, <1>6, <1>7, <1>8, <1>9

\* The query delivers the baskets in order.
LEMMA FirstBasket ==
    ASSUME q \in Queries, NEW D, D \subseteq Selected, D # {}
    PROVE  \E x \in D : \A t \in D : Before(x, t)
<1>1. \A s \in D : s[1] \in Nat /\ s[2] \in Nat
  BY SelectedFacts
<1> DEFINE A == {s[1] : s \in D}
<1>2. A \subseteq Nat /\ A # {}
  BY <1>1
<1>3. \A s \in D : s[1] \in A
  OBVIOUS
<1>4. \A a \in A : \E s \in D : a = s[1]
  OBVIOUS
<1> HIDE DEF A
<1>5. PICK a \in A : \A c \in A : a <= c
  BY <1>2, LeastNumber
<1> DEFINE B == {s[2] : s \in {t \in D : t[1] = a}}
<1>6. B \subseteq Nat /\ B # {}
  BY <1>1, <1>4, <1>5
<1>7. \A s \in D : s[1] = a => s[2] \in B
  OBVIOUS
<1>8. \A b \in B : \E s \in D : s[1] = a /\ b = s[2]
  OBVIOUS
<1> HIDE DEF B
<1>9. PICK b \in B : \A c \in B : b <= c
  BY <1>6, LeastNumber
<1>10. PICK x \in D : x[1] = a /\ b = x[2]
  BY <1>8, <1>9
<1>11. ASSUME NEW t \in D PROVE Before(x, t)
  <2>1. a <= t[1] /\ a \in Nat /\ t[1] \in Nat
    BY <1>1, <1>2, <1>3, <1>5
  <2>2. t[1] = a => b <= t[2]
    BY <1>7, <1>9
  <2>3. a < t[1] \/ a = t[1]
    BY <2>1
  <2>4. QED BY <1>10, <2>2, <2>3 DEF Before
<1>12. QED BY <1>10, <1>11

LEMMA BeforeFacts ==
    ASSUME q \in Queries, NEW s \in Selected, NEW t \in Selected
    PROVE  /\ Before(s, t) \/ Before(t, s)
           /\ Before(s, t) /\ Before(t, s) => s = t
           /\ Before(s, t) => s[1] <= t[1]
           /\ \A u \in Selected : Before(u, s) /\ Before(s, t) => Before(u, t)
<1>1. \A u \in Selected : u[1] \in Nat /\ u[2] \in Nat /\ u = <<u[1], u[2]>>
  BY SelectedFacts
<1>2. s[1] = t[1] /\ s[2] = t[2] => s = t
  BY <1>1
<1>3. \A u \in Selected : u[1] \in Int /\ u[2] \in Int
  BY <1>1
<1>4. QED BY <1>2, <1>3 DEF Before

-----------------------------------------------------------------------------
(***************************************************************************)
(* There are finitely many rows, and a basket has a row for each value.    *)
(***************************************************************************)

LEMMA ImageFacts ==
    ASSUME NEW S, IsFiniteSet(S), NEW h
    PROVE  IsFiniteSet({h[x] : x \in S}) /\ Cardinality({h[x] : x \in S}) <= Cardinality(S)
<1> DEFINE T == {h[x] : x \in S}
           g == [x \in S |-> h[x]]
<1>1. g \in [S -> T] /\ \A t \in T : \E x \in S : g[x] = t
  OBVIOUS
<1>2. g \in Surjection(S, T)
  BY <1>1 DEF Surjection
<1> HIDE DEF g, T
<1>3. IsFiniteSet(T) /\ Cardinality(T) <= Cardinality(S)
  BY <1>2, FS_Surjection
<1>4. QED BY <1>3 DEF T

LEMMA RowsFinite ==
    ASSUME q \in Queries
    PROVE  IsFiniteSet(AllRows) /\ Cardinality(AllRows) \in Nat
<1>1. ASSUME NEW f \in DOMAIN q.files, NEW e \in Entries(f) PROVE IsFiniteSet(RowsOf(f, e))
  <2> DEFINE v == q.files[f].target[e + 1]
             h == [i \in DOMAIN v |-> [file |-> f, entry |-> e, idx |-> i, value |-> v[i]]]
  <2>1. v \in Seq(Value)
    BY FileFacts
  <2>2. DOMAIN v = 1 .. Len(v) /\ Len(v) \in Int
    BY <2>1
  <2>3. IsFiniteSet(DOMAIN v)
    BY <2>2, FS_Interval
  <2>4. RowsOf(f, e) = {h[i] : i \in DOMAIN v}
    BY DEF RowsOf
  <2> HIDE DEF h, v
  <2>5. QED BY <2>3, <2>4, ImageFacts
<1>2. ASSUME NEW f \in DOMAIN q.files PROVE IsFiniteSet(UNION {RowsOf(f, e) : e \in Entries(f)})
  <2> DEFINE h == [e \in Entries(f) |-> RowsOf(f, e)]
             S == {h[e] : e \in Entries(f)}
  <2>1. Entries(f) = 0 .. Len(q.files[f].target) - 1 /\ Len(q.files[f].target) - 1 \in Int
    BY FileFacts DEF Entries
  <2>2. IsFiniteSet(Entries(f))
    BY <2>1, FS_Interval
  <2>3. S = {RowsOf(f, e) : e \in Entries(f)}
    OBVIOUS
  <2>4. \A T \in S : IsFiniteSet(T)
    BY <1>1
  <2> HIDE DEF h
  <2>5. IsFiniteSet(S)
    BY <2>2, ImageFacts
  <2> HIDE DEF S
  <2>6. IsFiniteSet(UNION S)
    BY <2>4, <2>5, FS_UNION
  <2>7. QED BY <2>3, <2>6
<1>3. IsFiniteSet(AllRows)
  <2> DEFINE D == DOMAIN q.files
             h == [f \in D |-> UNION {RowsOf(f, e) : e \in Entries(f)}]
             S == {h[f] : f \in D}
  <2>1. q.files \in Seq(FileSet)
    BY QueryFacts DEF QuerySet
  <2>2. D = 1 .. Len(q.files) /\ Len(q.files) \in Int
    BY <2>1
  <2>3. IsFiniteSet(D)
    BY <2>2, FS_Interval
  <2>4. S = {UNION {RowsOf(f, e) : e \in Entries(f)} : f \in D}
    OBVIOUS
  <2>5. \A T \in S : IsFiniteSet(T)
    BY <1>2
  <2>6. AllRows = UNION S
    BY <2>4 DEF AllRows
  <2> HIDE DEF h, D
  <2>7. IsFiniteSet(S)
    BY <2>3, ImageFacts
  <2> HIDE DEF S
  <2>8. QED BY <2>5, <2>6, <2>7, FS_UNION
<1>4. QED BY <1>3, FS_CardinalityType

RowsIn(s) == {r \in AllRows : r.file = s[1] /\ r.entry \in Inside(BasketOf(s))}

\* The value_count of a basket.
LEMMA ContentFacts ==
    ASSUME q \in Queries, NEW s \in Selected
    PROVE  /\ IsFiniteSet(RowsIn(s)) /\ Cardinality(RowsIn(s)) \in Nat
           /\ Cardinality(Content(q.files[s[1]].target, BasketOf(s))) \in Nat
           /\ Cardinality(Content(q.files[s[1]].target, BasketOf(s))) <= Cardinality(RowsIn(s))
<1> DEFINE f == s[1]
           S == q.files[f].target
           b == BasketOf(s)
           C == Content(S, b)
           g == [r \in RowsIn(s) |-> [entry |-> r.entry, idx |-> r.idx, value |-> r.value]]
           h == [r \in RowsIn(s) |-> g[r]]
<1>1. f \in DOMAIN q.files /\ Inside(b) \subseteq Entries(f)
  BY SelectedFacts
<1>2. IsFiniteSet(RowsIn(s)) /\ Cardinality(RowsIn(s)) \in Nat
  <2>1. RowsIn(s) \in SUBSET AllRows
    BY DEF RowsIn
  <2>2. IsFiniteSet(RowsIn(s))
    BY <2>1, RowsFinite, FS_Subset
  <2>3. QED BY <2>2, FS_CardinalityType
<1>3. ASSUME NEW e \in Inside(b), NEW v \in ToSet(Flat(S, e))
      PROVE  \E r \in RowsIn(s) : g[r] = [entry |-> e, idx |-> v.idx, value |-> v.value]
  <2>1. PICK k \in DOMAIN Flat(S, e) : v = Flat(S, e)[k]
    BY DEF ToSet
  <2>2. k \in DOMAIN S[e + 1] /\ v = [idx |-> k, value |-> S[e + 1][k]]
    BY <2>1 DEF Flat
  <2> DEFINE r == [file |-> f, entry |-> e, idx |-> k, value |-> S[e + 1][k]]
  <2>3. r \in RowsOf(f, e) /\ e \in Entries(f)
    BY <1>1, <2>2 DEF RowsOf
  <2>4. r \in UNION {RowsOf(f, d) : d \in Entries(f)}
    BY <2>3
  <2>5. r \in AllRows
    BY <1>1, <2>4 DEF AllRows
  <2>6. r \in RowsIn(s)
    BY <2>5 DEF RowsIn
  <2>7. QED BY <2>2, <2>6
<1>4. C \subseteq {g[r] : r \in RowsIn(s)}
  <2> SUFFICES ASSUME NEW x \in C PROVE x \in {g[r] : r \in RowsIn(s)}
    OBVIOUS
  <2>1. PICK e \in Inside(b) : x \in {[entry |-> e, idx |-> v.idx, value |-> v.value] : v \in ToSet(Flat(S, e))}
    BY DEF Content
  <2>2. PICK v \in ToSet(Flat(S, e)) : x = [entry |-> e, idx |-> v.idx, value |-> v.value]
    BY <2>1
  <2>3. PICK r \in RowsIn(s) : g[r] = x
    BY <1>3, <2>2
  <2> HIDE DEF g
  <2>4. QED BY <2>3
<1> HIDE DEF g, C
<1> DEFINE I == {g[r] : r \in RowsIn(s)}
<1>5. IsFiniteSet(I) /\ Cardinality(I) <= Cardinality(RowsIn(s))
  BY <1>2, ImageFacts
<1> HIDE DEF I
<1>6. C \in SUBSET I
  BY <1>4 DEF I
<1>7. IsFiniteSet(C) /\ Cardinality(C) <= Cardinality(I)
  BY <1>5, <1>6, FS_Subset
<1>8. Cardinality(C) \in Nat /\ Cardinality(I) \in Nat
  BY <1>5, <1>7, FS_CardinalityType
<1>9. QED BY <1>2, <1>5, <1>7, <1>8 DEF C

\* The next basket continues the plan: of its tasks none holds an entry the plan
\* has, and its file is not before the last.
LEMMA PlanGrows ==
    ASSUME q \in Queries, NEW T, NEW F, NEW n, IsPlan(T, F, n),
           NEW x \in Selected \ F, \A t \in Selected \ F : Before(x, t),
           NEW C, C = IF KeptOf(x) THEN Clip(x[1], BasketOf(x)) ELSE <<>>
    PROVE  /\ C = <<>> => IsPlan(T, F \cup {x}, n)
           /\ C # <<>> => IsPlan(Coalesce(T, C), F \cup {x},
                                 n + Cardinality(Content(q.files[x[1]].target, BasketOf(x))))
<1> DEFINE G == F \cup {x}
           f == x[1]
           b == BasketOf(x)
           k == Cardinality(Content(q.files[x[1]].target, BasketOf(x)))
<1>1. /\ n \in Nat /\ F \subseteq Selected /\ Disjoint(T)
      /\ \A s \in F : \A t \in Selected : Before(t, s) => t \in F
      /\ \A g, e : Covered(T, g, e) => \E s \in F : s[1] = g /\ e \in ClipOf(s)
      /\ \A s \in F : KeptOf(s) => \A e \in ClipOf(s) : Covered(T, s[1], e)
      /\ CanStop => n <= Cardinality(PlannedRows(T))
  BY DEF IsPlan
<1>2. x \in Selected /\ x \notin F /\ f \in Nat
  BY SelectedFacts
<1>3. G \subseteq Selected
  BY <1>1, <1>2
<1>4. \A s \in G : \A t \in Selected : Before(t, s) => t \in G
  <2> SUFFICES ASSUME NEW t \in Selected, Before(t, x), t \notin F PROVE t = x
    BY <1>1
  <2>1. Before(x, t)
    OBVIOUS
  <2>2. QED BY <1>2, <2>1, BeforeFacts
<1>5. ASSUME NEW s \in F PROVE s[1] <= f /\ s # x
  <2>1. ~ Before(x, s)
    BY <1>1, <1>2
  <2>2. QED BY <1>1, <1>2, <2>1, BeforeFacts
<1>6. KeptOf(x) => /\ Disjoint(C) /\ (\A i \in DOMAIN C : C[i].file = f)
                   /\ \A g, e : Covered(C, g, e) <=> g = f /\ e \in ClipOf(x)
  <2>1. /\ b.begin \in Nat /\ b.end \in Nat /\ b.offset \in Nat /\ b.size \in Nat
    BY <1>2, SelectedFacts
  <2>2. KeptOf(x) => C = Clip(f, b)
    OBVIOUS
  <2>3. ClipOf(x) = ClipSet(f, b)
    BY DEF ClipOf
  <2> HIDE DEF f, b
  <2>4. QED BY <1>2, <2>1, <2>2, <2>3, ClipFacts
<1> HIDE DEF f
<1>7. ASSUME C = <<>> PROVE IsPlan(T, G, n)
  <2>1. ASSUME KeptOf(x), NEW e \in ClipOf(x) PROVE FALSE
    <3>1. Covered(C, f, e)
      BY <1>6, <2>1
    <3>2. QED BY <1>7, <3>1 DEF Covered
  <2>2. \A s \in G : KeptOf(s) => \A e \in ClipOf(s) : Covered(T, s[1], e)
    BY <1>1, <2>1
  <2>3. \A g, e : Covered(T, g, e) => \E s \in G : s[1] = g /\ e \in ClipOf(s)
    BY <1>1
  <2>4. QED BY <1>1, <1>3, <1>4, <2>2, <2>3 DEF IsPlan
<1>8. ASSUME C # <<>> PROVE IsPlan(Coalesce(T, C), G, n + k)
  <2> DEFINE R == Coalesce(T, C)
  <2>1. KeptOf(x)
    BY <1>8
  <2>2. \A i \in DOMAIN T : T[i].file <= f
    <3> SUFFICES ASSUME NEW i \in DOMAIN T PROVE T[i].file <= f
      OBVIOUS
    <3>1. T[i] \in AnyTask /\ T[i].begin < T[i].end
      BY <1>1 DEF Disjoint
    <3>2. T[i].begin \in Inside(T[i])
      BY <3>1 DEF AnyTask, Inside
    <3>3. Covered(T, T[i].file, T[i].begin)
      BY <3>2 DEF Covered, Holding
    <3>4. PICK s \in F : s[1] = T[i].file
      BY <1>1, <3>3
    <3>5. QED BY <1>5, <3>4
  <2>3. \A e : Covered(C, f, e) => ~Covered(T, f, e)
    <3> SUFFICES ASSUME NEW e, Covered(C, f, e), Covered(T, f, e) PROVE FALSE
      OBVIOUS
    <3>1. e \in ClipOf(x)
      BY <1>6, <2>1
    <3>2. PICK s \in F : s[1] = f /\ e \in ClipOf(s)
      BY <1>1
    <3>3. s \in Selected /\ s # x /\ s[1] = x[1]
      BY <1>1, <1>5, <3>2 DEF f
    <3>4. Inside(BasketOf(s)) \cap Inside(BasketOf(x)) = {}
      BY <1>2, <3>3, SelectedFacts
    <3>5. e \in Inside(BasketOf(s)) /\ e \in Inside(BasketOf(x))
      BY <1>2, <3>1, <3>2, <3>3, SelectedFacts
    <3>6. QED BY <3>4, <3>5
  <2>4. /\ Disjoint(R)
        /\ \A g, e : Covered(R, g, e) <=> Covered(T, g, e) \/ Covered(C, g, e)
    BY <1>1, <1>2, <1>6, <1>8, <2>1, <2>2, <2>3, CoalesceFacts
  <2> HIDE DEF R
  <2>5. \A g, e : Covered(R, g, e) => \E s \in G : s[1] = g /\ e \in ClipOf(s)
    BY <1>1, <1>6, <2>1, <2>4 DEF f
  <2>6. \A s \in G : KeptOf(s) => \A e \in ClipOf(s) : Covered(R, s[1], e)
    BY <1>1, <1>6, <2>1, <2>4 DEF f
  <2>7. n + k \in Nat /\ k \in Nat
    BY <1>1, <1>2, ContentFacts
  <2>8. ASSUME CanStop PROVE n + k <= Cardinality(PlannedRows(R))
    <3> DEFINE P == PlannedRows(T)
               B == RowsIn(x)
               Q == PlannedRows(R)
    <3>1. Inside(BasketOf(x)) = ClipOf(x)
      BY <2>8 DEF CanStop, ClipOf, ClipSet
    <3>2. Q = P \cup B
      <4>1. \A r \in AllRows : Covered(R, r.file, r.entry) <=> Covered(T, r.file, r.entry) \/ (r.file = f /\ r.entry \in ClipOf(x))
        BY <1>6, <2>1, <2>4
      <4>2. QED BY <3>1, <4>1 DEF PlannedRows, RowsIn, f
    <3>3. P \cap B = {}
      <4> SUFFICES ASSUME NEW r \in P, r \in B PROVE FALSE
        OBVIOUS
      <4>1. Covered(T, r.file, r.entry) /\ r.file = f /\ r.entry \in ClipOf(x)
        BY <3>1 DEF PlannedRows, RowsIn, f
      <4>2. Covered(C, f, r.entry)
        BY <1>6, <2>1, <4>1
      <4>3. QED BY <2>3, <4>1, <4>2
    <3>4. IsFiniteSet(P) /\ IsFiniteSet(B)
      <4>1. P \in SUBSET AllRows
        BY DEF PlannedRows
      <4>2. IsFiniteSet(P)
        BY <4>1, RowsFinite, FS_Subset
      <4>3. QED BY <1>2, <4>2, ContentFacts
    <3>5. n <= Cardinality(P) /\ k <= Cardinality(B) /\ Cardinality(B) \in Nat
      BY <1>1, <1>2, <2>8, ContentFacts
    <3> HIDE DEF P, B, Q
    <3>6. Cardinality(P \cup B) = Cardinality(P) + Cardinality(B) - Cardinality(P \cap B)
      BY <3>4, FS_Union
    <3>7. Cardinality(P \cap B) = 0 /\ Cardinality(P) \in Nat
      BY <3>3, <3>4, FS_EmptySet, FS_CardinalityType
    <3> HIDE DEF k
    <3>8. QED BY <1>1, <2>7, <3>2, <3>5, <3>6, <3>7 DEF Q
  <2>9. QED BY <1>3, <1>4, <2>4, <2>5, <2>6, <2>7, <2>8 DEF IsPlan, R
<1>9. QED BY <1>7, <1>8 DEF G

\* PlanBasket: one basket of the query.
LEMMA PlanBasketStep ==
    ASSUME PlanInv, PlanBasket
    PROVE  PlanInv'
<1> DEFINE x == CHOOSE s \in Selected \ fetched : \A t \in Selected \ fetched :
                   s[1] < t[1] \/ (s[1] = t[1] /\ s[2] <= t[2])
           b == q.files[x[1]].baskets[x[2]]
           C == IF Kept(x[1], b) THEN Clip(x[1], b) ELSE <<>>
           k == Cardinality(Content(q.files[x[1]].target, b))
<1>1. /\ q \in Queries /\ IsPlan(tasks, fetched, planned) /\ q' = q /\ ~PlanIsComplete
      /\ fetched' = fetched \cup {x}
      /\ C = <<>> => tasks' = tasks /\ planned' = planned
      /\ C # <<>> => tasks' = Coalesce(tasks, C) /\ planned' = planned + k
  BY DEF PlanInv, PlanBasket
<1>2. x \in Selected \ fetched /\ \A t \in Selected \ fetched : Before(x, t)
  <2>1. Selected \ fetched # {}
    BY <1>1 DEF PlanIsComplete, IsPlan
  <2>2. \E y \in Selected \ fetched : \A t \in Selected \ fetched : Before(y, t)
    <3> DEFINE D == Selected \ fetched
    <3>1. D \subseteq Selected /\ D # {}
      BY <2>1
    <3> HIDE DEF D
    <3>2. \E y \in D : \A t \in D : Before(y, t)
      BY <1>1, <3>1, FirstBasket
    <3>3. QED BY <3>2 DEF D
  <2>3. QED BY <2>2 DEF Before
<1> HIDE DEF x
<1>3. b = BasketOf(x) /\ C = IF KeptOf(x) THEN Clip(x[1], BasketOf(x)) ELSE <<>>
  BY DEF BasketOf, KeptOf
<1> HIDE DEF b, C
<1>4. IsPlan(tasks', fetched', planned')
  <2>1. /\ C = <<>> => IsPlan(tasks, fetched \cup {x}, planned)
        /\ C # <<>> => IsPlan(Coalesce(tasks, C), fetched \cup {x},
                              planned + Cardinality(Content(q.files[x[1]].target, BasketOf(x))))
    BY <1>1, <1>2, <1>3, PlanGrows
  <2>2. QED BY <1>1, <1>3, <2>1
<1>5. QED BY <1>1, <1>4, PlanInvSame

\* A plan of nothing.
LEMMA PlanStarts ==
    ASSUME q \in Queries, tasks = <<>>, fetched = {}, planned = 0
    PROVE  PlanInv
<1>1. Disjoint(<<>>)
  BY DEF Disjoint
<1>2. \A f, e : ~Covered(<<>>, f, e)
  BY DEF Covered
<1>3. IsFiniteSet(PlannedRows(<<>>))
  <2>1. PlannedRows(<<>>) \in SUBSET AllRows
    BY DEF PlannedRows
  <2>2. QED BY <2>1, RowsFinite, FS_Subset
<1>4. 0 <= Cardinality(PlannedRows(<<>>))
  BY <1>3, FS_CardinalityType
<1>5. IsPlan(<<>>, {}, 0)
  BY <1>1, <1>2, <1>4 DEF IsPlan
<1>6. QED BY <1>5 DEF PlanInv

-----------------------------------------------------------------------------
(***************************************************************************)
(* What a plan is to the threads.                                          *)
(***************************************************************************)

\* A task clipped to a range may end before it begins.
LooseTask == [file: Nat, begin: Nat, end: Int, offset: Nat, size: Nat]

LEMMA ClipRangeFacts ==
    ASSUME NEW r \in RangeSet, NEW t \in LooseTask, NEW base \in Nat
    PROVE  /\ ClipRange(r, t, base) \in LooseTask
           /\ ClipRange(r, t, base).file = t.file
           /\ t.begin <= ClipRange(r, t, base).begin /\ ClipRange(r, t, base).end <= t.end
           /\ \A e \in Inside(t) : r.lower <= base + e /\ base + e <= r.upper => e \in Inside(ClipRange(r, t, base))
<1> DEFINE lo == r.lower - base
           hi == r.upper + 1 - base
           B == Max({t.begin, lo})
           E == IF r.upper = MaxWord THEN t.end ELSE Min({t.end, hi})
           c == ClipRange(r, t, base)
<1>1. r.lower \in Nat /\ r.upper \in Nat
  BY DEF RangeSet
<1>2. t.file \in Nat /\ t.begin \in Nat /\ t.end \in Int /\ t.offset \in Nat /\ t.size \in Nat
  BY DEF LooseTask
<1>3. lo \in Int /\ hi \in Int
  BY <1>1
<1>4. B = IF t.begin >= lo THEN t.begin ELSE lo
  <2> HIDE DEF lo
  <2>1. QED BY <1>2, <1>3, MaxOfTwo
<1>5. Min({t.end, hi}) = IF t.end <= hi THEN t.end ELSE hi
  <2> HIDE DEF hi
  <2>1. QED BY <1>2, <1>3, MinOfTwo
<1>6. c = [t EXCEPT !.begin = B, !.end = E]
  BY DEF ClipRange
<1> HIDE DEF B, E, c
<1>7. c = [file |-> t.file, begin |-> B, end |-> E, offset |-> t.offset, size |-> t.size]
  BY <1>6 DEF LooseTask
<1>8. B \in Nat /\ t.begin <= B
  BY <1>2, <1>3, <1>4
<1>9. E \in Int /\ E <= t.end
  BY <1>2, <1>3, <1>5 DEF E
<1>10. ASSUME NEW e \in Inside(t), r.lower <= base + e, base + e <= r.upper PROVE e \in B .. E - 1
  <2>1. e \in Int /\ t.begin <= e /\ e <= t.end - 1
    BY <1>2 DEF Inside
  <2>2. lo <= e /\ e <= hi - 1
    BY <1>1, <1>10, <2>1
  <2> HIDE DEF lo, hi
  <2>3. B <= e /\ e <= E - 1
    BY <1>2, <1>3, <1>4, <1>5, <2>1, <2>2 DEF E
  <2>4. QED BY <1>8, <1>9, <2>1, <2>3
<1>11. c \in LooseTask /\ c.file = t.file /\ c.begin = B /\ c.end = E
  BY <1>2, <1>7, <1>8, <1>9 DEF LooseTask
<1>12. QED BY <1>8, <1>9, <1>10, <1>11 DEF c, Inside

LEMMA RangesTyped ==
    ASSUME q \in Queries
    PROVE  EntryRange \subseteq RangeSet /\ EventRange \subseteq RangeSet
<1>1. 0 \in Nat /\ 0 <= MaxWord
  BY PruneAssumption
<1>2. \A f \in q.entry \cup q.event : ExtractRootUnsignedRange(f.expr) \in RangeSet
  BY <1>1, QueryFacts, RangeSound
<1>3. QED BY <1>2 DEF EntryRange, EventRange

\* DatasetScanExecutor::ClaimTask: what the ranges leave of a task, and that they
\* leave every entry they admit.
LEMMA ClippedTaskFacts ==
    ASSUME q \in Queries, NEW t \in AnyTask, t.file \in DOMAIN q.files
    PROVE  /\ ClippedTask(t) \in LooseTask
           /\ ClippedTask(t).file = t.file
           /\ t.begin <= ClippedTask(t).begin /\ ClippedTask(t).end <= t.end
           /\ \A e \in Inside(t) :
                 /\ \A R \in EntryRange : Admits(R, e)
                 /\ \A R \in EventRange : Admits(R, q.files[t.file].base + e)
                 => e \in Inside(ClippedTask(t))
<1> DEFINE base == q.files[t.file].base
           u == IF \E r \in EventRange : r.known THEN ClipRange(CHOOSE r \in EventRange : r.known, t, base) ELSE t
           c == IF \E r \in EntryRange : r.known THEN ClipRange(CHOOSE r \in EntryRange : r.known, u, 0) ELSE u
<1>1. ClippedTask(t) = c
  BY DEF ClippedTask
<1>2. base \in Nat
  BY FileFacts
<1>3. t \in LooseTask
  BY DEF AnyTask, LooseTask
<1>4. /\ u \in LooseTask /\ u.file = t.file /\ t.begin <= u.begin /\ u.end <= t.end
      /\ \A e \in Inside(t) : (\A R \in EventRange : Admits(R, base + e)) => e \in Inside(u)
  <2>1. CASE \E r \in EventRange : r.known
    <3> DEFINE R == CHOOSE r \in EventRange : r.known
    <3>1. R \in EventRange /\ R.known /\ R \in RangeSet
      BY <2>1, RangesTyped
    <3>2. u = ClipRange(R, t, base)
      BY <2>1
    <3> HIDE DEF R, u, base
    <3>3. /\ u \in LooseTask /\ u.file = t.file /\ t.begin <= u.begin /\ u.end <= t.end
          /\ \A e \in Inside(t) : R.lower <= base + e /\ base + e <= R.upper => e \in Inside(u)
      BY <1>2, <1>3, <3>1, <3>2, ClipRangeFacts
    <3>4. QED BY <3>1, <3>3 DEF Admits
  <2>2. CASE ~ \E r \in EventRange : r.known
    <3>1. u = t
      BY <2>2
    <3>2. t.begin <= t.begin /\ t.end <= t.end
      BY <1>3 DEF LooseTask
    <3>3. QED BY <1>3, <3>1, <3>2
  <2>3. QED BY <2>1, <2>2
<1> HIDE DEF u
<1>5. /\ c \in LooseTask /\ c.file = u.file /\ u.begin <= c.begin /\ c.end <= u.end
      /\ \A e \in Inside(u) : (\A R \in EntryRange : Admits(R, e)) => e \in Inside(c)
  <2>1. CASE \E r \in EntryRange : r.known
    <3> DEFINE R == CHOOSE r \in EntryRange : r.known
    <3>1. R \in EntryRange /\ R.known /\ R \in RangeSet
      BY <2>1, RangesTyped
    <3>2. c = ClipRange(R, u, 0)
      BY <2>1
    <3>0. \A e \in Inside(u) : 0 + e = e
      BY <1>4 DEF LooseTask, Inside
    <3> HIDE DEF R, c
    <3>3. /\ c \in LooseTask /\ c.file = u.file /\ u.begin <= c.begin /\ c.end <= u.end
          /\ \A e \in Inside(u) : R.lower <= 0 + e /\ 0 + e <= R.upper => e \in Inside(c)
      BY <1>4, <3>1, <3>2, ClipRangeFacts
    <3>4. QED BY <3>0, <3>1, <3>3 DEF Admits
  <2>2. CASE ~ \E r \in EntryRange : r.known
    <3>1. c = u
      BY <2>2
    <3>2. u.begin <= u.begin /\ u.end <= u.end
      BY <1>4 DEF LooseTask
    <3>3. QED BY <1>4, <3>1, <3>2
  <2>3. QED BY <2>1, <2>2
<1> HIDE DEF c
<1>6. t.begin <= c.begin /\ c.end <= t.end
  <2>1. /\ t.begin \in Int /\ t.end \in Int /\ u.begin \in Int /\ u.end \in Int /\ c.begin \in Int /\ c.end \in Int
    BY <1>3, <1>4, <1>5 DEF LooseTask
  <2>2. QED BY <1>4, <1>5, <2>1
<1>7. QED BY <1>1, <1>4, <1>5, <1>6 DEF base

\* A task is of one file, and has entries, candidates all of them.
LEMMA TaskFacts ==
    ASSUME PlanInv, NEW k \in DOMAIN tasks
    PROVE  /\ tasks[k] \in AnyTask /\ tasks[k].begin < tasks[k].end
           /\ tasks[k].file \in DOMAIN q.files /\ Inside(tasks[k]) \subseteq Entries(tasks[k].file)
           /\ \A e \in Inside(tasks[k]) : \A s \in q.selection : e \in s[tasks[k].file]
<1>1. /\ q \in Queries /\ Disjoint(tasks) /\ fetched \subseteq Selected
      /\ \A f, e : Covered(tasks, f, e) => \E s \in fetched : s[1] = f /\ e \in ClipOf(s)
  BY DEF PlanInv, IsPlan
<1>2. tasks[k] \in AnyTask /\ tasks[k].begin < tasks[k].end
  BY <1>1 DEF Disjoint
<1> DEFINE f == tasks[k].file
<1>3. ASSUME NEW e \in Inside(tasks[k])
      PROVE  f \in DOMAIN q.files /\ e \in Entries(f) /\ \A s \in q.selection : e \in s[f]
  <2>1. Covered(tasks, f, e)
    BY DEF Covered, Holding
  <2>2. PICK s \in fetched : s[1] = f /\ e \in ClipOf(s)
    BY <1>1, <2>1
  <2>3. s \in Selected
    BY <1>1, <2>2
  <2>4. f \in DOMAIN q.files /\ e \in Entries(f)
    BY <1>1, <2>2, <2>3, SelectedFacts
  <2>5. \A z \in q.selection : e \in z[f]
    BY <2>2 DEF ClipOf, ClipSet, CandidateEntries, IntervalFilterActive
  <2>6. QED BY <2>4, <2>5
<1>4. tasks[k].begin \in Inside(tasks[k])
  BY <1>2 DEF AnyTask, Inside
<1>5. QED BY <1>2, <1>3, <1>4

\* A plan of every basket holds every row that matches.
LEMMA MatchingIsPlanned ==
    ASSUME PlanInv, Ordinary, NEW r \in Matching, fetched = Selected
    PROVE  Covered(tasks, r.file, r.entry)
<1> DEFINE f == r.file
           e == r.entry
           B == q.files[f].baskets
<1>1. q \in Queries /\ \A s \in Selected : KeptOf(s) => \A d \in ClipOf(s) : Covered(tasks, s[1], d)
  BY DEF PlanInv, IsPlan
<1>2. f \in DOMAIN q.files /\ e \in Entries(f)
  BY <1>1, MatchingFacts, RowFacts
<1>3. Describes(B, q.files[f].target)
  BY <1>1, <1>2, FileFacts
<1>4. PICK b \in ToSet(B) : e \in Inside(b)
  BY <1>2, <1>3 DEF Describes, Entries
<1>5. PICK i \in DOMAIN B : b = B[i]
  BY DEF ToSet
<1>6. Kept(f, B[i])
  BY <1>1, <1>4, <1>5, MatchingIsKept
<1> DEFINE s == <<f, i>>
<1>7. s \in Selected /\ s[1] = f /\ BasketOf(s) = B[i]
  BY <1>2, <1>5 DEF Selected, BasketOf
<1>8. e \in ClipOf(s)
  <2>1. e \in CandidateEntries(f)
    BY <1>1, MatchingIsCandidate
  <2>2. e \in ClipSet(f, B[i])
    BY <1>4, <1>5, <2>1 DEF ClipSet
  <2>3. QED BY <1>7, <2>2 DEF ClipOf
<1>9. KeptOf(s)
  BY <1>6, <1>7 DEF KeptOf
<1> HIDE DEF s
<1>10. QED BY <1>1, <1>7, <1>8, <1>9

=============================================================================
