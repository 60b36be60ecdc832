---------------------------- MODULE NumberLemmas ----------------------------
(***************************************************************************)
(* Least and greatest elements of sets of numbers: the largest snapshot id *)
(* of a catalog, the largest worker-N of a directory, the latest receipt,   *)
(* the longest column.  From the least element follows induction over the  *)
(* nodes of an expression, and that a function defined by recursion over   *)
(* them exists.                                                            *)
(***************************************************************************)
EXTENDS Naturals, WellFoundedInduction, FiniteSetTheorems, TLAPS

Less == {p \in Nat \X Nat : p[1] < p[2]}

LEMMA LessIsWellFounded == IsWellFoundedOn(Less, Nat)
<1>1. OpToRel(<, Nat) = Less
  BY Zenon DEF OpToRel, Less
<1>2. QED BY <1>1, NatLessThanWellFounded, Zenon

LEMMA LeastNumber ==
    ASSUME NEW S, S \subseteq Nat, S # {}
    PROVE  \E n \in S : \A m \in S : n <= m
<1>1. PICK n \in S : \A m \in S : ~ (<<m, n>> \in Less)
  BY LessIsWellFounded, WFMin, Zenon
<1>2. \A m \in S : ~ (m < n)
  BY <1>1 DEF Less
<1>3. QED BY <1>2

\* The least upper bound of a set of numbers is in it.
LEMMA GreatestNumber ==
    ASSUME NEW S, S \subseteq Nat, S # {}, NEW b \in Nat, \A n \in S : n <= b
    PROVE  \E n \in S : \A m \in S : m <= n
<1> DEFINE U == {u \in Nat : \A n \in S : n <= u}
<1>1. b \in U /\ U \subseteq Nat
  OBVIOUS
<1> HIDE DEF U
<1>2. PICK u \in U : \A v \in U : u <= v
  BY <1>1, LeastNumber
<1> USE DEF U
<1>3. CASE u \in S
  BY <1>2, <1>3
<1>4. CASE u \notin S
  <2>1. \A n \in S : n \in Nat /\ n < u
    BY <1>4
  <2>2. PICK n \in S : TRUE
    OBVIOUS
  <2>3. u - 1 \in Nat
    BY <2>1, <2>2
  <2>4. u - 1 \in U
    BY <2>1, <2>3
  <2>5. QED BY <2>3, <2>4, <1>2
<1>5. QED BY <1>3, <1>4

\* A function on a finite set has a greatest value: no smallest set can lack one.
LEMMA FiniteMaximum ==
    ASSUME NEW C, IsFiniteSet(C), C # {}, NEW f, \A c \in C : f[c] \in Nat
    PROVE  \E c \in C : \A d \in C : f[d] <= f[c]
<1> DEFINE Top(D, c) == c \in D /\ \A d \in D : f[d] <= f[c]
           Bad == {D \in SUBSET C : D # {} /\ ~ \E c \in D : Top(D, c)}
           S == {Cardinality(D) : D \in Bad}
<1>1. \A D \in SUBSET C : IsFiniteSet(D) /\ Cardinality(D) \in Nat
  BY FS_Subset, FS_CardinalityType
<1>2. SUFFICES ASSUME Bad # {} PROVE FALSE
  OBVIOUS
<1>3. S \subseteq Nat /\ S # {}
  BY <1>1, <1>2
<1> HIDE DEF S
<1>4. PICK n \in S : \A m \in S : n <= m
  BY <1>3, LeastNumber
<1> USE DEF S
<1>5. PICK D \in Bad : Cardinality(D) = n
  BY <1>4
<1>6. PICK x \in D : TRUE
  BY <1>5
<1>7. /\ D \ {x} \in SUBSET C /\ Cardinality(D \ {x}) = n - 1 /\ n \in Nat
  BY <1>1, <1>5, <1>6, FS_RemoveElement
<1>8. n - 1 \notin S
  BY <1>3, <1>4, <1>7
<1>9. D \ {x} \notin Bad
  BY <1>7, <1>8
<1>10. CASE D = {x}
  <2>1. Top(D, x)
    BY <1>5, <1>10
  <2>2. QED BY <1>5, <1>6, <2>1
<1>11. CASE D \ {x} # {}
  <2>1. PICK c \in D \ {x} : \A d \in D \ {x} : f[d] <= f[c]
    BY <1>7, <1>9, <1>11
  <2>2. f[x] \in Nat /\ \A d \in D : f[d] \in Nat
    BY <1>5, <1>6
  <2>3. Top(D, c) \/ Top(D, x)
    BY <1>6, <2>1, <2>2
  <2>4. QED BY <1>5, <1>6, <2>1, <2>3
<1>12. QED BY <1>6, <1>10, <1>11

\* The numbers from a to N are all in G if each is that has those before it in G.
LEMMA IntervalInduction ==
    ASSUME NEW a \in Nat, NEW N \in Int, NEW G,
           \A n \in a .. N : (\A m \in a .. n - 1 : m \in G) => n \in G
    PROVE  \A n \in a .. N : n \in G
<1> DEFINE B == {n \in a .. N : n \notin G}
<1>1. SUFFICES ASSUME B # {} PROVE FALSE
  OBVIOUS
<1>2. B \subseteq Nat
  OBVIOUS
<1> HIDE DEF B
<1>3. PICK n \in B : \A m \in B : n <= m
  BY <1>1, <1>2, LeastNumber
<1> USE DEF B
<1>4. \A m \in a .. n - 1 : m \in G
  BY <1>3
<1>5. QED BY <1>3, <1>4

\* F gives the next value of a function from those before it, and f has them all.
Determines(F, a, N, S) ==
    /\ \A g \in [a .. N -> S] : \A n \in a .. N : F[<<g, n>>] \in S
    /\ \A g, h \in [a .. N -> S] : \A n \in a .. N :
          (\A m \in a .. n - 1 : g[m] = h[m]) => F[<<g, n>>] = F[<<h, n>>]
Unfolds(f, F, a, N) == \A n \in a .. N : f[n] = F[<<f, n>>]

\* A function defined by recursion over numbers exists.
LEMMA RecursionExists ==
    ASSUME NEW a \in Nat, NEW N \in Int, NEW S, S # {}, NEW F, Determines(F, a, N, S)
    PROVE  \E f \in [a .. N -> S] : Unfolds(f, F, a, N)
<1>0. /\ \A g \in [a .. N -> S] : \A n \in a .. N : F[<<g, n>>] \in S
      /\ \A g, h \in [a .. N -> S] : \A n \in a .. N :
            (\A m \in a .. n - 1 : g[m] = h[m]) => F[<<g, n>>] = F[<<h, n>>]
  BY DEF Determines
<1> SUFFICES \E f \in [a .. N -> S] : \A n \in a .. N : f[n] = F[<<f, n>>]
  BY DEF Unfolds
<1> DEFINE T == [a .. N -> S]
           UpTo(f, k) == \A n \in a .. k : f[n] = F[<<f, n>>]
           G == {k \in a .. N : \E f \in T : UpTo(f, k)}
<1>1. ASSUME NEW k \in a .. N, \A m \in a .. k - 1 : m \in G PROVE k \in G
  <2>1. PICK f \in T : UpTo(f, k - 1)
    <3>1. CASE k = a
      <4>1. PICK s \in S : TRUE
        OBVIOUS
      <4>2. [n \in a .. N |-> s] \in T /\ a .. k - 1 = {}
        BY <3>1
      <4>3. QED BY <4>2
    <3>2. CASE k # a
      <4>1. k - 1 \in a .. k - 1
        BY <3>2
      <4>2. k - 1 \in G
        BY <4>1, <1>1
      <4>3. QED BY <4>2
    <3>3. QED BY <3>1, <3>2
  <2> DEFINE h == [f EXCEPT ![k] = F[<<f, k>>]]
  <2>2. F[<<f, k>>] \in S
    BY <1>0, <2>1
  <2>3. h \in T /\ h[k] = F[<<f, k>>] /\ \A n \in a .. k - 1 : h[n] = f[n]
    BY <2>2
  <2> HIDE DEF h
  <2>4. \A n \in a .. k : F[<<h, n>>] = F[<<f, n>>]
    <3>1. ASSUME NEW n \in a .. k PROVE n \in a .. N /\ \A m \in a .. n - 1 : h[m] = f[m]
      BY <2>3
    <3>2. QED BY <1>0, <3>1, <2>1, <2>3
  <2>5. \A n \in a .. k : n = k \/ n \in a .. k - 1
    OBVIOUS
  <2>6. UpTo(h, k)
    BY <2>1, <2>3, <2>4, <2>5
  <2>7. QED BY <2>3, <2>6
<1> HIDE DEF G
<1>2. \A k \in a .. N : k \in G
  BY <1>1, IntervalInduction
<1> USE DEF G
<1>3. CASE N < a
  <2>1. PICK s \in S : TRUE
    OBVIOUS
  <2>2. [n \in a .. N |-> s] \in T /\ a .. N = {}
    BY <1>3
  <2>3. QED BY <2>2
<1>4. CASE ~ (N < a)
  <2>1. N \in a .. N
    BY <1>4
  <2>2. QED BY <1>2, <2>1
<1>5. QED BY <1>3, <1>4

=============================================================================
