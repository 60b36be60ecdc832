--------------------------- MODULE BranchResolver ----------------------------
(***************************************************************************)
(* From a logical path to one of the branches B of the object, by their    *)
(* names: a sequence in the order of CollectBranchTree, the object's own   *)
(* branch first.                                                           *)
(*                                                                         *)
(* A name is a text, and names are searched for parts of it, not for whole *)
(* components: pos is found in position.  A text is a sequence of pieces,  *)
(* as fine as the names of an instance are told apart; Spelling gives the  *)
(* components that other names share pieces with.                          *)
(***************************************************************************)
EXTENDS LogicalPath

CONSTANT Spelling \* [component -> its pieces]; any other component is one piece

Text(component) == IF component \in DOMAIN Spelling THEN Spelling[component] ELSE <<component>>

\* JoinStrings(fields, ".")
Dotted(fields) ==
    FoldLeft(LAMBDA text, field : text \o <<".">> \o Text(field), Text(Head(fields)), Tail(fields))

\* BranchNameEndsWithToken
EndsWithToken(name, token) ==
    \/ name = token
    \/ /\ Len(name) > Len(token) /\ IsSuffix(token, name)
       /\ name[Len(name) - Len(token)] \in {".", "/", "_"}

\* ContainsTokensInOrder: each token is looked for behind the one before it.
RECURSIVE ContainsTokensInOrder(_, _)
ContainsTokensInOrder(name, tokens) ==
    \/ tokens = <<>>
    \/ LET token == Text(Head(tokens))
           behind == IndexFirstSubSeq(token, name) + Len(token)
       IN token \in SubSeqs(name) /\ ContainsTokensInOrder(SubSeq(name, behind, Len(name)), Tail(tokens))

\* The score of a branch for a path; one without baskets has none.  (Of a single
\* component the remaining cases, 250 and 200, are those of 500 and 450.)
Score(b, fields) ==
    LET named == IF b.name = Dotted(fields) THEN 500
                 ELSE IF EndsWithToken(b.name, Dotted(fields)) THEN 450
                 ELSE IF ContainsTokensInOrder(b.name, fields) THEN 350
                 ELSE -1
    IN IF named < 0 \/ ~b.stored THEN -1 ELSE named + (IF b.children = 0 THEN 25 ELSE 0) + 20

\* The first branch with the highest score, or 0.
BestOf(score) ==
    LET scored == {<<score[i], i>> : i \in DOMAIN score}
        best   == {p \in scored : p[1] >= 0 /\ \A q \in scored : q[1] <= p[1]}
    IN IF best = {} THEN 0 ELSE LeastOf({p[2] : p \in best})

FindPhysicalBranch(B, fields) ==
    IF fields = <<>> THEN 0 ELSE BestOf([i \in DOMAIN B |-> Score(B[i], fields)])

\* key stands for first anywhere, value for second at the end.
StreamerFields(fields) ==
    [i \in DOMAIN fields |->
        IF fields[i] = "key" THEN "first"
        ELSE IF i = Len(fields) /\ fields[i] = "value" THEN "second"
        ELSE fields[i]]

\* A branch that has no name of the path, when nothing else is stored.
Proxy(B, fields) ==
    BestOf([i \in DOMAIN B |->
        IF i = 1 \/ ~B[i].stored THEN -1
        ELSE FoldLeft(LAMBDA s, k : IF EndsWithToken(B[i].name, Text(fields[k])) THEN s + 101 - k ELSE s,
                      0, [k \in DOMAIN fields |-> k])])

\* ResolvePhysicalBranch: the path itself, then the longest prefix that is stored,
\* then the object.
ResolvePhysicalBranch(B, fields) ==
    LET alias == StreamerFields(fields)
        Find(p, n) == FindPhysicalBranch(B, SubSeq(p, 1, n))
        found == {n \in 1 .. Len(fields) : Find(fields, n) # 0 \/ Find(alias, n) # 0}
        n     == Max(found)
        mode  == IF n = Len(fields) THEN "exact" ELSE "ancestor"
    IN IF found # {}
       THEN IF Find(fields, n) # 0 THEN [branch |-> Find(fields, n), mode |-> mode]
            ELSE [branch |-> Find(alias, n), mode |-> mode \o "_alias"]
       ELSE IF B[1].stored THEN [branch |-> 1, mode |-> "object"]
       ELSE [branch |-> Proxy(B, fields), mode |-> "proxy"]
=============================================================================
