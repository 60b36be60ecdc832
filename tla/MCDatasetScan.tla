---------------------------- MODULE MCDatasetScan ----------------------------
(* DatasetScan on two and three small files.  Values are 0 (-inf), 1 .. 3,     *)
(* 4 (+inf) and 5 (NaN).  Many queries with one thread tell the pruning rules  *)
(* apart; a few, with limits, run with two threads.                            *)
EXTENDS DatasetScan

Leaf(op, c) == << [op |-> op, consts |-> c, args |-> <<>>] >>
Shift(e, n) == [i \in DOMAIN e |-> [e[i] EXCEPT !.args = [j \in DOMAIN @ |-> @[j] + n]]]
Tree(op, a, b) == a \o Shift(b, Len(a))
                    \o << [op |-> op, consts |-> <<>>, args |-> <<Len(a), Len(a) + Len(b)>>] >>
Leaves(C) == {Leaf(op, <<c>>) : op \in Comparisons, c \in C}

\* Expressions on a double, on an unsigned column, and on the number of a file.
ValueLeaves == Leaves({1, 2, 3, NaN}) \cup {Leaf("between", <<1, 2>>), Leaf("between", <<2, NaN>>),
    Leaf("in", <<1, 3>>), Leaf("in", <<NaN>>), Leaf("in", <<>>), Leaf("other", <<2, NaN>>)}
IdLeaves == Leaves({0, 2, 4, MaxWord}) \cup {Leaf("between", <<1, 3>>), Leaf("between", <<3, 1>>),
    Leaf("in", <<0, 4>>), Leaf("in", <<>>), Leaf("other", <<1, 4>>)}
SourceLeaves == {Leaf("=", <<1>>), Leaf("=", <<2>>), Leaf("<>", <<1>>), Leaf("in", <<1, 2>>), Leaf("in", <<>>)}

Pick == {Leaf("=", <<1>>), Leaf("=", <<3>>), Leaf(">", <<2>>), Leaf("<", <<2>>), Leaf("<>", <<1>>),
         Leaf("in", <<1, 3>>), Leaf("other", <<2, NaN>>)}
Trees == {Tree(op, a, b) : op \in {"and", "or"}, a, b \in Pick}
DeepTrees == {Tree("or", Tree("and", Leaf(">", <<2>>), a), Leaf("=", <<1>>)) : a \in Pick}
             \cup {Tree("and", Tree("or", Leaf("=", <<3>>), a), Leaf("<>", <<1>>)) : a \in Pick}

B(b, e, o) == [begin |-> b, end |-> e, offset |-> o, size |-> 1]
Indexed(S, b) == [i \in DOMAIN b |-> [begin |-> b[i].begin, end |-> b[i].end, offset |-> b[i].offset,
                                      size |-> b[i].size, stats |-> Stats(Content(S, b[i]))]]
File(base, t, c, b) ==
    [base |-> base, target |-> t, companion |-> c, baskets |-> Indexed(t, b),
     cbaskets |-> Indexed(c, <<B(0, 1, 0), B(1, Len(t), 1)>>),
     stats |-> FileStats({Stats(Content(t, b[i])) : i \in DOMAIN b})]

\* An entry without a value, baskets of NaN alone, entries longer than a page,
\* baskets written out of order and with a gap between them.
InOrder  == << <<B(0, 1, 0), B(1, 3, 1)>>, <<B(0, 1, 0), B(1, 2, 3)>> >>
OutOfOrder == << <<B(0, 1, 0), B(2, 3, 1), B(1, 2, 2)>>, <<B(0, 2, 0)>> >>
Companion == << << <<1>>, <<2, 3>>, <<>> >>, << <<0, 3>>, <<4, 1>> >> >>
Target(k) == IF k = 1 THEN << << <<1>>, <<>>, <<2, 5>> >>, << <<3>>, <<5>> >> >>
                      ELSE << << <<2, 2>>, <<3, 1, 1>>, <<1>> >>, << <<5, 3>>, <<1, 2>> >> >>
Two(k, b) == <<File(0, Target(k)[1], Companion[1], b[1]), File(3, Target(k)[2], Companion[2], b[2])>>

Base(F) == [files |-> F, value |-> {}, event |-> {}, entry |-> {}, source |-> {}, selection |-> {},
            predicates |-> <<>>, limit |-> NoLimit, typed |-> FALSE, gap |-> 1, workers |-> 1,
            count |-> FALSE, changed |-> FALSE]
Only(e) == {[expr |-> e, optional |-> o] : o \in BOOLEAN}

Layouts == {Two(1, InOrder), Two(2, OutOfOrder)}

ValueQueries == {[Base(F) EXCEPT !.value = {f}] :
    F \in Layouts, f \in UNION {Only(e) : e \in ValueLeaves \cup Trees \cup DeepTrees}}
IdQueries == UNION {{[Base(F) EXCEPT !.event = {f}], [Base(F) EXCEPT !.entry = {f}]} :
    F \in Layouts, f \in UNION {Only(e) : e \in IdLeaves \cup Trees \cup DeepTrees}}
    \cup {[Base(F) EXCEPT !.source = {f}] : F \in Layouts, f \in UNION {Only(e) : e \in SourceLeaves}}
MixedQueries == {[Base(F) EXCEPT !.event = {[expr |-> e, optional |-> FALSE]},
                                 !.entry = {[expr |-> n, optional |-> FALSE]},
                                 !.value = {[expr |-> v, optional |-> FALSE]}] :
    F \in Layouts, e \in {Leaf("<=", <<4>>), Leaf("between", <<1, 3>>)},
    n \in {Leaf(">", <<0>>), Leaf("<", <<2>>)}, v \in {Leaf(">", <<1>>), Leaf("=", <<1>>)}}

Predicate(op, c) == {[op |-> op, consts |-> c, all |-> a, wide |-> w] : a, w \in BOOLEAN}
Predicates == UNION ({Predicate(op, <<c>>) : op \in Comparisons, c \in {1, 2}}
                     \cup {Predicate("between", <<1, 2>>), Predicate("in", <<1, 3>>)})
Selections == {{}, {<<{0, 2}, {1}>>}, {<<{}, {}>>}, {<<{0, 1, 2}, {0}>>}}
SelectionQueries == {[Base(F) EXCEPT !.selection = s, !.predicates = <<p>>] :
                       F \in Layouts, s \in Selections, p \in Predicates}
    \cup {[Base(F) EXCEPT !.selection = s, !.predicates = p] : F \in Layouts, s \in Selections,
            p \in {<<>>} \cup (Predicate("<>", <<1>>) \X Predicate(">=", <<2>>))}

\* Two threads on two files, with limits, filters, and 64-bit values that fill
\* one task a thread.
Three == <<File(0, << <<1>>, <<2, 5>> >>, << <<1>>, <<1>> >>, <<B(0, 1, 0), B(1, 2, 4)>>),
           File(2, << <<3, 1, 1>> >>, << <<1>> >>, <<B(0, 1, 0)>>)>>
Whole == <<File(0, << <<1>>, <<2, 2>> >>, << <<1>>, <<1>> >>, <<B(0, 2, 0)>>),
           File(2, << <<3>>, <<3, 1>> >>, << <<1>>, <<1>> >>, <<B(0, 2, 0)>>)>>
ThreadQueries ==
    {[Base(F) EXCEPT !.workers = 2, !.limit = n, !.value = v] :
        F \in {Three, Whole}, n \in {0, 1, 3, NoLimit},
        v \in {{}, {[expr |-> Leaf("=", <<1>>), optional |-> FALSE]}}}
    \cup {[Base(F) EXCEPT !.count = TRUE, !.limit = n] : F \in {Three, Whole}, n \in {0, 3, NoLimit}}
    \cup {[Base(F) EXCEPT !.count = c, !.changed = TRUE] : F \in {Three}, c \in BOOLEAN}
    \cup {[Base(F) EXCEPT !.limit = n, !.gap = g] : F \in Layouts \cup {Two(2, InOrder)}, n \in {1, 2, 4}, g \in {0, 1}}

MCQueries == ValueQueries \cup IdQueries \cup MixedQueries \cup SelectionQueries \cup ThreadQueries

\* 64-bit values in more than one task a thread.
MCTyped == {[Base(Three) EXCEPT !.typed = TRUE]}

\* Infinities in the value column.
Infinite == <<File(0, << <<1>>, <<4>>, <<0, 2>> >>, Companion[1], InOrder[1])>>
MCInfinite == {[Base(Infinite) EXCEPT !.value = {[expr |-> e, optional |-> FALSE]}] :
                 e \in Leaves({1, 2, 3})}

\* NaN in the path of a predicate, in a basket of its own.  For these queries, which
\* no configuration lists, ResultIsComplete is violated (README, section 3).
Unordered == <<File(0, << <<1>>, <<2>>, <<3>> >>, << <<NaN>>, <<1>>, <<2>> >>, InOrder[1])>>
MCNaN == {[Base(Unordered) EXCEPT !.predicates = <<p>>] : p \in Predicates}

MCHash == <<1, 3, 6>>
MCMix  == <<0, 2, 1>>
=============================================================================
