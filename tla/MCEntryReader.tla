---------------------------- MODULE MCEntryReader ----------------------------
(* EntryReader on a relation of two numeric columns and a string.            *)
EXTENDS EntryReader

Shapes == {<<>>, <<1>>, <<1, 2>>, <<1, 3>>, <<1, 2, 3>>}
Dense  == {<<>>, <<1>>, <<1, 2, 3>>}

Query(m, p, v, f, k) == [mode |-> m, projected |-> p, validate |-> v, limit |-> 2, fixed |-> f,
                         container |-> k, entries |-> 1, shapes |-> Shapes]

\* Both numeric columns in one entry, as fixed members of one container and not.
Pairs == {Query(m, {"a", "b"}, v, f, TRUE) : m \in {"auto", "serialized"}, v \in {0, 1}, f \in BOOLEAN}

\* Lockstep after an entry of validation.
Validated == {[Query(m, {"a", "b"}, 1, TRUE, TRUE) EXCEPT !.limit = 3, !.entries = 2, !.shapes = Dense] :
                m \in {"auto", "serialized"}}

\* Two entries of one column, the indices alone, a string, a string beside a numeric
\* column, and of relations of scalars.
Singles ==
    {[o EXCEPT !.entries = 2] :
        o \in {Query(m, p, v, f, TRUE) :
                    m \in {"object", "auto", "serialized"}, p \in {{}, {"a"}, {"s"}, {"a", "s"}},
                    v \in {0, 1}, f \in BOOLEAN}
              \cup {Query(m, p, 1, FALSE, FALSE) :
                    m \in {"object", "auto", "serialized"}, p \in {{}, {"a"}}}}

MCOptions == Pairs \cup Validated \cup Singles
=============================================================================
