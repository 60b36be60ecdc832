---------------------------- MODULE MCDirectScan -----------------------------
(* DirectScan on several files and on one, with and without ranges.          *)
EXTENDS DirectScan

Query(files, sources, entries, keep) ==
    [files |-> files, sources |-> sources, entries |-> entries, keep |-> keep]

Any == <<0, 9>>

\* Files with an empty entry, no entry, and an entry longer than a chunk; the first
\* or the last file left out; entries of a range, of none, of an impossible one;
\* filters that keep all or some of an entry, or nothing of as many files as there
\* are threads.
Files == {<< <<1>>, <<0, 1>>, <<3>> >>, << <<>>, <<3, 1>> >>}
MCMulti ==
    {Query(f, Any, e, k) : f \in Files, e \in {Any, <<1, 1>>, <<5, 6>>}, k \in {0 .. 9, {0, 2}, {1}}}
    \cup {Query(f, s, Any, 0 .. 9) : f \in Files, s \in {<<1, 1>>, <<1, 9>>, <<0, 0>>, <<2, 1>>}}
    \cup {Query(f, Any, <<3, 2>>, 0 .. 9) : f \in Files}
MCSingle ==
    {Query(<<f>>, Any, e, k) :
        f \in {<<3, 0, 1, 2, 1>>, <<1, 1, 1>>}, e \in {Any, <<1, 3>>, <<3, 2>>}, k \in {0 .. 9, {0, 2}}}

MCQueries == MCMulti \cup MCSingle
=============================================================================
