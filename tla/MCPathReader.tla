---------------------------- MODULE MCPathReader ----------------------------
(* An event with each kind of member: inherited and shadowed ones, fixed arrays, *)
(* containers of classes, of containers and of pairs, and pointers.  Some names  *)
(* contain others: pos, a member of the unsplit base, is in position, run in     *)
(* runs, id in grid.                                                             *)
EXTENDS PathReader

Leaf(kind)      == [kind |-> kind, of |-> "", size |-> 1]
Class(size)     == [kind |-> "class", of |-> "", size |-> size]
Vector(of)      == [kind |-> "vector", of |-> of, size |-> 1]
MCTypes ==
    [Int |-> Leaf("number"), Str |-> Leaf("string"),
     Point |-> Class(2), Hit |-> Class(5), Header |-> Class(5), Pair |-> Class(2), Event |-> Class(22),
     Ints |-> Vector("Int"), Rows |-> Vector("Ints"), Planes |-> Vector("Rows"), Hits |-> Vector("Hit"),
     Tags |-> [kind |-> "map", of |-> "Pair", size |-> 1]]

M(name, type, offset) == [NoField EXCEPT !.name = name, !.type = type, !.offset = offset]
MCStreamers ==
    [Point  |-> <<M("x", "Int", 0), M("y", "Int", 1)>>,
     Hit    |-> <<M("u", "Int", 0), M("pos", "Point", 1), M("w", "Ints", 3),
                  [M("p", "Int", 4) EXCEPT !.pointer = TRUE]>>,
     Header |-> <<M("id", "Int", 0), M("run", "Int", 1), M("tag", "Str", 2),
                  M("pos", "Point", 3)>>,
     Pair   |-> <<M("first", "Int", 0), M("second", "Int", 1)>>,
     Event  |-> <<[M("Header", "Header", 0) EXCEPT !.base = TRUE], M("n", "Int", 5), M("id", "Int", 6),
                  [M("arr", "Int", 7) EXCEPT !.dims = <<2, 3>>], M("hits", "Hits", 13),
                  [M("best", "Hit", 14) EXCEPT !.pointer = TRUE], M("grid", "Rows", 15), M("tags", "Tags", 16),
                  [M("pts", "Point", 17) EXCEPT !.dims = <<1>>], M("cube", "Planes", 19),
                  M("position", "Ints", 20), M("runs", "Ints", 21)>>]

\* Names that share pieces.
MCSpelling ==
    [event |-> <<"eve", "n", "t">>, id |-> <<"id">>, grid |-> <<"gr", "id">>,
     run |-> <<"r", "u", "n">>, runs |-> <<"r", "u", "n", "s">>,
     pos |-> <<"p", "os">>, position |-> <<"p", "os", "itio", "n">>, pts |-> <<"p", "ts">>,
     tag |-> <<"tag">>, tags |-> <<"tag", "s">>, cube |-> <<"c", "u", "be">>]

Hit(u, w, p) == <<u, <<u + 1, u + 2>>, w, p>>
Event(n, hits, best, grid, tags, cube) ==
    << <<1, n + 2, 0, <<n + 8, n + 9>> >>, n, 3, << <<n, n + 1, n + 2>>, <<n + 3, n + 4, n + 5>> >>,
       hits, best, grid, tags, << <<n + 6, n + 7>> >>, cube, <<n>>, <<n, n>> >>
MCBlank == Event(0, <<>>, <<>>, <<>>, <<>>, <<>>)
Rich  == Event(10, <<Hit(20, <<1, 2>>, << 5 >>), Hit(30, <<>>, <<>>), Hit(40, <<3>>, << 6 >>)>>, <<Hit(50, <<4>>, <<>>)>>,
               << <<7, 8>>, <<>>, <<9>> >>, << <<1, 2>>, <<3, 4>> >>, << << <<1, 2>>, <<3>> >> >>)
Poor  == Event(60, <<Hit(70, <<>>, << 1 >>)>>, <<>>, << <<>>, <<5>> >>, <<>>, <<>>)
MCFiles == {<<Rich, Poor>>, <<Poor, Rich>>, <<MCBlank, Rich>>}

Branch(name, slots) == [name |-> Text(name), stored |-> TRUE, children |-> 0, slots |-> slots]
Split == << [Branch("event", {}) EXCEPT !.stored = FALSE, !.children = 12],
            Branch("Header", 1 .. 5), Branch("n", {6}), Branch("id", {7}), Branch("arr", 8 .. 13),
            Branch("hits", {14}), Branch("best", {15}), Branch("grid", {16}), Branch("tags", {17}),
            Branch("pts", {18, 19}), Branch("cube", {20}), Branch("position", {21}), Branch("runs", {22})>>
Whole == <<Branch("event", 1 .. 22)>>

Query(prefix, mode, options, page) ==
    {[prefix |-> prefix, branches |-> b, mode |-> mode, validate |-> o[1], fixed |-> o[2],
      fallback |-> o[3], page |-> page] : b \in {Split, Whole}, o \in options}
Flat == {<<>>, <<"pos">>, <<"arr">>, <<"hits">>, <<"hits", "pos">>, <<"hits", "w">>, <<"best">>, <<"best", "w">>,
         <<"grid", "value">>, <<"tags">>, <<"pts">>}
MCQueries ==
    UNION {Query(prefix, "object", {<<0, FALSE, FALSE>>}, page) : prefix \in Flat, page \in 1 .. 2}
    \cup UNION {Query(prefix, mode, (0 .. 1) \X BOOLEAN \X BOOLEAN, page) :
                  prefix \in Flat, mode \in {"auto", "serialized"}, page \in 1 .. 2}
=============================================================================
