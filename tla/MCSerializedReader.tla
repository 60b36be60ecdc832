------------------------- MODULE MCSerializedReader -------------------------
(* Events with tracks, tracks with weights and hits; a track and a hit have had three *)
(* versions, in which members moved, came, went, grew and became wider.               *)
EXTENDS SerializedReader

Number(width) == [kind |-> "number", of |-> "", width |-> width]
Class         == [kind |-> "class", of |-> "", width |-> 0]
VectorOf(t)   == [kind |-> "vector", of |-> t, width |-> 0]
MCTypes ==
    [float |-> Number(2), double |-> Number(4), Floats |-> VectorOf("float"),
     Hit |-> Class, Hits |-> VectorOf("Hit"), Track |-> Class, Tracks |-> VectorOf("Track"),
     Head |-> Class, Info |-> Class, Event |-> Class]

M(name, type)      == [NoField EXCEPT !.name = name, !.type = type]
A(name, type, dim) == [M(name, type) EXCEPT !.dims = dim]
B(type)            == [M(type, type) EXCEPT !.base = TRUE]
MCOnFile ==
    [Track |-> << <<B("TObject"), A("x", "float", <<2>>), M("w", "Floats"), M("a", "double"), M("s", "Hits"), M("y", "float")>>,
                  <<B("TObject"), M("a", "double"), A("x", "double", <<2>>), M("y", "float"), M("w", "Floats"),
                    M("s", "Hits"), M("z", "float")>>,
                  <<M("a", "double"), A("x", "double", <<3>>), M("s", "Hits"), M("z", "double")>> >>,
     Hit   |-> << <<A("p", "double", <<1, 2>>), M("u", "float")>>,
                  <<M("u", "float"), A("p", "double", <<1, 2>>), M("v", "double")>>,
                  <<M("u", "float"), A("p", "float", <<1, 2>>), M("v", "float")>> >>,
     Head  |-> << <<M("q", "float"), A("r", "float", <<2>>)>> >>,
     Info  |-> << <<M("id", "float")>> >>,
     Event |-> << <<B("Info"), M("nums", "Floats"), M("n", "double"), M("head", "Head"), M("tracks", "Tracks")>>,
                  <<B("Info"), M("n", "double"), M("nums", "Floats"), M("head", "Head"), M("tracks", "Tracks")>> >>]
MCCurrent   == [Track |-> 2, Hit |-> 2, Head |-> 1, Info |-> 1, Event |-> 2]
\* Tracks got a ClassDef late.
MCUnversioned == {<<"Track", 1>>, <<"Track", 2>>}
MCDamages == {-1, 1, 4}
MCStreamers == [c \in DOMAIN MCCurrent |-> MCOnFile[c][MCCurrent[c]]]

E(version, inner, sizes) == [version |-> version, inner |-> inner, sizes |-> sizes, stl |-> 9, checksum |-> FALSE]
Scenario(branch, columns, baskets, fragile) ==
    [branch |-> branch, columns |-> columns, baskets |-> baskets, fragile |-> fragile]

T(path) == <<"tracks">> \o path
X == T(<<"x">>)
W == T(<<"w", "value">>)
P == T(<<"s", "p">>)
Z == T(<<"z">>)

\* Baskets that came from files of different versions.
Same    == << <<E(2, 2, <<1, 2>>), E(2, 2, <<0>>)>>, <<E(2, 2, <<>>), E(2, 2, <<1>>)>> >>
Merged  == << <<E(1, 1, <<1, 0>>), E(1, 1, <<2>>)>>, <<E(2, 2, <<2, 1>>)>> >>
Newer   == << <<E(2, 2, <<1>>)>>, <<E(3, 1, <<1, 1>>)>>, <<E(2, 1, <<0, 1>>)>> >>
Odd     == << <<[E(2, 2, <<1, 1>>) EXCEPT !.stl = 0], [E(2, 2, <<1>>) EXCEPT !.checksum = TRUE]>>,
              <<[E(2, 2, <<1>>) EXCEPT !.stl = 6], E(2, 2, <<1, 1, 1, 1, 1, 1, 1>>)>> >>
Short   == << <<E(2, 2, <<1, 1>>), E(2, 2, <<1>>)>> >>
Events  == << <<E(2, 2, <<1, 2>>)>>, <<E(2, 2, <<>>), E(2, 2, <<1, 1, 1, 1, 1, 1, 1>>)>> >>
Moved   == << <<E(1, 2, <<1, 2>>), E(1, 2, <<0>>)>> >>

Plain == {Scenario("plain", <<X, W, P, Z>>, baskets, FALSE) : baskets \in {Same, Merged, Newer, Odd}}
Fragile == {Scenario("plain", <<c>>, Short, TRUE) : c \in {X, W, P}}
Other ==
    {Scenario("top", <<X, W, <<"n">>, <<"id">>>>, baskets, FALSE) : baskets \in {Events, Moved}}
    \cup {Scenario("leaf", <<X, Z>>, Events, FALSE), Scenario("leaf", << <<"n">>, T(<<"y">>) >>, Events, FALSE),
          Scenario("plain", << <<"nums", "value">> >>, Events, FALSE), Scenario("plain", << <<"nums", "value">> >>, Moved, FALSE),
          Scenario("plain", << <<"head", "q">>, <<"head", "r">> >>, Events, FALSE), Scenario("plain", << <<"head", "r">> >>, Moved, FALSE),
          Scenario("split", <<X, W, P>>, Events, FALSE), Scenario("leaf", <<P, W>>, Events, FALSE)}
MCScenarios == Plain \cup Fragile \cup Other

\* A hit's array of floats has become one of doubles.
Wider == {Scenario("plain", <<P>>, << <<E(2, 3, <<1, 2>>)>>, <<E(2, 2, <<1>>)>> >>, FALSE)}
=============================================================================
