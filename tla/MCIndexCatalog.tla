--------------------------- MODULE MCIndexCatalog ---------------------------
(* Bounds for IndexCatalog: ids in the order TimestampId returns them.     *)
EXTENDS IndexCatalog

CONSTANTS strict, partial

TwoIds   == 1 .. 2
ThreeIds == 1 .. 3
Strict   == {strict}
Partials == {partial}
Both     == {strict, partial}
None     == {}
=============================================================================
