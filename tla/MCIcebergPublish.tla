-------------------------- MODULE MCIcebergPublish --------------------------
(* Two paths, indexed one after the other, and all requests for them.      *)
EXTENDS IcebergPublish

CONSTANTS p, q

Request(m, P, g) == [mode |-> m, paths |-> P, given |-> g]

MCIds      == 1 .. 3
MCBase     == <<"files", "schemas">>
MCRequests == {Request("replace", {p}, TRUE), Request("extend", {q}, FALSE), Request("extend", {q}, TRUE)}
=============================================================================
