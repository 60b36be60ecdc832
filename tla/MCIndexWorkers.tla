--------------------------- MODULE MCIndexWorkers ---------------------------
(* Bounds for IndexWorkers: the staging directory of one run.              *)
EXTENDS IndexWorkers

OneId == {1}
=============================================================================
