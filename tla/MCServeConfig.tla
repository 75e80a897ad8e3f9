--------------------------- MODULE MCServeConfig ---------------------------
(* Two calls at a time, one change by another tool, one failing request.      *)
EXTENDS ServeConfig

CONSTANTS Calls, Changes, Fails

Bounds == [call |-> Calls, foreign |-> Changes, fail |-> Fails]
=============================================================================
