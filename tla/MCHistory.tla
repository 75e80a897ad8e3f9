----------------------------- MODULE MCHistory -----------------------------
(* Two names, one save or delete at a time; each run bounds what it needs.    *)
EXTENDS History

CONSTANTS Arrivals, Rest

Bounds == [arrive |-> Arrivals, rest |-> Rest]
=============================================================================
