--------------------------- MODULE MCConfigLegacy ---------------------------
(* An upgrade: the config is from a version without session tokens.  One      *)
(* settings request at a time.                                                *)
EXTENDS Config

MCConfigLimits == [set |-> 3, fail |-> 0, crash |-> 2]
=============================================================================
