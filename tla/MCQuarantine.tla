---------------------------- MODULE MCQuarantine ----------------------------
(* Two links, two uploads of the same base name, two saves or deletes at a    *)
(* time, one crash: enough for a stale look-up to meet a reused name.         *)
EXTENDS Quarantine, TLC

CONSTANT Base

TakenByDaemon == {<<Base, 0>>}
Symmetric == Permutations(Uploads) \cup Permutations(Removers)
=============================================================================
