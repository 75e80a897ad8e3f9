---------------------------- MODULE MCSyncBoard ----------------------------
(* More posts than the board holds; one crash and one failure of each kind.   *)
EXTENDS SyncBoard, TLC

Bounds == [crash |-> 1, unlink |-> 1, save |-> 1, write |-> 1]

Symmetry == Permutations(Posts)
=============================================================================
