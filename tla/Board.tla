------------------------------- MODULE Board -------------------------------
(***************************************************************************)
(* What the sync board promises the pages that show it (sync.go:1-5): every *)
(* post, removal and clear happens at once, to the list that is shown and  *)
(* to the one that outlives the process, and a restart shows the latter.   *)
(* SyncBoard, where each of them takes many steps, implements it.          *)
(***************************************************************************)
EXTENDS Naturals, SequencesExt

CONSTANTS
  Posts,  \* all that is ever posted
  Cap     \* maxSyncItems

VARIABLES
  board,   \* what every page shows, oldest first
  stored,  \* what a restart would show
  posted,  \* the posts answered so far
  refused  \* how often the disk did not take the list

vars == <<board, stored, posted, refused>>

Newest(s) == IF Len(s) > Cap THEN SubSeq(s, Len(s) - Cap + 1, Len(s)) ELSE s

Init == board = <<>> /\ stored = <<>> /\ posted = {} /\ refused = 0

\* Written as well, or the disk refused it.
Show(s) ==
  /\ board' = s
  /\ \/ stored' = s /\ UNCHANGED refused
     \/ refused' = refused + 1 /\ UNCHANGED stored

Put(p) ==
  /\ p \notin posted
  /\ posted' = posted \cup {p}
  /\ Show(Newest(Append(board, p)))

Drop(i) == Show(RemoveAt(board, i)) /\ UNCHANGED posted

Clear == Show(<<>>) /\ UNCHANGED posted

Restart == board' = stored /\ UNCHANGED <<stored, posted, refused>>

Next ==
  \/ \E p \in Posts : Put(p)
  \/ \E i \in DOMAIN board : Drop(i)
  \/ Clear \/ Restart

Spec == Init /\ [][Next]_vars
=============================================================================
