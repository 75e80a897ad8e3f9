----------------------------- MODULE SyncBoard -----------------------------
(***************************************************************************)
(* The sync board (sync.go, post_sync in mcp_tools.go): a capped list of   *)
(* text and file items, its copy in sync.json, and the payloads of the     *)
(* file items in <dataDir>/sync.                                           *)
(*                                                                         *)
(* A file is stored before st.mu is taken.  Under st.mu the list is        *)
(* changed, the payloads that fell off are unlinked, and the list is       *)
(* written, in this order: nobody else sees the list in between, but the   *)
(* process may die there, and each unlink and the write may fail unnoticed.*)
(***************************************************************************)
EXTENDS Naturals, SequencesExt

CONSTANTS
  Posts,   \* posts, each with the random ID it drew
  Cap,     \* maxSyncItems
  Owner,   \* whoever removes an item or clears the board
  Nobody,
  BoardLimits  \* bound: how often the process dies, and how often the disk refuses
               \* to unlink a payload, to take sync.json or to take a payload

ASSUME BoardAssumption ==
  /\ Cap \in Nat \ {0}
  /\ Owner \notin Posts /\ Nobody \notin Posts \cup {Owner}
  /\ BoardLimits \in [{"crash", "unlink", "save", "write"} -> Nat]

VARIABLES
  items,    \* st.items, oldest first
  saved,    \* sync.json
  payload,  \* <dataDir>/sync: what is there of each post's file
  mu,       \* st.mu: who holds it
  todo,     \* the items its holder still has to unlink
  kind,     \* text, file (the page's upload) or data (MCP)
  stage,    \* where each post is, or how it ended
  mishaps,     \* how much of BoardLimits is used up
  seen,     \* history: the list as its readers last could see it
  torn      \* history: the posts the process died over: in sync.json but no more
            \* in the list, or the other way round

boardVars == <<items, saved, payload, mu, todo, kind, stage, mishaps, seen, torn>>

\* Mutant: one more than the cap.
NewestAndOne(s) == IF Len(s) > Cap + 1 THEN SubSeq(s, Len(s) - Cap, Len(s)) ELSE s

\* The list cut to the cap, from the old end.
Newest(s) == IF Len(s) > Cap THEN SubSeq(s, Len(s) - Cap + 1, Len(s)) ELSE s

\* Mutant: the loop unlinks what follows the item it drops.
EvictedNext(s) == SubSeq(s, 2, Len(s) - Cap + 1)

\* evictLocked unlinks the oldest items, those that Newest leaves out.
Evicted(s) == SubSeq(s, 1, Len(s) - Cap)

Ended == {"listed", "failed", "cut"}
InFlight == {"store", "add", "saving"}

BoardInit ==
  /\ items = <<>> /\ saved = <<>> /\ seen = <<>> /\ todo = <<>>
  /\ payload = [p \in Posts |-> "none"]
  /\ mu = Nobody
  /\ kind \in [Posts -> {"text", "file", "data"}]
  /\ stage = [p \in Posts |-> "idle"]
  /\ mishaps = [k \in DOMAIN BoardLimits |-> 0]
  /\ torn = {}

Mishap(k) == mishaps[k] < BoardLimits[k] /\ mishaps' = [mishaps EXCEPT ![k] = @ + 1]

-----------------------------------------------------------------------------
\* Storing a post.  A text has no payload; the page's upload creates its file
\* and copies the body into it.
Advance(p, label) == stage' = [stage EXCEPT ![p] = label]
Put(p, bytes) == payload' = [payload EXCEPT ![p] = bytes]

Begin(p) ==
  /\ stage[p] = "idle"
  /\ \/ kind[p] = "text" /\ Advance(p, "add") /\ UNCHANGED payload
     \/ kind[p] # "text" /\ Advance(p, "store") /\ Put(p, "part")
     \/ kind[p] # "text" /\ Advance(p, "failed") /\ UNCHANGED payload
  /\ UNCHANGED <<items, saved, mu, todo, kind, mishaps, seen, torn>>

FileStored(p) ==
  /\ stage[p] = "store"
  /\ Put(p, "whole")
  /\ Advance(p, "add")
  /\ UNCHANGED <<items, saved, mu, todo, kind, mishaps, seen, torn>>

\* The copy fails or the file is empty: the page's upload is removed again, the
\* fragment of an MCP post stays.
FileNotStored(p) ==
  /\ stage[p] = "store"
  /\ Advance(p, "failed")
  /\ \/ kind[p] = "file" /\ Put(p, "none") /\ UNCHANGED mishaps
     \/ kind[p] = "file" /\ Mishap("unlink") /\ UNCHANGED payload
     \/ kind[p] = "data" /\ Mishap("write") /\ UNCHANGED payload
  /\ UNCHANGED <<items, saved, mu, todo, kind, seen, torn>>

-----------------------------------------------------------------------------
\* What st.mu covers: take it and change the list...
Change(who, list, dropped) ==
  /\ mu = Nobody
  /\ mu' = who
  /\ items' = list
  /\ todo' = dropped

AddItem(p) ==
  /\ stage[p] = "add"
  /\ Change(p, Newest(Append(items, p)), Evicted(Append(items, p)))
  /\ Advance(p, "saving")
  /\ UNCHANGED <<saved, payload, kind, mishaps, seen, torn>>

RemoveItem(i) ==
  /\ i \in DOMAIN items
  /\ Change(Owner, RemoveAt(items, i), <<items[i]>>)
  /\ UNCHANGED <<saved, payload, kind, stage, mishaps, seen, torn>>

\* Mutant: the list is emptied before the loop that unlinks.
ClearFirst ==
  /\ Change(Owner, <<>>, <<>>)
  /\ UNCHANGED <<saved, payload, kind, stage, mishaps, seen, torn>>

ClearBoard ==
  /\ Change(Owner, <<>>, items)
  /\ UNCHANGED <<saved, payload, kind, stage, mishaps, seen, torn>>

\* ... unlink what fell off, one file at a time (a text has none)...
Unlink ==
  /\ todo # <<>>
  /\ todo' = Tail(todo)
  /\ \/ Put(Head(todo), "none") /\ UNCHANGED mishaps
     \/ kind[Head(todo)] # "text" /\ Mishap("unlink") /\ UNCHANGED payload
  /\ UNCHANGED <<items, saved, mu, kind, stage, seen, torn>>

\* Mutant: st.mu is let go without a write when the list is empty.
SaveUnlessEmpty ==
  /\ mu # Nobody /\ todo = <<>>
  /\ \/ saved' = (IF items = <<>> THEN saved ELSE items) /\ UNCHANGED mishaps
     \/ Mishap("save") /\ UNCHANGED saved
  /\ mu' = Nobody
  /\ seen' = items
  /\ stage' = [p \in Posts |-> IF p = mu THEN "listed" ELSE stage[p]]
  /\ UNCHANGED <<items, payload, todo, kind, torn>>

\* ... write the list, tmp file and rename, let st.mu go and answer.
SaveList ==
  /\ mu # Nobody /\ todo = <<>>
  /\ \/ saved' = items /\ UNCHANGED mishaps
     \/ Mishap("save") /\ UNCHANGED saved
  /\ mu' = Nobody
  /\ seen' = items
  /\ stage' = [p \in Posts |-> IF p = mu THEN "listed" ELSE stage[p]]
  /\ UNCHANGED <<items, payload, todo, kind, torn>>

-----------------------------------------------------------------------------
\* Which of the list, sync.json and the list as it was last seen a post is in.
Listing(p) == {list \in {items, saved, seen} : p \in Range(list)}

\* The process dies and starts again: load reads sync.json.
Reload ==
  /\ Mishap("crash")
  /\ items' = Newest(saved)
  /\ seen' = Newest(saved)
  /\ mu' = Nobody
  /\ todo' = <<>>
  /\ stage' = [p \in Posts |-> IF stage[p] \in InFlight THEN "cut" ELSE stage[p]]
  /\ torn' = torn \cup {p \in Posts : Listing(p) \notin {{}, {items, saved, seen}}}
  /\ UNCHANGED <<saved, payload, kind>>

BoardNext ==
  \/ \E p \in Posts : Begin(p) \/ FileStored(p) \/ FileNotStored(p) \/ AddItem(p)
  \/ \E i \in DOMAIN items : RemoveItem(i)
  \/ ClearBoard \/ Unlink \/ SaveList
  \/ Reload

BoardSpec == BoardInit /\ [][BoardNext]_boardVars

-----------------------------------------------------------------------------
BoardTypeOK ==
  /\ \A list \in {items, saved, seen, todo} :
       list \in Seq(Posts) /\ Len(list) <= Cap /\ IsInjective(list)
  /\ payload \in [Posts -> {"none", "part", "whole"}]
  /\ mu \in Posts \cup {Owner, Nobody} /\ (mu = Nobody => todo = <<>>)
  /\ \A p \in Posts : stage[p] = "saving" <=> mu = p
  /\ kind \in [Posts -> {"text", "file", "data"}]
  /\ stage \in [Posts -> {"idle"} \cup InFlight \cup Ended]
  /\ mishaps \in [DOMAIN BoardLimits -> Nat]
  /\ torn \subseteq Posts

\* A file item on the board can be downloaded, and whole: nothing is listed
\* before its file is stored, nothing that is still listed loses its file.  Only
\* a process that died between unlinking and writing sync.json comes back with an
\* item whose file is gone.
ListedHasPayload ==
  \A p \in Range(items) \ torn : kind[p] # "text" => payload[p] = "whole"

\* A payload nobody can reach any more is not left on the disk: items that fall
\* off the board, are removed or fail to upload take theirs with them.  What is
\* left are the posts a crash cut off, what the disk would not unlink, and the
\* fragment of an MCP post.
NothingLeaks ==
  mishaps["unlink"] = 0 =>
    \A p \in Posts \ torn : payload[p] # "none" =>
      \/ p \in Range(items) \cup Range(todo)
      \/ stage[p] \in {"store", "add", "cut"}
      \/ stage[p] = "failed" /\ kind[p] = "data"

\* "one writer (the server), many readers" (sync.go:4-5): what readers see, and
\* what a restart brings back, changes by whole posts, removals and clears.
Readers == INSTANCE Board WITH
  board <- seen, stored <- saved, posted <- {p \in Posts : stage[p] = "listed"},
  refused <- mishaps["save"]
ShownSpec == Readers!Spec
=============================================================================
