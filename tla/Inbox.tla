------------------------------- MODULE Inbox -------------------------------
(***************************************************************************)
(* The inbox: files that wait at the Tailscale daemon or in the quarantine *)
(* of drop-link uploads, the watcher that polls them, announces them to    *)
(* the pages (module Hub) and starts auto-saves, and the saves and deletes *)
(* of auto-save, pages and MCP tools (server.go, ops.go, tsSaveFile in     *)
(* localapi.go, linkSave in drops.go).                                     *)
(*                                                                         *)
(* Saving is: open the file by its name, find a free name in the folder,   *)
(* create it, copy, and delete the waiting file by its name.               *)
(***************************************************************************)
EXTENDS Hub, FiniteSets, Functions

CONSTANTS
  Files,      \* all that ever arrives
  Names,      \* file names; also the auto-saves, at most one for each name
  Requests,   \* saves and deletes asked for by pages and tools
  MaxSuffix,  \* bound: names in the folder carry a suffix 0..MaxSuffix
  NoFile,
  MaxEvents   \* bound: how many of the Events below happen in one run

Sources == {"daemon", "link"}
Slots == 0..MaxSuffix

\* What may happen once in a run: a request, a failure, the death of the process, a
\* change of the setting, a lost connection.
Events == {"ask", "fail", "crash", "switch", "drop"}

Bytes == [of : Files, whole : BOOLEAN]

ASSUME InboxAssumption ==
  /\ Cap \in Nat \ {0} /\ MaxSuffix \in Nat
  /\ Names \cap Requests = {} /\ NoFile \notin Files \cup Bytes
  /\ MaxEvents \in Nat

VARIABLES
  waiting,    \* the files in the inbox
  named,      \* each file's name
  source,     \* where it waits
  forced,     \* the files of links with an auto-save folder of their own
  arrived,    \* the files that came so far
  folder,     \* the copies in the save folder: by name and suffix
  watch,      \* the watcher: what it does, its snapshot, what it has to consider
  job,        \* each save and delete
  autosaving, \* s.autosaving
  cool,       \* names whose auto-save failed less than a minute ago
  auto,       \* the auto-save setting
  happened,   \* which of Events happened
  discarded,  \* history: the files an owner deleted
  raced       \* history: two jobs were on their way for one waiting name

files == <<waiting, named, source, forced, arrived>>
vars == <<files, folder, watch, job, autosaving, cool, auto, happened, discarded,
          raced, hub>>

Jobs == Names \cup Requests
Idle == [pc |-> "idle", op |-> "save", name |-> NoFile, src |-> "daemon",
         file |-> NoFile, slot |-> 0, snap |-> {}]

Init ==
  /\ waiting = {} /\ arrived = {} /\ discarded = {}
  /\ named \in [Files -> Names]
  /\ source \in [Files -> Sources]
  /\ forced \in SUBSET {f \in Files : source[f] = "link"}
  /\ folder = [c \in Names \X Slots |-> NoFile]
  /\ watch = [pc |-> "poll", snap |-> {}, todo |-> {}]
  /\ job = [j \in Jobs |-> Idle]
  /\ autosaving = {} /\ cool = {}
  /\ auto \in BOOLEAN
  /\ happened = {}
  /\ raced = FALSE
  /\ HubInit

Once(e) ==
  /\ e \notin happened /\ Cardinality(happened) < MaxEvents
  /\ happened' = happened \cup {e}

\* The file that waits under a name.
At(n, s) == {f \in waiting : named[f] = n /\ source[f] = s}

\* A daemon keeps one file of a name; a link upload avoids all names in the inbox.
Arrive(f) ==
  /\ f \notin arrived
  /\ At(named[f], source[f]) = {}
  /\ source[f] = "link" => At(named[f], "daemon") = {}
  /\ waiting' = waiting \cup {f}
  /\ arrived' = arrived \cup {f}
  /\ UNCHANGED <<named, source, forced, folder, watch, job, autosaving, cool, auto,
                 happened, discarded, raced, hub>>

-----------------------------------------------------------------------------
\* Saves and deletes.
Racing(n, s) ==
  \E j \in Jobs : /\ job[j].name = n /\ job[j].src = s
                  /\ job[j].pc \in {"open", "create", "copy", "delete"}

Start(j, op, n, s) ==
  /\ job[j] = Idle
  /\ job' = [job EXCEPT ![j] = [Idle EXCEPT !.op = op, !.name = n, !.src = s,
                                  !.pc = IF op = "save" THEN "open" ELSE "delete"]]
  /\ raced' = (raced \/ Racing(n, s))

\* Mutant: the auto-save stays marked when it fails.
EndMarked(j, ok) ==
  /\ job' = [job EXCEPT ![j] = Idle]
  /\ autosaving' = IF ok THEN autosaving \ {j} ELSE autosaving
  /\ cool' = IF j \in Names /\ ~ok THEN cool \cup {j} ELSE cool

\* It returns; an auto-save is forgotten, and remembered if it failed.
End(j, ok) ==
  /\ job' = [job EXCEPT ![j] = Idle]
  /\ autosaving' = autosaving \ {j}
  /\ cool' = IF j \in Names /\ ~ok THEN cool \cup {j} ELSE cool

\* saveOne tells the pages how a save goes and how it ended.
Report(j) == IF job[j].op = "save" /\ job[j].src = "daemon"
             THEN Broadcast(Other) ELSE UNCHANGED hub

Request(r, op, n, s) ==
  /\ Once("ask")
  /\ Start(r, op, n, s)
  /\ UNCHANGED <<files, folder, watch, autosaving, cool, auto, discarded, hub>>

\* conflictFreeName.
Free(n) == {i \in Slots : folder[<<n, i>>] = NoFile}
FirstFree(n) == CHOOSE i \in Free(n) : \A k \in Free(n) : i <= k

\* The file is opened and a name for the copy picked.
Open(j) ==
  LET n == job[j].name
      there == At(n, job[j].src)
  IN
  /\ job[j].pc = "open"
  /\ \/ /\ Free(n) # {}
        /\ \E f \in there : job' = [job EXCEPT ![j].pc = "create", ![j].file = f,
                                                ![j].slot = FirstFree(n)]
        /\ UNCHANGED <<autosaving, cool, hub>>
     \/ there = {} /\ End(j, FALSE) /\ Report(j)
  /\ UNCHANGED <<files, folder, watch, auto, happened, discarded, raced>>

Copy(j) == <<job[j].name, job[j].slot>>

\* O_EXCL: who comes second gets an error.
Create(j) ==
  /\ job[j].pc = "create"
  /\ \/ /\ folder[Copy(j)] = NoFile
        /\ folder' = [folder EXCEPT ![Copy(j)] = [of |-> job[j].file, whole |-> FALSE]]
        /\ job' = [job EXCEPT ![j].pc = "copy", ![j].file = NoFile]
        /\ UNCHANGED <<autosaving, cool, hub>>
     \/ /\ folder[Copy(j)] # NoFile
        /\ End(j, FALSE) /\ Report(j)
        /\ UNCHANGED folder
  /\ UNCHANGED <<files, watch, auto, happened, discarded, raced>>

CopyAll(j) ==
  /\ job[j].pc = "copy"
  /\ folder' = [folder EXCEPT ![Copy(j)].whole = TRUE]
  /\ job' = [job EXCEPT ![j].pc = "delete", ![j].slot = 0]
  /\ Report(j)
  /\ UNCHANGED <<files, watch, autosaving, cool, auto, happened, discarded, raced>>

\* Mutant: a copy that failed deletes the file as well.
FailDeleting(j) ==
  /\ Once("fail")
  /\ job[j].pc = "copy"
  /\ waiting' = waiting \ At(job[j].name, job[j].src)
  /\ End(j, FALSE) /\ Report(j)
  /\ UNCHANGED <<folder, named, source, forced, arrived, watch, auto, discarded, raced>>

\* Any of these steps may fail.  tsSaveFile leaves what it copied, linkSave
\* removes it and takes no notice of a file it could not delete.
Fail(j) ==
  /\ Once("fail")
  /\ \/ job[j].pc \in {"open", "create"} /\ UNCHANGED folder
     \/ /\ job[j].pc = "copy"
        /\ folder' = IF job[j].src = "link" THEN [folder EXCEPT ![Copy(j)] = NoFile]
                     ELSE folder
     \/ /\ job[j].pc = "delete"
        /\ job[j].src = "daemon" \/ job[j].op = "delete"
        /\ UNCHANGED folder
  /\ End(j, FALSE) /\ Report(j)
  /\ UNCHANGED <<files, watch, auto, discarded, raced>>

\* The waiting file is deleted, by its name.  An auto-saved upload is announced
\* by the next poll only.
Delete(j) ==
  LET there == At(job[j].name, job[j].src)
      quiet == job[j].op = "save" /\ job[j].src = "link" /\ j \in Names
      found == there # {} \/ job[j].src = "daemon" \/ job[j].op = "save"
  IN
  /\ job[j].pc = "delete"
  /\ waiting' = waiting \ there
  /\ discarded' = IF job[j].op = "delete" THEN discarded \cup there ELSE discarded
  /\ Report(j)
  /\ IF found /\ ~quiet
     THEN job' = [job EXCEPT ![j] = [Idle EXCEPT !.pc = "tell"]] /\ UNCHANGED <<autosaving, cool>>
     ELSE End(j, found)
  /\ UNCHANGED <<named, source, forced, arrived, folder, watch, auto, happened, raced>>

\* broadcastInboxNow: fetch, then broadcast.
Tell(j) ==
  /\ job[j].pc = "tell"
  /\ \/ /\ job' = [job EXCEPT ![j].pc = "send", ![j].snap = waiting]
        /\ UNCHANGED <<autosaving, cool, happened>>
     \/ Once("fail") /\ End(j, TRUE)
  /\ UNCHANGED <<files, folder, watch, auto, discarded, raced, hub>>

Send(j) ==
  /\ job[j].pc = "send"
  /\ Broadcast(job[j].snap)
  /\ End(j, TRUE)
  /\ UNCHANGED <<files, folder, watch, auto, happened, discarded, raced>>

-----------------------------------------------------------------------------
\* watchInbox: poll, announce, consider each file for auto-save.
Poll ==
  /\ watch.pc = "poll" /\ watch.todo = {}
  /\ watch' = [watch EXCEPT !.pc = "announce", !.snap = waiting]
  /\ UNCHANGED <<files, folder, job, autosaving, cool, auto, happened, discarded, raced, hub>>

PollFails ==
  /\ watch.pc = "poll" /\ watch.todo = {}
  /\ Once("fail")
  /\ Broadcast(Other)
  /\ UNCHANGED <<files, folder, watch, job, autosaving, cool, auto, discarded, raced>>

\* Mutant: only what changed since the last poll is announced.
AnnounceChanges ==
  /\ watch.pc = "announce"
  /\ IF watch.snap = last THEN UNCHANGED hub ELSE Broadcast(watch.snap)
  /\ watch' = [watch EXCEPT !.pc = "status"]
  /\ UNCHANGED <<files, folder, job, autosaving, cool, auto, happened, discarded, raced>>

Announce ==
  /\ watch.pc = "announce"
  /\ Broadcast(watch.snap)
  /\ watch' = [watch EXCEPT !.pc = "status"]
  /\ UNCHANGED <<files, folder, job, autosaving, cool, auto, happened, discarded, raced>>

\* A broadcast of its own: the daemon is reachable again.
AnnounceStatus ==
  /\ watch.pc = "status"
  /\ Broadcast(Other)
  /\ watch' = [watch EXCEPT !.pc = "poll", !.todo = watch.snap, !.snap = {}]
  /\ UNCHANGED <<files, folder, job, autosaving, cool, auto, happened, discarded, raced>>

\* maybeAutoSave, for one file.
Wanted(f) ==
  /\ f \in forced \/ auto
  /\ named[f] \notin autosaving \cup cool

Consider(f) ==
  /\ f \in watch.todo
  /\ watch' = [watch EXCEPT !.todo = @ \ {f}]
  /\ \/ /\ Wanted(f)
        /\ Start(named[f], "save", named[f], source[f])
        /\ autosaving' = autosaving \cup {named[f]}
     \/ ~Wanted(f) /\ UNCHANGED <<job, autosaving, raced>>
  /\ UNCHANGED <<files, folder, cool, auto, happened, discarded, hub>>

\* A minute passes since an auto-save failed.
CoolDown(n) ==
  /\ n \in cool
  /\ cool' = cool \ {n}
  /\ UNCHANGED <<files, folder, watch, job, autosaving, auto, happened, discarded, raced, hub>>

Switch ==
  /\ Once("switch")
  /\ auto' = ~auto
  /\ UNCHANGED <<files, folder, watch, job, autosaving, cool, discarded, raced, hub>>

\* The process dies and starts again; files wait where they are.
Restart ==
  /\ Once("crash")
  /\ watch' = [pc |-> "poll", snap |-> {}, todo |-> {}]
  /\ job' = [j \in Jobs |-> Idle]
  /\ autosaving' = {} /\ cool' = {}
  /\ queue' = <<>> /\ last' = Other /\ feed' = "closed"
  /\ UNCHANGED <<files, folder, auto, discarded, raced, view>>

Listen == Page /\ UNCHANGED <<files, folder, watch, job, autosaving, cool, auto, happened,
                              discarded, raced>>
Drop == /\ Once("drop")
        /\ Disconnect
        /\ UNCHANGED <<files, folder, watch, job, autosaving, cool, auto, discarded, raced>>

Step(j) ==
  Open(j) \/ Create(j) \/ CopyAll(j) \/ Delete(j) \/ Tell(j) \/ Send(j)
Watcher == Poll \/ Announce \/ AnnounceStatus \/ \E f \in Files : Consider(f)

Next ==
  \/ \E f \in Files : Arrive(f)
  \/ \E r \in Requests, op \in {"save", "delete"}, n \in Names, s \in Sources :
       Request(r, op, n, s)
  \/ \E j \in Jobs : Step(j) \/ Fail(j)
  \/ Watcher \/ PollFails
  \/ \E n \in Names : CoolDown(n)
  \/ Switch \/ Restart \/ Listen \/ Drop

Spec == Init /\ [][Next]_vars

\* Goroutines run, the daemon answers in the end, the page reads its events and
\* connects again, and time passes.
Fairness ==
  /\ \A j \in Jobs : WF_vars(Step(j))
  /\ WF_vars(Watcher) /\ WF_vars(Listen)
  /\ \A n \in Names : WF_vars(CoolDown(n))

LiveSpec == Spec /\ Fairness

-----------------------------------------------------------------------------
TypeOK ==
  /\ waiting \subseteq arrived /\ arrived \subseteq Files
  /\ \A f, g \in waiting : (named[f] = named[g] /\ source[f] = source[g]) => f = g
  /\ folder \in [Names \X Slots -> Bytes \cup {NoFile}]
  /\ watch.pc \in {"poll", "announce", "status"} /\ watch.snap \subseteq Files
  /\ watch.todo \subseteq Files
  /\ \A j \in Jobs : job[j].pc \in
       {"idle", "open", "create", "copy", "delete", "tell", "send"}
  /\ \A n \in Names : n \in autosaving <=> job[n] # Idle
  /\ cool \subseteq Names
  /\ happened \subseteq Events
  /\ Len(queue) <= Cap /\ feed \in {"closed", "joined", "open"}
  /\ view \subseteq Files

Copies(f) == {c \in DOMAIN folder : folder[c] = [of |-> f, whole |-> TRUE]}

\* "The file stays in the inbox until the save fully succeeds" (localapi.go:104):
\* a file that arrived waits, was deleted by the owner, or is whole in the folder,
\* and there once unless something failed or the process died.  Two jobs for one
\* waiting name are not kept apart: the second may delete what it has not copied.
SavedOnce ==
  ~raced =>
    \A f \in arrived :
      /\ f \in waiting \cup discarded \/ Copies(f) # {}
      /\ happened \cap {"fail", "crash"} = {} => Cardinality(Copies(f)) <= 1

\* With auto-save on, or a folder of its own for the link, no file waits for ever:
\* not after a failure, not after a restart, not behind another file of its name.
EveryFileIsSaved == []<>(\A f \in waiting : ~auto /\ f \notin forced)

\* The inbox is about to be announced and the page's channel has room for it.
Room == watch.pc = "announce" /\ Len(queue) < Cap

\* Once files stop coming and going, the page shows the inbox as it is, whatever
\* events were dropped or came late, if again and again its channel has room for an
\* announcement; a page for which it never has stays behind.
PageCatchesUp == []<>Room => <>[](view = waiting)
=============================================================================
