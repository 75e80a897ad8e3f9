------------------------------ MODULE History ------------------------------
(***************************************************************************)
(* The history log (history.go): sessions that open when a file is first   *)
(* seen waiting and close when it is saved, deleted or gone.  Who feeds it *)
(* is in the model as far as it decides what the log says: the watcher,    *)
(* whose snapshot of the inbox is some steps old when it is recorded; saves *)
(* and deletes, which take the file first and record it afterwards; the    *)
(* command line, which takes files without telling; drop uploads.          *)
(*                                                                         *)
(* Every method runs under h.mu and ends by rewriting the log, so each is  *)
(* one action and the log on disk is always the log in memory.             *)
(***************************************************************************)
EXTENDS Integers, Sequences, SequencesExt

CONSTANTS
  Names,    \* file names
  Owners,   \* saves and deletes in flight
  Grace,    \* goneGrace, in clock ticks
  MaxKept,  \* h.max
  Limits    \* bound: how often files arrive, and how often any of the rest
            \* happens: an upload ends, a file is sent, the log is cleared, the
            \* process restarts

Closed == 0   \* no open session: session IDs count from 1

ASSUME HistoryAssumption ==
  /\ IsFiniteSet(Names)  \* a name has a greatest length
  /\ Grace \in Nat \ {0} /\ MaxKept \in Nat \ {0}
  /\ Limits \in [{"arrive", "rest"} -> Nat]

VARIABLES
  waiting,  \* the inbox: daemon files and drop-link uploads
  events,   \* h.events, and history.jsonl
  active,   \* h.active: the open session of each name
  age,      \* now - h.lastSeen[name], at most Grace; Grace if never seen
  nextID,   \* newID
  snap,     \* the watcher's snapshot, NoSnap between polls
  op,       \* each owner's request: idle, or a file taken but not recorded
  used,     \* how much of Limits is used up
  pruned    \* history: the log was cut to MaxKept events

vars == <<waiting, events, active, age, nextID, snap, op, used, pruned>>

NoSnap == [seen |-> FALSE, names |-> {}]
Snap(names) == [seen |-> TRUE, names |-> names]
IdleOwner == [kind |-> "idle"]

Init ==
  /\ waiting = {}
  /\ events = <<>>
  /\ active = [n \in Names |-> Closed]
  /\ age = [n \in Names |-> Grace]
  /\ nextID = 1
  /\ snap = NoSnap
  /\ op = [o \in Owners |-> IdleOwner]
  /\ used = [k \in DOMAIN Limits |-> 0]
  /\ pruned = FALSE

Spend(k) == used[k] < Limits[k] /\ used' = [used EXCEPT ![k] = @ + 1]

Event(id, kind, n) == [id |-> id, kind |-> kind, name |-> n]

\* Mutant: no prune.
LogUnpruned(new) == events' = events \o new /\ UNCHANGED pruned

\* prune and persist, at the end of every method that added events.
Log(new) ==
  LET all == events \o new
  IN  /\ events' = IF Len(all) > MaxKept
                   THEN SubSeq(all, Len(all) - MaxKept + 1, Len(all)) ELSE all
      /\ pruned' = (pruned \/ Len(all) > MaxKept)

-----------------------------------------------------------------------------
\* Mutant: one ID for all the files of a poll.
ArrivalsShareID(seen) ==
  LET fresh == {n \in seen : active[n] = Closed}
      gone  == {n \in Names \ seen : active[n] # Closed /\ age[n] = Grace}
  IN \E f \in SetToSeqs(fresh), g \in SetToSeqs(gone) :
       /\ age' = [n \in Names |-> IF n \in seen THEN 0 ELSE age[n]]
       /\ Log([i \in DOMAIN f |-> Event(nextID, "arrived", f[i])]
              \o [i \in DOMAIN g |-> Event(active[g[i]], "deleted", g[i])])
       /\ nextID' = nextID + 1
       /\ active' = [n \in Names |->
            CASE n \in fresh -> nextID
              [] n \in gone  -> Closed
              [] OTHER       -> active[n]]

\* Mutant: a name that vanished is never closed.
ArrivalsNeverGone(seen) ==
  LET fresh == {n \in seen : active[n] = Closed}
  IN \E f \in SetToSeqs(fresh) :
       /\ age' = [n \in Names |-> IF n \in seen THEN 0 ELSE age[n]]
       /\ Log([i \in DOMAIN f |-> Event(nextID + i - 1, "arrived", f[i])])
       /\ nextID' = nextID + Len(f)
       /\ active' = [n \in Names |->
            IF n \in fresh THEN nextID - 1 + CHOOSE i \in DOMAIN f : f[i] = n
            ELSE active[n]]

\* recordArrivals: open a session for every name seen that has none, close those
\* of names that were not seen now nor for goneGrace.  The order in which the
\* maps are walked is not defined.
RecordArrivals(seen) ==
  LET fresh == {n \in seen : active[n] = Closed}
      gone  == {n \in Names \ seen : active[n] # Closed /\ age[n] = Grace}
  IN \E f \in SetToSeqs(fresh), g \in SetToSeqs(gone) :
       /\ age' = [n \in Names |-> IF n \in seen THEN 0 ELSE age[n]]
       /\ Log([i \in DOMAIN f |-> Event(nextID + i - 1, "arrived", f[i])]
              \o [i \in DOMAIN g |-> Event(active[g[i]], "deleted", g[i])])
       /\ nextID' = nextID + Len(f)
       /\ active' = [n \in Names |->
            CASE n \in fresh -> nextID - 1 + CHOOSE i \in DOMAIN f : f[i] = n
              [] n \in gone  -> Closed
              [] OTHER       -> active[n]]

\* sessionIDFor: the open session, or the one of the last arrival on record.
SessionIDFor(n) ==
  LET arrivals == {i \in DOMAIN events : events[i].kind = "arrived" /\ events[i].name = n}
  IN  IF active[n] # Closed THEN active[n]
      ELSE IF arrivals = {} THEN Closed
      ELSE events[CHOOSE i \in arrivals : \A j \in arrivals : j <= i].id

\* Mutant: the session stays open.
RecordEndOpen(kind, n) ==
  LET id == IF SessionIDFor(n) = Closed THEN nextID ELSE SessionIDFor(n)
  IN  /\ Log(<<Event(id, kind, n)>>)
      /\ nextID' = IF id = nextID THEN nextID + 1 ELSE nextID
      /\ UNCHANGED <<active, age>>

\* recordSaved and recordDeleted.
RecordEnd(kind, n) ==
  LET id == IF SessionIDFor(n) = Closed THEN nextID ELSE SessionIDFor(n)
  IN  /\ Log(<<Event(id, kind, n)>>)
      /\ nextID' = IF id = nextID THEN nextID + 1 ELSE nextID
      /\ active' = [active EXCEPT ![n] = Closed]
      /\ UNCHANGED age

-----------------------------------------------------------------------------
\* A file arrives (a Taildrop transfer, or an upload being registered).
Arrive(n) ==
  /\ n \notin waiting
  /\ Spend("arrive")
  /\ waiting' = waiting \cup {n}
  /\ UNCHANGED <<events, active, age, nextID, snap, op, pruned>>

\* Someone takes it without asking this program.
TakenOutside(n) ==
  /\ n \in waiting
  /\ waiting' = waiting \ {n}
  /\ UNCHANGED <<events, active, age, nextID, snap, op, used, pruned>>

\* watchInbox: the long poll returns a list, later it is recorded.
Poll ==
  /\ ~snap.seen
  /\ snap' = Snap(waiting)
  /\ UNCHANGED <<waiting, events, active, age, nextID, op, used, pruned>>

RecordPoll ==
  /\ snap.seen
  /\ RecordArrivals(snap.names)
  /\ snap' = NoSnap
  /\ UNCHANGED <<waiting, op, used>>

\* handleDropUpload, at its end: it calls recordArrivals with the list it just
\* made and never filled.
UploadDone ==
  /\ Spend("rest")
  /\ RecordArrivals({})
  /\ UNCHANGED <<waiting, snap, op>>

\* A save or a delete: the file leaves the inbox, then it is recorded.
Take(o, kind, n) ==
  /\ op[o] = IdleOwner
  /\ n \in waiting
  /\ waiting' = waiting \ {n}
  /\ op' = [op EXCEPT ![o] = [kind |-> kind, name |-> n]]
  /\ UNCHANGED <<events, active, age, nextID, snap, used, pruned>>

Record(o) ==
  /\ op[o] # IdleOwner
  /\ RecordEnd(op[o].kind, op[o].name)
  /\ op' = [op EXCEPT ![o] = IdleOwner]
  /\ UNCHANGED <<waiting, snap, used>>

\* recordSend: a session of its own.
RecordSend(n) ==
  /\ Spend("rest")
  /\ \E kind \in {"sent", "send_failed"} : Log(<<Event(nextID, kind, n)>>)
  /\ nextID' = nextID + 1
  /\ UNCHANGED <<waiting, active, age, snap, op>>

\* clear forgets the sessions but not when names were last seen.
Clear ==
  /\ Spend("rest")
  /\ events' = <<>>
  /\ active' = [n \in Names |-> Closed]
  /\ UNCHANGED <<waiting, age, nextID, snap, op, pruned>>

Tick ==
  /\ \E n \in Names : age[n] < Grace
  /\ age' = [n \in Names |-> IF age[n] < Grace THEN age[n] + 1 ELSE Grace]
  /\ UNCHANGED <<waiting, events, active, nextID, snap, op, used, pruned>>

\* Mutant: on load only arrivals are tracked.
OpenAfterArrivals(log) ==
  [n \in Names |->
     LET mine == {i \in DOMAIN log : log[i].name = n /\ log[i].kind = "arrived"}
     IN  IF mine = {} THEN Closed
         ELSE log[CHOOSE i \in mine : \A j \in mine : j <= i].id]

\* load and trackActive: the sessions a log leaves open.
OpenAfter(log) ==
  [n \in Names |->
     LET mine == {i \in DOMAIN log :
                    log[i].name = n /\ log[i].kind \in {"arrived", "saved", "deleted"}}
         last == log[CHOOSE i \in mine : \A j \in mine : j <= i]
     IN  IF mine = {} \/ last.kind # "arrived" THEN Closed ELSE last.id]

\* The process stops and starts: the log is read again, lastSeen is empty, and
\* a file that was taken but not recorded stays unrecorded.
Restart ==
  /\ Spend("rest")
  /\ active' = OpenAfter(events)
  /\ age' = [n \in Names |-> Grace]
  /\ snap' = NoSnap
  /\ op' = [o \in Owners |-> IdleOwner]
  /\ UNCHANGED <<waiting, events, nextID, pruned>>

Next ==
  \/ \E n \in Names : Arrive(n) \/ TakenOutside(n) \/ RecordSend(n)
  \/ \E o \in Owners, kind \in {"saved", "deleted"}, n \in Names : Take(o, kind, n)
  \/ \E o \in Owners : Record(o)
  \/ Poll \/ RecordPoll \/ UploadDone
  \/ Clear \/ Tick \/ Restart

Spec == Init /\ [][Next]_vars

\* Time passes; the watcher polls again and again (watchInbox loops for as long
\* as the process runs, here with a daemon that answers in the end) and records
\* what it got.
LiveSpec == Spec /\ WF_vars(Poll) /\ WF_vars(RecordPoll) /\ WF_vars(Tick)

-----------------------------------------------------------------------------
TypeOK ==
  /\ waiting \subseteq Names
  /\ \A i \in DOMAIN events :
       /\ events[i].id \in 1..(nextID - 1) /\ events[i].name \in Names
       /\ events[i].kind \in {"arrived", "saved", "deleted", "sent", "send_failed"}
  /\ Len(events) <= MaxKept
  /\ active \in [Names -> 0..(nextID - 1)]
  /\ age \in [Names -> 0..Grace]
  /\ snap.names \subseteq Names
  /\ \A o \in Owners : op[o].kind \in {"idle", "saved", "deleted"}
  /\ used \in [DOMAIN Limits -> Nat]

\* history.go:70 "keeps active in sync with the event stream so sessions are
\* correctly attributed across app restarts": the log on disk leaves open
\* exactly the sessions that are open, as long as nothing was pruned from it.
SessionsSurviveRestart == ~pruned => active = OpenAfter(events)

\* A session ID belongs to one name, and to one arrival; and history.go:14-16,
\* "saved"/"deleted" close a session: no open session has an event that closed it.
SessionsAreSeparate ==
  /\ \A i, j \in DOMAIN events :
       events[i].id = events[j].id =>
         /\ events[i].name = events[j].name
         /\ (events[i].kind = "arrived" /\ events[j].kind = "arrived") => i = j
  /\ \A n \in Names, i \in DOMAIN events :
       (active[n] # Closed /\ events[i].id = active[n])
         => events[i].kind = "arrived" /\ events[i].name = n

\* "closes sessions for files that vanished": a file that is gone for good does
\* not keep its session open.
VanishedIsClosed ==
  \A n \in Names : (active[n] # Closed /\ n \notin waiting) ~> (active[n] = Closed \/ n \in waiting)

\* history.go:83 "Files are only marked deleted once they've been absent for
\* goneGrace": a file that waits in the inbox is not marked deleted.
WaitingNotMarkedDeleted ==
  [][ (\E n \in waiting : active[n] # Closed /\ active'[n] = Closed)
        => Clear \/ Restart \/ \E o \in Owners : Record(o) ]_vars

-----------------------------------------------------------------------------
\* What the source says and the code does not keep; no run checks it.

\* history.go:83, of arrivals: a session is opened for a file that waits.  The watcher's
\* snapshot can be older than a save: it then opens a second session for the
\* saved file, which goneGrace later is closed as deleted.
ArrivalsWait ==
  [][ \A n \in Names : (active[n] = Closed /\ active'[n] # Closed) => n \in waiting ]_vars
=============================================================================
