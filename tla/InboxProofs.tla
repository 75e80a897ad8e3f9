---------------------------- MODULE InboxProofs ----------------------------
(*****************************************************************************)
(* Theorems about the inbox: its types, and that a file which arrived waits, *)
(* was deleted by the owner or is whole in the folder, there once unless     *)
(* something failed, for any files, names, requests and events.              *)
(*                                                                           *)
(* A save keeps no hold of the file it opened: it deletes what waits under   *)
(* the name when the copy is done.  SaveCourse says that this is the file it *)
(* copied, as long as no two jobs were on their way for one name: from Open  *)
(* to Delete the opened file is the one that waits under the name.           *)
(*****************************************************************************)
EXTENDS Inbox, FiniteSetTheorems, TLAPS

Places == {"idle", "open", "create", "copy", "delete", "tell", "send"}
JobKind == [pc : Places, op : {"save", "delete"}, name : Names \cup {NoFile}, src : Sources,
            file : Files \cup {NoFile}, slot : Slots, snap : SUBSET Files]
WatchKind == [pc : {"poll", "announce", "status"}, snap : SUBSET Files, todo : SUBSET Files]
Feeds == {Other} \cup SUBSET Files

OnItsWay(j) == job[j].pc \in {"open", "create", "copy", "delete"}

\* The types.
Shape ==
  /\ waiting \subseteq arrived /\ arrived \subseteq Files
  /\ named \in [Files -> Names] /\ source \in [Files -> Sources]
  /\ folder \in [Names \X Slots -> Bytes \cup {NoFile}]
  /\ watch \in WatchKind
  /\ job \in [Jobs -> JobKind]
  /\ cool \subseteq Names /\ happened \subseteq Events

HubShape ==
  /\ queue \in Seq(Feeds) /\ Len(queue) <= Cap
  /\ last \in Feeds /\ feed \in {"closed", "joined", "open"} /\ view \subseteq Files

\* What a job knows at each of its steps.
Knows ==
  \A j \in Jobs :
    /\ job[j].pc = "idle" => job[j] = Idle
    /\ OnItsWay(j) => job[j].name \in Names
    /\ job[j].pc \in {"open", "create", "copy"} => job[j].op = "save"
    /\ job[j].pc = "create" => job[j].file \in arrived

Marked == \A n \in Names : n \in autosaving <=> job[n].pc # "idle"

OneOfAName ==
  \A f, g \in waiting : (named[f] = named[g] /\ source[f] = source[g]) => f = g

\* O_EXCL: the copy a job writes is its own, and not whole yet.
Writing ==
  /\ \A j \in Jobs : job[j].pc = "copy" =>
       folder[Copy(j)] \in Bytes /\ ~folder[Copy(j)].whole
  /\ \A j, k \in Jobs :
       (job[j].pc = "copy" /\ job[k].pc = "copy" /\ Copy(j) = Copy(k)) => j = k

Spots == Names \X Slots
OfArrived == \A c \in Spots : folder[c] # NoFile => folder[c].of \in arrived

\* What holds while no two jobs met on their way for one waiting name.
Alone ==
  \A j, k \in Jobs :
    (OnItsWay(j) /\ OnItsWay(k) /\ job[j].name = job[k].name /\ job[j].src = job[k].src) => j = k

Whole(f) == [of |-> f, whole |-> TRUE]
HasCopy(f) == \E c \in Spots : folder[c] = Whole(f)

\* What a job saves is what waits under the name.
Saves(j, f) == f \in waiting /\ named[f] = job[j].name /\ source[f] = job[j].src

SaveCourse ==
  \A j \in Jobs :
    /\ job[j].pc = "create" => Saves(j, job[j].file)
    /\ job[j].pc = "copy" => Saves(j, folder[Copy(j)].of)
    /\ (job[j].pc = "delete" /\ job[j].op = "save") =>
         \E f \in waiting : Saves(j, f) /\ HasCopy(f)

Accounted == \A f \in arrived : f \in waiting \cup discarded \/ HasCopy(f)

Kept == ~raced => Alone /\ SaveCourse /\ Accounted

\* Without a failure or a crash a file with a copy is about to leave the inbox.
Trouble == happened \cap {"fail", "crash"} # {}
Leaving(f) ==
  \E j \in Jobs : job[j].pc = "delete" /\ job[j].op = "save" /\ Saves(j, f)

OneCopy(f) == \A c, d \in Spots : (folder[c] = Whole(f) /\ folder[d] = Whole(f)) => c = d

CopiedOnce ==
  (~raced /\ ~Trouble) =>
    \A f \in Files : OneCopy(f) /\ ((f \in waiting /\ HasCopy(f)) => Leaving(f))

Course == Knows /\ OneOfAName /\ Writing /\ OfArrived /\ Kept /\ CopiedOnce

InboxInv == Shape /\ HubShape /\ Marked /\ Course

-----------------------------------------------------------------------------
(*****************************************************************************)
(* The records the steps build.                                              *)
(*****************************************************************************)
LEMMA SlotsAre == Slots \subseteq Nat /\ 0 \in Slots /\ NoFile \notin Files /\ NoFile \notin Bytes
BY InboxAssumption DEF Slots

LEMMA IdleIs ==
  /\ Idle \in JobKind /\ Idle.pc = "idle" /\ Idle.op = "save"
BY SlotsAre DEF Idle, JobKind, Places, Sources

LEMMA Moved ==
  ASSUME job \in [Jobs -> JobKind], NEW j \in Jobs, NEW r \in JobKind,
         job' = [job EXCEPT ![j] = r]
  PROVE  /\ job' \in [Jobs -> JobKind] /\ job'[j] = r
         /\ \A k \in Jobs : k # j => job'[k] = job[k]
OBVIOUS

\* A job that begins.
Beginning(op, n, s) == [Idle EXCEPT !.op = op, !.name = n, !.src = s,
                                    !.pc = IF op = "save" THEN "open" ELSE "delete"]

LEMMA Begun ==
  ASSUME NEW op \in {"save", "delete"}, NEW n \in Names, NEW s \in Sources
  PROVE  \E r \in JobKind :
           /\ r = Beginning(op, n, s)
           /\ r.pc = IF op = "save" THEN "open" ELSE "delete"
           /\ r.op = op /\ r.name = n /\ r.src = s
<1>1. LET r == Beginning(op, n, s)
      IN  /\ r \in JobKind
          /\ r.pc = IF op = "save" THEN "open" ELSE "delete"
          /\ r.op = op /\ r.name = n /\ r.src = s
  BY SlotsAre DEF Beginning, Idle, JobKind, Places, Sources
<1> QED
  BY <1>1

LEMMA Telling ==
  LET r == [Idle EXCEPT !.pc = "tell"] IN r \in JobKind /\ r.pc = "tell"
BY SlotsAre DEF Idle, JobKind, Places, Sources

LEMMA CopyIn ==
  ASSUME job \in [Jobs -> JobKind], NEW j \in Jobs, job[j].name \in Names
  PROVE  Copy(j) \in Spots
<1>1. job[j].slot \in Slots
  BY DEF JobKind
<1> QED
  BY <1>1 DEF Copy, Spots

LEMMA Unwhole ==
  ASSUME NEW f \in Files
  PROVE  /\ [of |-> f, whole |-> FALSE] \in Bytes /\ ~[of |-> f, whole |-> FALSE].whole
         /\ [of |-> f, whole |-> FALSE].of = f
         /\ Whole(f) \in Bytes /\ Whole(f).whole /\ Whole(f).of = f
BY DEF Bytes, Whole

LEMMA WholeIs ==
  ASSUME NEW b \in Bytes, b.whole PROVE b = Whole(b.of)
BY Zenon DEF Bytes, Whole

LEMMA MakeWhole ==
  ASSUME NEW b \in Bytes PROVE b.of \in Files /\ [b EXCEPT !.whole = TRUE] = Whole(b.of)
<1>1. /\ [b EXCEPT !.whole = TRUE] \in Bytes /\ b.of \in Files
      /\ [b EXCEPT !.whole = TRUE].of = b.of /\ [b EXCEPT !.whole = TRUE].whole
  BY DEF Bytes
<1>2. PICK e \in Bytes : e = [b EXCEPT !.whole = TRUE] /\ e.of = b.of /\ e.whole
  BY <1>1
<1> QED
  BY <1>1, <1>2, WholeIs

LEMMA MadeWhole ==
  ASSUME folder \in [Spots -> Bytes \cup {NoFile}], NEW c \in Spots, folder[c] \in Bytes,
         folder' = [folder EXCEPT ![c].whole = TRUE]
  PROVE  /\ folder' \in [Spots -> Bytes \cup {NoFile}]
         /\ folder'[c] = Whole(folder[c].of)
         /\ \A d \in Spots : d # c => folder'[d] = folder[d]
<1>1. [folder[c] EXCEPT !.whole = TRUE] = Whole(folder[c].of)
  BY MakeWhole
<1>2. Whole(folder[c].of) \in Bytes
  BY Unwhole DEF Bytes
<1>3. folder' = [folder EXCEPT ![c] = [folder[c] EXCEPT !.whole = TRUE]]
  OBVIOUS
<1>4. folder' = [folder EXCEPT ![c] = Whole(folder[c].of)]
  BY <1>1, <1>3, Zenon
<1> QED
  BY <1>2, <1>4

-----------------------------------------------------------------------------
(*****************************************************************************)
(* The course of a job: each kind of step keeps what is known of it.         *)
(*****************************************************************************)
Still(j) == \A k \in Jobs : k # j => job'[k] = job[k]

\* What is the same for a job that does not move.
LEMMA StaysPut ==
  ASSUME NEW j, Still(j)
  PROVE  \A k \in Jobs : k # j => /\ Copy(k)' = Copy(k) /\ (OnItsWay(k)' <=> OnItsWay(k))
                                  /\ job'[k] = job[k]
BY DEF Still, Copy, OnItsWay

\* A job that ends, is done with the file, or gives up: its copy, not whole yet, may
\* be removed.
Retires(j) ==
  /\ job'[j].pc \in {"idle", "tell", "send"}
  /\ job'[j].pc = "idle" => job'[j] = Idle
  /\ Still(j)

Withdraws(j) ==
  /\ job[j].pc = "copy"
  /\ folder'[Copy(j)] = NoFile
  /\ \A c \in Spots : c # Copy(j) => folder'[c] = folder[c]

LEMMA RetiresCourse ==
  ASSUME Shape, Course, NEW j \in Jobs, Retires(j),
         UNCHANGED <<waiting, arrived, named, source, discarded, raced>>,
         happened \subseteq happened',
         folder' = folder \/ Withdraws(j),
         job[j].pc = "delete" => Trouble'
  PROVE  Course'
<1>1. \A k \in Jobs : job'[k].pc \in {"open", "create", "copy", "delete"} =>
        k # j /\ job'[k] = job[k] /\ Copy(k)' = Copy(k)
  BY StaysPut DEF Retires
<1>2. \A k \in Jobs : OnItsWay(k)' => k # j /\ job'[k] = job[k] /\ OnItsWay(k)
  BY <1>1 DEF OnItsWay
<1>3. \A c \in Spots, f \in Files : folder'[c] = Whole(f) <=> folder[c] = Whole(f)
  <2>1. CASE folder' = folder
    BY <2>1
  <2>2. CASE Withdraws(j)
    <3>1. ~folder[Copy(j)].whole
      BY <2>2 DEF Withdraws, Course, Writing
    <3>2. \A f \in Files : Whole(f).whole /\ Whole(f) # NoFile
      BY Unwhole, SlotsAre
    <3> QED
      BY <2>2, <3>1, <3>2 DEF Withdraws
  <2> QED
    BY <2>1, <2>2
<1>4. \A f \in Files : HasCopy(f)' <=> HasCopy(f)
  BY <1>3 DEF HasCopy
<1>5. ASSUME NEW k \in Jobs, job'[k].pc = "copy" PROVE folder'[Copy(k)'] = folder[Copy(k)]
  <2>1. k # j /\ job[k].pc = "copy" /\ Copy(k)' = Copy(k)
    BY <1>1, <1>5
  <2>2. CASE Withdraws(j)
    <3>1. Copy(k) # Copy(j)
      BY <2>1, <2>2 DEF Withdraws, Course, Writing
    <3>2. Copy(k) \in Spots
      BY <2>1, CopyIn DEF Shape, Course, Knows, OnItsWay
    <3> QED
      BY <2>1, <2>2, <3>1, <3>2 DEF Withdraws
  <2> QED
    BY <2>1, <2>2
<1>6. waiting' = waiting /\ arrived' = arrived /\ named' = named /\ source' = source
      /\ discarded' = discarded /\ raced' = raced
  OBVIOUS
<1>7. Knows'
  <2> SUFFICES ASSUME NEW k \in Jobs
               PROVE  /\ job'[k].pc = "idle" => job'[k] = Idle
                      /\ OnItsWay(k)' => job'[k].name \in Names
                      /\ job'[k].pc \in {"open", "create", "copy"} => job'[k].op = "save"
                      /\ job'[k].pc = "create" => job'[k].file \in arrived'
    BY DEF Knows
  <2>1. k = j \/ job'[k] = job[k]
    BY DEF Retires, Still
  <2> QED
    BY <1>1, <1>2, <1>6, <2>1 DEF Course, Knows, Retires
<1>8. OneOfAName'
  BY <1>6 DEF Course, OneOfAName
<1>9. Writing'
  BY <1>1, <1>5 DEF Course, Writing
<1>10. OfArrived'
  <2>1. \A c \in Spots : folder'[c] # NoFile => folder'[c] = folder[c]
    BY DEF Withdraws
  <2> QED
    BY <1>6, <2>1 DEF Course, OfArrived
<1>11. Kept'
  <2> SUFFICES ASSUME ~raced' PROVE Alone' /\ SaveCourse' /\ Accounted'
    BY DEF Kept
  <2>1. Alone /\ SaveCourse /\ Accounted
    BY <1>6 DEF Course, Kept
  <2>2. Alone'
    BY <1>2, <2>1 DEF Alone
  <2>3. Accounted'
    <3>1. arrived \subseteq Files
      BY DEF Shape
    <3> QED
      BY <1>4, <1>6, <2>1, <3>1 DEF Accounted
  <2>4. SaveCourse'
    <3> SUFFICES ASSUME NEW k \in Jobs
                 PROVE  /\ job'[k].pc = "create" => Saves(k, job[k].file)'
                        /\ job'[k].pc = "copy" => Saves(k, folder[Copy(k)].of)'
                        /\ (job'[k].pc = "delete" /\ job'[k].op = "save") =>
                             \E f \in waiting' : Saves(k, f)' /\ HasCopy(f)'
      BY DEF SaveCourse
    <3>1. waiting \subseteq Files
      BY DEF Shape
    <3> QED
      BY <1>1, <1>4, <1>5, <1>6, <2>1, <3>1 DEF SaveCourse, Saves
  <2> QED
    BY <2>2, <2>3, <2>4
<1>12. CopiedOnce'
  <2> SUFFICES ASSUME ~raced', ~Trouble', NEW f \in Files
               PROVE  OneCopy(f)' /\ ((f \in waiting' /\ HasCopy(f)') => Leaving(f)')
    BY DEF CopiedOnce
  <2>1. ~raced /\ ~Trouble /\ job[j].pc # "delete"
    BY <1>6 DEF Trouble
  <2>2. OneCopy(f) /\ ((f \in waiting /\ HasCopy(f)) => Leaving(f))
    BY <2>1 DEF Course, CopiedOnce
  <2>3. OneCopy(f)'
    BY <1>3, <2>2 DEF OneCopy
  <2>4. ASSUME Leaving(f) PROVE Leaving(f)'
    <3>1. PICK k \in Jobs : job[k].pc = "delete" /\ job[k].op = "save" /\ Saves(k, f)
      BY <2>4 DEF Leaving
    <3>2. job'[k] = job[k]
      BY <2>1, <3>1 DEF Retires, Still
    <3>3. Saves(k, f)'
      BY <1>6, <3>1, <3>2 DEF Saves
    <3> QED
      BY <3>1, <3>2, <3>3 DEF Leaving
  <2> QED
    BY <1>4, <1>6, <2>2, <2>3, <2>4
<1> QED
  BY <1>7, <1>8, <1>9, <1>10, <1>11, <1>12 DEF Course

\* A job that begins; if another is on its way for the name, nothing more is claimed.
Begins(j) ==
  /\ job[j].pc = "idle" /\ job'[j].pc \in {"open", "delete"}
  /\ job'[j].name \in Names
  /\ job'[j].op = "save" <=> job'[j].pc = "open"
  /\ raced' = (raced \/ Racing(job'[j].name, job'[j].src))
  /\ Still(j)

LEMMA BeginsCourse ==
  ASSUME Shape, Course, NEW j \in Jobs, Begins(j),
         UNCHANGED <<waiting, arrived, named, source, discarded, folder>>,
         happened \subseteq happened'
  PROVE  Course'
<1>1. \A k \in Jobs : k # j => job'[k] = job[k] /\ Copy(k)' = Copy(k) /\ (OnItsWay(k)' <=> OnItsWay(k))
  BY StaysPut DEF Begins
<1>2. \A k \in Jobs : job'[k].pc \in {"create", "copy"} => k # j
  BY DEF Begins
<1>3. \A f \in Files : HasCopy(f)' <=> HasCopy(f)
  BY DEF HasCopy
<1>4. waiting' = waiting /\ arrived' = arrived /\ named' = named /\ source' = source
      /\ discarded' = discarded /\ folder' = folder /\ (~raced' => ~raced)
  BY DEF Begins
<1>5. Knows'
  <2> SUFFICES ASSUME NEW k \in Jobs
               PROVE  /\ job'[k].pc = "idle" => job'[k] = Idle
                      /\ OnItsWay(k)' => job'[k].name \in Names
                      /\ job'[k].pc \in {"open", "create", "copy"} => job'[k].op = "save"
                      /\ job'[k].pc = "create" => job'[k].file \in arrived'
    BY DEF Knows
  <2>1. CASE k = j
    BY <2>1 DEF Begins
  <2>2. CASE k # j
    BY <1>1, <1>4, <2>2 DEF Course, Knows
  <2> QED
    BY <2>1, <2>2
<1>6. OneOfAName'
  BY <1>4 DEF Course, OneOfAName
<1>7. Writing'
  BY <1>1, <1>2, <1>4 DEF Course, Writing
<1>8. OfArrived'
  BY <1>4 DEF Course, OfArrived
<1>9. Kept'
  <2> SUFFICES ASSUME ~raced' PROVE Alone' /\ SaveCourse' /\ Accounted'
    BY DEF Kept
  <2>1. Alone /\ SaveCourse /\ Accounted
    BY <1>4 DEF Course, Kept
  <2>2. Alone'
    <3>1. \A k \in Jobs : ~(/\ OnItsWay(k) /\ job[k].name = job'[j].name /\ job[k].src = job'[j].src)
      BY DEF Begins, Racing, OnItsWay
    <3>2. \A k \in Jobs : k # j => ~(/\ OnItsWay(k)' /\ job'[k].name = job'[j].name
                                     /\ job'[k].src = job'[j].src)
      BY <1>1, <3>1
    <3> QED
      BY <1>1, <2>1, <3>2 DEF Alone
  <2>3. Accounted'
    <3>1. arrived \subseteq Files
      BY DEF Shape
    <3> QED
      BY <1>3, <1>4, <2>1, <3>1 DEF Accounted
  <2>4. SaveCourse'
    <3> SUFFICES ASSUME NEW k \in Jobs
                 PROVE  /\ job'[k].pc = "create" => Saves(k, job[k].file)'
                        /\ job'[k].pc = "copy" => Saves(k, folder[Copy(k)].of)'
                        /\ (job'[k].pc = "delete" /\ job'[k].op = "save") =>
                             \E f \in waiting' : Saves(k, f)' /\ HasCopy(f)'
      BY DEF SaveCourse
    <3>1. CASE k = j
      BY <3>1 DEF Begins
    <3>2. CASE k # j
      <4>1. waiting \subseteq Files
        BY DEF Shape
      <4> QED
        BY <1>1, <1>3, <1>4, <2>1, <3>2, <4>1 DEF SaveCourse, Saves
    <3> QED
      BY <3>1, <3>2
  <2> QED
    BY <2>2, <2>3, <2>4
<1>10. CopiedOnce'
  <2> SUFFICES ASSUME ~raced', ~Trouble', NEW f \in Files
               PROVE  OneCopy(f)' /\ ((f \in waiting' /\ HasCopy(f)') => Leaving(f)')
    BY DEF CopiedOnce
  <2>1. ~raced /\ ~Trouble
    BY <1>4 DEF Trouble
  <2>2. OneCopy(f) /\ ((f \in waiting /\ HasCopy(f)) => Leaving(f))
    BY <2>1 DEF Course, CopiedOnce
  <2>3. OneCopy(f)'
    BY <1>4, <2>2 DEF OneCopy
  <2>4. ASSUME Leaving(f) PROVE Leaving(f)'
    <3>1. PICK k \in Jobs : job[k].pc = "delete" /\ job[k].op = "save" /\ Saves(k, f)
      BY <2>4 DEF Leaving
    <3>2. job'[k] = job[k]
      BY <1>1, <3>1 DEF Begins
    <3>3. Saves(k, f)'
      BY <1>4, <3>1, <3>2 DEF Saves
    <3> QED
      BY <3>1, <3>2, <3>3 DEF Leaving
  <2> QED
    BY <1>3, <1>4, <2>2, <2>3, <2>4
<1> QED
  BY <1>5, <1>6, <1>7, <1>8, <1>9, <1>10 DEF Course

\* A job whose file was opened.
Opens(j) ==
  /\ job[j].pc = "open" /\ job'[j].pc = "create"
  /\ job'[j].op = job[j].op /\ job'[j].name = job[j].name /\ job'[j].src = job[j].src
  /\ Saves(j, job'[j].file)
  /\ Still(j)

LEMMA OpensCourse ==
  ASSUME Shape, Course, NEW j \in Jobs, Opens(j),
         UNCHANGED <<waiting, arrived, named, source, discarded, folder, raced, happened>>
  PROVE  Course'
<1>1. \A k \in Jobs : k # j => job'[k] = job[k] /\ Copy(k)' = Copy(k) /\ (OnItsWay(k)' <=> OnItsWay(k))
  BY StaysPut DEF Opens
<1>2. OnItsWay(j) /\ OnItsWay(j)' /\ job'[j].name = job[j].name /\ job'[j].src = job[j].src
  BY DEF Opens, OnItsWay
<1>3. \A f \in Files : HasCopy(f)' <=> HasCopy(f)
  BY DEF HasCopy
<1>4. waiting' = waiting /\ arrived' = arrived /\ named' = named /\ source' = source
      /\ discarded' = discarded /\ folder' = folder /\ raced' = raced
  OBVIOUS
<1>5. Knows'
  <2> SUFFICES ASSUME NEW k \in Jobs
               PROVE  /\ job'[k].pc = "idle" => job'[k] = Idle
                      /\ OnItsWay(k)' => job'[k].name \in Names
                      /\ job'[k].pc \in {"open", "create", "copy"} => job'[k].op = "save"
                      /\ job'[k].pc = "create" => job'[k].file \in arrived'
    BY DEF Knows
  <2>1. CASE k = j
    <3>1. job'[j].file \in arrived /\ job[j].op = "save" /\ job[j].name \in Names
      BY <1>2 DEF Opens, Saves, Shape, Course, Knows
    <3> QED
      BY <1>4, <2>1, <3>1 DEF Opens
  <2>2. CASE k # j
    BY <1>1, <1>4, <2>2 DEF Course, Knows
  <2> QED
    BY <2>1, <2>2
<1>6. OneOfAName'
  BY <1>4 DEF Course, OneOfAName
<1>7. Writing'
  <2>1. \A k \in Jobs : job'[k].pc = "copy" => k # j
    BY DEF Opens
  <2> QED
    BY <1>1, <1>4, <2>1 DEF Course, Writing
<1>8. OfArrived'
  BY <1>4 DEF Course, OfArrived
<1>9. Kept'
  <2> SUFFICES ASSUME ~raced' PROVE Alone' /\ SaveCourse' /\ Accounted'
    BY DEF Kept
  <2>1. Alone /\ SaveCourse /\ Accounted
    BY <1>4 DEF Course, Kept
  <2>2. Alone'
    <3>1. \A k \in Jobs : (OnItsWay(k)' <=> OnItsWay(k)) /\ job'[k].name = job[k].name
                          /\ job'[k].src = job[k].src
      BY <1>1, <1>2
    <3> QED
      BY <2>1, <3>1 DEF Alone
  <2>3. Accounted'
    <3>1. arrived \subseteq Files
      BY DEF Shape
    <3> QED
      BY <1>3, <1>4, <2>1, <3>1 DEF Accounted
  <2>4. SaveCourse'
    <3> SUFFICES ASSUME NEW k \in Jobs
                 PROVE  /\ job'[k].pc = "create" => Saves(k, job[k].file)'
                        /\ job'[k].pc = "copy" => Saves(k, folder[Copy(k)].of)'
                        /\ (job'[k].pc = "delete" /\ job'[k].op = "save") =>
                             \E f \in waiting' : Saves(k, f)' /\ HasCopy(f)'
      BY DEF SaveCourse
    <3>1. CASE k = j
      <4>1. job'[j].pc = "create" /\ Saves(j, job[j].file)'
        BY <1>2, <1>4 DEF Opens, Saves
      <4> QED
        BY <3>1, <4>1
    <3>2. CASE k # j
      <4>1. waiting \subseteq Files
        BY DEF Shape
      <4> QED
        BY <1>1, <1>3, <1>4, <2>1, <3>2, <4>1 DEF SaveCourse, Saves
    <3> QED
      BY <3>1, <3>2
  <2> QED
    BY <2>2, <2>3, <2>4
<1>10. CopiedOnce'
  <2> SUFFICES ASSUME ~raced', ~Trouble', NEW f \in Files
               PROVE  OneCopy(f)' /\ ((f \in waiting' /\ HasCopy(f)') => Leaving(f)')
    BY DEF CopiedOnce
  <2>1. ~raced /\ ~Trouble
    BY <1>4 DEF Trouble
  <2>2. OneCopy(f) /\ ((f \in waiting /\ HasCopy(f)) => Leaving(f))
    BY <2>1 DEF Course, CopiedOnce
  <2>3. OneCopy(f)'
    BY <1>4, <2>2 DEF OneCopy
  <2>4. ASSUME Leaving(f) PROVE Leaving(f)'
    <3>1. PICK k \in Jobs : job[k].pc = "delete" /\ job[k].op = "save" /\ Saves(k, f)
      BY <2>4 DEF Leaving
    <3>2. job'[k] = job[k]
      BY <1>1, <3>1 DEF Opens
    <3>3. Saves(k, f)'
      BY <1>4, <3>1, <3>2 DEF Saves
    <3> QED
      BY <3>1, <3>2, <3>3 DEF Leaving
  <2> QED
    BY <1>3, <1>4, <2>2, <2>3, <2>4
<1> QED
  BY <1>5, <1>6, <1>7, <1>8, <1>9, <1>10 DEF Course

\* A job whose copy was created: nobody else writes it.
Creates(j) ==
  /\ job[j].pc = "create" /\ job'[j].pc = "copy"
  /\ job'[j].op = job[j].op /\ job'[j].name = job[j].name /\ job'[j].src = job[j].src
  /\ job'[j].slot = job[j].slot
  /\ folder[Copy(j)] = NoFile
  /\ folder'[Copy(j)] = [of |-> job[j].file, whole |-> FALSE]
  /\ \A c \in Spots : c # Copy(j) => folder'[c] = folder[c]
  /\ Still(j)

LEMMA CreatesCourse ==
  ASSUME Shape, Course, NEW j \in Jobs, Creates(j),
         UNCHANGED <<waiting, arrived, named, source, discarded, raced, happened>>
  PROVE  Course'
<1>1. \A k \in Jobs : k # j => job'[k] = job[k] /\ Copy(k)' = Copy(k) /\ (OnItsWay(k)' <=> OnItsWay(k))
  BY StaysPut DEF Creates
<1>2. /\ OnItsWay(j) /\ OnItsWay(j)' /\ job'[j].name = job[j].name /\ job'[j].src = job[j].src
      /\ Copy(j)' = Copy(j) /\ job[j].op = "save" /\ job[j].name \in Names /\ job[j].file \in arrived
  BY DEF Creates, OnItsWay, Copy, Course, Knows
<1>3. waiting' = waiting /\ arrived' = arrived /\ named' = named /\ source' = source
      /\ discarded' = discarded /\ raced' = raced /\ arrived \subseteq Files /\ waiting \subseteq Files
  BY DEF Shape
<1>4. Copy(j) \in Spots
  BY <1>2, CopyIn DEF Shape
<1>5. /\ folder'[Copy(j)] \in Bytes /\ ~folder'[Copy(j)].whole
      /\ folder'[Copy(j)].of = job[j].file
  BY <1>2, <1>3, Unwhole DEF Creates
<1>6. \A c \in Spots, f \in Files : folder'[c] = Whole(f) <=> folder[c] = Whole(f)
  <2>1. \A f \in Files : Whole(f).whole /\ Whole(f) # NoFile
    BY Unwhole, SlotsAre
  <2> QED
    BY <1>5, <2>1 DEF Creates
<1>7. \A f \in Files : HasCopy(f)' <=> HasCopy(f)
  BY <1>6 DEF HasCopy
\* No other job writes there.
<1>8. ASSUME NEW k \in Jobs, job[k].pc = "copy"
      PROVE  k # j /\ Copy(k) # Copy(j) /\ folder'[Copy(k)] = folder[Copy(k)]
  <2>1. k # j
    BY <1>8 DEF Creates
  <2>2. Copy(k) \in Spots
    BY <1>8, CopyIn DEF Shape, Course, Knows, OnItsWay
  <2>3. folder[Copy(k)] # NoFile
    BY <1>8, SlotsAre DEF Course, Writing
  <2> QED
    BY <2>1, <2>2, <2>3 DEF Creates
<1>9. Knows'
  <2> SUFFICES ASSUME NEW k \in Jobs
               PROVE  /\ job'[k].pc = "idle" => job'[k] = Idle
                      /\ OnItsWay(k)' => job'[k].name \in Names
                      /\ job'[k].pc \in {"open", "create", "copy"} => job'[k].op = "save"
                      /\ job'[k].pc = "create" => job'[k].file \in arrived'
    BY DEF Knows
  <2>1. CASE k = j
    BY <1>2, <2>1 DEF Creates
  <2>2. CASE k # j
    BY <1>1, <1>3, <2>2 DEF Course, Knows
  <2> QED
    BY <2>1, <2>2
<1>10. OneOfAName'
  BY <1>3 DEF Course, OneOfAName
<1>11. Writing'
  <2>1. ASSUME NEW k \in Jobs, job'[k].pc = "copy"
        PROVE  folder'[Copy(k)'] \in Bytes /\ ~folder'[Copy(k)'].whole
    <3>1. CASE k = j
      BY <1>2, <1>5, <3>1
    <3>2. CASE k # j
      <4>1. job[k].pc = "copy" /\ Copy(k)' = Copy(k)
        BY <1>1, <2>1, <3>2
      <4> QED
        BY <1>8, <4>1 DEF Course, Writing
    <3> QED
      BY <3>1, <3>2
  <2>2. ASSUME NEW i \in Jobs, NEW k \in Jobs, job'[i].pc = "copy", job'[k].pc = "copy",
               Copy(i)' = Copy(k)'
        PROVE  i = k
    <3>1. i # j => job[i].pc = "copy" /\ Copy(i)' = Copy(i) /\ Copy(i) # Copy(j)
      BY <1>1, <1>8, <2>2
    <3>2. k # j => job[k].pc = "copy" /\ Copy(k)' = Copy(k) /\ Copy(k) # Copy(j)
      BY <1>1, <1>8, <2>2
    <3>3. CASE i # j /\ k # j
      BY <2>2, <3>1, <3>2, <3>3 DEF Course, Writing
    <3> QED
      BY <1>2, <2>2, <3>1, <3>2, <3>3
  <2> QED
    BY <2>1, <2>2 DEF Writing
<1>12. OfArrived'
  BY <1>2, <1>3, <1>5 DEF Creates, Course, OfArrived
<1>13. Kept'
  <2> SUFFICES ASSUME ~raced' PROVE Alone' /\ SaveCourse' /\ Accounted'
    BY DEF Kept
  <2>1. Alone /\ SaveCourse /\ Accounted
    BY <1>3 DEF Course, Kept
  <2>2. Alone'
    <3>1. \A k \in Jobs : (OnItsWay(k)' <=> OnItsWay(k)) /\ job'[k].name = job[k].name
                          /\ job'[k].src = job[k].src
      BY <1>1, <1>2
    <3> QED
      BY <2>1, <3>1 DEF Alone
  <2>3. Accounted'
    BY <1>3, <1>7, <2>1 DEF Accounted
  <2>4. SaveCourse'
    <3> SUFFICES ASSUME NEW k \in Jobs
                 PROVE  /\ job'[k].pc = "create" => Saves(k, job[k].file)'
                        /\ job'[k].pc = "copy" => Saves(k, folder[Copy(k)].of)'
                        /\ (job'[k].pc = "delete" /\ job'[k].op = "save") =>
                             \E f \in waiting' : Saves(k, f)' /\ HasCopy(f)'
      BY DEF SaveCourse
    <3>1. CASE k = j
      <4>1. job'[j].pc = "copy" /\ Saves(j, job[j].file)
        BY <2>1 DEF Creates, SaveCourse
      <4>2. Saves(j, folder[Copy(j)].of)'
        BY <1>2, <1>3, <1>5, <4>1 DEF Saves
      <4> QED
        BY <3>1, <4>1, <4>2
    <3>2. CASE k # j
      BY <1>1, <1>3, <1>7, <1>8, <2>1, <3>2 DEF SaveCourse, Saves
    <3> QED
      BY <3>1, <3>2
  <2> QED
    BY <2>2, <2>3, <2>4
<1>14. CopiedOnce'
  <2> SUFFICES ASSUME ~raced', ~Trouble', NEW f \in Files
               PROVE  OneCopy(f)' /\ ((f \in waiting' /\ HasCopy(f)') => Leaving(f)')
    BY DEF CopiedOnce
  <2>1. ~raced /\ ~Trouble
    BY <1>3 DEF Trouble
  <2>2. OneCopy(f) /\ ((f \in waiting /\ HasCopy(f)) => Leaving(f))
    BY <2>1 DEF Course, CopiedOnce
  <2>3. OneCopy(f)'
    BY <1>6, <2>2 DEF OneCopy
  <2>4. ASSUME Leaving(f) PROVE Leaving(f)'
    <3>1. PICK k \in Jobs : job[k].pc = "delete" /\ job[k].op = "save" /\ Saves(k, f)
      BY <2>4 DEF Leaving
    <3>2. job'[k] = job[k]
      BY <1>1, <3>1 DEF Creates
    <3>3. Saves(k, f)'
      BY <1>3, <3>1, <3>2 DEF Saves
    <3> QED
      BY <3>1, <3>2, <3>3 DEF Leaving
  <2> QED
    BY <1>3, <1>7, <2>2, <2>3, <2>4
<1> QED
  BY <1>9, <1>10, <1>11, <1>12, <1>13, <1>14 DEF Course

\* A job whose copy is whole: it is the only copy, unless something failed before.
Copied(j) ==
  /\ job[j].pc = "copy" /\ job'[j].pc = "delete"
  /\ job'[j].op = job[j].op /\ job'[j].name = job[j].name /\ job'[j].src = job[j].src
  /\ folder'[Copy(j)] = Whole(folder[Copy(j)].of)
  /\ \A c \in Spots : c # Copy(j) => folder'[c] = folder[c]
  /\ Still(j)

LEMMA CopiedCourse ==
  ASSUME Shape, Course, NEW j \in Jobs, Copied(j),
         UNCHANGED <<waiting, arrived, named, source, discarded, raced, happened>>
  PROVE  Course'
<1>1. \A k \in Jobs : k # j => job'[k] = job[k] /\ Copy(k)' = Copy(k) /\ (OnItsWay(k)' <=> OnItsWay(k))
  BY StaysPut DEF Copied
<1>2. /\ OnItsWay(j) /\ OnItsWay(j)' /\ job'[j].name = job[j].name /\ job'[j].src = job[j].src
      /\ job[j].op = "save" /\ job[j].name \in Names
  BY DEF Copied, OnItsWay, Course, Knows
<1>3. waiting' = waiting /\ arrived' = arrived /\ named' = named /\ source' = source
      /\ discarded' = discarded /\ raced' = raced /\ arrived \subseteq Files /\ waiting \subseteq Files
  BY DEF Shape
<1>4. Copy(j) \in Spots
  BY <1>2, CopyIn DEF Shape
<1>5. PICK g \in Files :
        /\ folder[Copy(j)] \in Bytes /\ ~folder[Copy(j)].whole /\ folder[Copy(j)] # NoFile
        /\ g \in arrived /\ folder[Copy(j)].of = g /\ folder'[Copy(j)] = Whole(g)
  <2>1. folder[Copy(j)] \in Bytes /\ ~folder[Copy(j)].whole
    BY DEF Copied, Course, Writing
  <2>2. folder[Copy(j)] # NoFile
    BY <2>1, SlotsAre
  <2>3. folder[Copy(j)].of \in arrived
    BY <1>4, <2>2 DEF Course, OfArrived
  <2> QED
    BY <1>3, <2>1, <2>2, <2>3 DEF Copied
<1>6. \A f \in Files : folder[Copy(j)] # Whole(f)
  BY <1>5, Unwhole
<1>7. \A c \in Spots, f \in Files : folder'[c] = Whole(f) <=> folder[c] = Whole(f) \/ (c = Copy(j) /\ f = g)
  <2>1. \A f \in Files : Whole(g) = Whole(f) => f = g
    BY <1>5, Unwhole
  <2> QED
    BY <1>5, <1>6, <2>1 DEF Copied
<1>8. \A f \in Files : HasCopy(f)' <=> HasCopy(f) \/ f = g
  BY <1>4, <1>7 DEF HasCopy
<1>9. ASSUME NEW k \in Jobs, k # j, job[k].pc = "copy"
      PROVE  folder'[Copy(k)] = folder[Copy(k)]
  <2>1. Copy(k) \in Spots
    BY <1>9, CopyIn DEF Shape, Course, Knows, OnItsWay
  <2>2. Copy(k) # Copy(j)
    BY <1>9 DEF Copied, Course, Writing
  <2> QED
    BY <2>1, <2>2 DEF Copied
<1>10. Knows'
  <2> SUFFICES ASSUME NEW k \in Jobs
               PROVE  /\ job'[k].pc = "idle" => job'[k] = Idle
                      /\ OnItsWay(k)' => job'[k].name \in Names
                      /\ job'[k].pc \in {"open", "create", "copy"} => job'[k].op = "save"
                      /\ job'[k].pc = "create" => job'[k].file \in arrived'
    BY DEF Knows
  <2>1. CASE k = j
    BY <1>2, <2>1 DEF Copied
  <2>2. CASE k # j
    BY <1>1, <1>3, <2>2 DEF Course, Knows
  <2> QED
    BY <2>1, <2>2
<1>11. OneOfAName'
  BY <1>3 DEF Course, OneOfAName
<1>12. Writing'
  <2>1. \A k \in Jobs : job'[k].pc = "copy" =>
          k # j /\ job[k].pc = "copy" /\ Copy(k)' = Copy(k) /\ folder'[Copy(k)] = folder[Copy(k)]
    BY <1>1, <1>9 DEF Copied
  <2> QED
    BY <2>1 DEF Course, Writing
<1>13. OfArrived'
  <2>1. Whole(g).of = g
    BY <1>5, Unwhole
  <2> QED
    BY <1>3, <1>5, <2>1 DEF Copied, Course, OfArrived
<1>14. Kept'
  <2> SUFFICES ASSUME ~raced' PROVE Alone' /\ SaveCourse' /\ Accounted'
    BY DEF Kept
  <2>1. Alone /\ SaveCourse /\ Accounted
    BY <1>3 DEF Course, Kept
  <2>2. Alone'
    <3>1. \A k \in Jobs : (OnItsWay(k)' <=> OnItsWay(k)) /\ job'[k].name = job[k].name
                          /\ job'[k].src = job[k].src
      BY <1>1, <1>2
    <3> QED
      BY <2>1, <3>1 DEF Alone
  <2>3. Accounted'
    BY <1>3, <1>8, <2>1 DEF Accounted
  <2>4. SaveCourse'
    <3> SUFFICES ASSUME NEW k \in Jobs
                 PROVE  /\ job'[k].pc = "create" => Saves(k, job[k].file)'
                        /\ job'[k].pc = "copy" => Saves(k, folder[Copy(k)].of)'
                        /\ (job'[k].pc = "delete" /\ job'[k].op = "save") =>
                             \E f \in waiting' : Saves(k, f)' /\ HasCopy(f)'
      BY DEF SaveCourse
    <3>1. CASE k = j
      <4>1. job'[j].pc = "delete" /\ Saves(j, g)
        BY <1>5, <2>1 DEF Copied, SaveCourse
      <4>2. Saves(j, g)' /\ g \in waiting'
        BY <1>2, <1>3, <4>1 DEF Saves
      <4>3. HasCopy(g)'
        BY <1>5, <1>8
      <4> QED
        BY <3>1, <4>1, <4>2, <4>3
    <3>2. CASE k # j
      BY <1>1, <1>3, <1>8, <1>9, <2>1, <3>2 DEF SaveCourse, Saves
    <3> QED
      BY <3>1, <3>2
  <2> QED
    BY <2>2, <2>3, <2>4
<1>15. CopiedOnce'
  <2> SUFFICES ASSUME ~raced', ~Trouble', NEW f \in Files
               PROVE  OneCopy(f)' /\ ((f \in waiting' /\ HasCopy(f)') => Leaving(f)')
    BY DEF CopiedOnce
  <2>1. ~raced /\ ~Trouble
    BY <1>3 DEF Trouble
  <2>2. OneCopy(f) /\ ((f \in waiting /\ HasCopy(f)) => Leaving(f))
    BY <2>1 DEF Course, CopiedOnce
  <2>3. Saves(j, g) /\ Alone
    BY <1>5, <2>1 DEF Copied, Course, Kept, SaveCourse
  <2>4. ~HasCopy(g)
    <3> SUFFICES ASSUME HasCopy(g) PROVE FALSE
      OBVIOUS
    <3>1. Leaving(g)
      BY <1>5, <2>1, <2>3 DEF Course, CopiedOnce, Saves
    <3>2. PICK k \in Jobs : job[k].pc = "delete" /\ Saves(k, g)
      BY <3>1 DEF Leaving
    <3>3. k = j
      BY <1>2, <2>3, <3>2 DEF Saves, Alone, OnItsWay
    <3> QED
      BY <3>2, <3>3 DEF Copied
  <2>5. OneCopy(f)'
    <3>1. CASE f = g
      <4>1. \A c \in Spots : folder'[c] = Whole(f) => c = Copy(j)
        BY <1>7, <2>4, <3>1 DEF HasCopy
      <4> QED
        BY <4>1 DEF OneCopy
    <3>2. CASE f # g
      BY <1>7, <2>2, <3>2 DEF OneCopy
    <3> QED
      BY <3>1, <3>2
  <2>6. ASSUME f \in waiting, HasCopy(f) \/ f = g PROVE Leaving(f)'
    <3>1. CASE f = g
      <4>1. Saves(j, f)' /\ job'[j].pc = "delete" /\ job'[j].op = "save"
        BY <1>2, <1>3, <2>3, <3>1 DEF Copied, Saves
      <4> QED
        BY <4>1 DEF Leaving
    <3>2. CASE f # g
      <4>1. Leaving(f)
        BY <2>2, <2>6, <3>2
      <4>2. PICK k \in Jobs : job[k].pc = "delete" /\ job[k].op = "save" /\ Saves(k, f)
        BY <4>1 DEF Leaving
      <4>3. job'[k] = job[k]
        BY <1>1, <4>2 DEF Copied
      <4>4. Saves(k, f)'
        BY <1>3, <4>2, <4>3 DEF Saves
      <4> QED
        BY <4>2, <4>3, <4>4 DEF Leaving
    <3> QED
      BY <3>1, <3>2
  <2> QED
    BY <1>3, <1>8, <2>5, <2>6
<1> QED
  BY <1>10, <1>11, <1>12, <1>13, <1>14, <1>15 DEF Course

\* A job that deletes what waits under its name: the file it saved, if it saves.
Deletes(j) ==
  /\ job[j].pc = "delete" /\ Retires(j)
  /\ \A f \in Files : f \in waiting' <=> f \in waiting /\ ~Saves(j, f)
  /\ waiting' \subseteq waiting /\ discarded \subseteq discarded'
  /\ job[j].op = "delete" => \A f \in waiting : Saves(j, f) => f \in discarded'

LEMMA DeletesCourse ==
  ASSUME Shape, Course, NEW j \in Jobs, Deletes(j),
         UNCHANGED <<arrived, named, source, folder, raced, happened>>
  PROVE  Course'
<1>1. \A k \in Jobs : job'[k].pc \in {"open", "create", "copy", "delete"} =>
        k # j /\ job'[k] = job[k] /\ Copy(k)' = Copy(k)
  BY StaysPut DEF Deletes, Retires
<1>2. \A k \in Jobs : OnItsWay(k)' => k # j /\ job'[k] = job[k] /\ OnItsWay(k)
  BY <1>1 DEF OnItsWay
<1>3. arrived' = arrived /\ named' = named /\ source' = source /\ folder' = folder
      /\ raced' = raced /\ arrived \subseteq Files /\ waiting \subseteq arrived
  BY DEF Shape
<1>4. \A f \in Files : HasCopy(f)' <=> HasCopy(f)
  BY <1>3 DEF HasCopy
<1>5. OnItsWay(j)
  BY DEF Deletes, OnItsWay
<1>6. Knows'
  <2> SUFFICES ASSUME NEW k \in Jobs
               PROVE  /\ job'[k].pc = "idle" => job'[k] = Idle
                      /\ OnItsWay(k)' => job'[k].name \in Names
                      /\ job'[k].pc \in {"open", "create", "copy"} => job'[k].op = "save"
                      /\ job'[k].pc = "create" => job'[k].file \in arrived'
    BY DEF Knows
  <2>1. k = j \/ job'[k] = job[k]
    BY DEF Deletes, Retires, Still
  <2> QED
    BY <1>1, <1>2, <1>3, <2>1 DEF Course, Knows, Deletes, Retires
<1>7. OneOfAName'
  BY <1>3 DEF Course, OneOfAName, Deletes
<1>8. Writing'
  BY <1>1, <1>3 DEF Course, Writing
<1>9. OfArrived'
  BY <1>3 DEF Course, OfArrived
\* What another job saves stays.
<1>10. ASSUME Alone, NEW k \in Jobs, OnItsWay(k), k # j, NEW f \in waiting, Saves(k, f)
       PROVE  f \in waiting'
  <2>1. ~Saves(j, f)
    BY <1>5, <1>10 DEF Alone, Saves
  <2> QED
    BY <1>3, <2>1 DEF Deletes
<1>11. Kept'
  <2> SUFFICES ASSUME ~raced' PROVE Alone' /\ SaveCourse' /\ Accounted'
    BY DEF Kept
  <2>1. Alone /\ SaveCourse /\ Accounted
    BY <1>3 DEF Course, Kept
  <2>2. Alone'
    BY <1>2, <2>1 DEF Alone
  <2>3. Accounted'
    <3> SUFFICES ASSUME NEW f \in arrived PROVE f \in waiting' \cup discarded' \/ HasCopy(f)'
      BY <1>3 DEF Accounted
    <3>1. CASE f \in waiting /\ Saves(j, f)
      <4>1. CASE job[j].op = "delete"
        BY <3>1, <4>1 DEF Deletes
      <4>2. CASE job[j].op = "save"
        <5>1. PICK g \in waiting : Saves(j, g) /\ HasCopy(g)
          BY <2>1, <4>2 DEF Deletes, SaveCourse
        <5>2. g = f
          BY <3>1, <5>1 DEF Course, OneOfAName, Saves
        <5> QED
          BY <1>3, <1>4, <5>1, <5>2
      <4>3. job[j].op \in {"save", "delete"}
        BY DEF Shape, JobKind
      <4> QED
        BY <4>1, <4>2, <4>3
    <3>2. CASE ~(f \in waiting /\ Saves(j, f))
      BY <1>3, <1>4, <2>1, <3>2 DEF Accounted, Deletes
    <3> QED
      BY <3>1, <3>2
  <2>4. SaveCourse'
    <3> SUFFICES ASSUME NEW k \in Jobs, OnItsWay(k)'
                 PROVE  /\ job'[k].pc = "create" => Saves(k, job[k].file)'
                        /\ job'[k].pc = "copy" => Saves(k, folder[Copy(k)].of)'
                        /\ (job'[k].pc = "delete" /\ job'[k].op = "save") =>
                             \E f \in waiting' : Saves(k, f)' /\ HasCopy(f)'
      BY DEF SaveCourse, OnItsWay
    <3>1. k # j /\ job'[k] = job[k] /\ OnItsWay(k)
      BY <1>2
    <3>2. \A f : Saves(k, f) => f \in waiting /\ f \in waiting' /\ f \in Files
      BY <1>3, <1>10, <2>1, <3>1 DEF Saves
    <3>3. \A f : Saves(k, f) => Saves(k, f)'
      BY <1>3, <3>1, <3>2 DEF Saves
    <3>4. CASE job'[k].pc = "create"
      <4>1. Saves(k, job[k].file) /\ job'[k].file = job[k].file
        BY <2>1, <3>1, <3>4 DEF SaveCourse
      <4> QED
        BY <1>3, <3>1, <3>2, <3>4, <4>1 DEF Saves
    <3>5. CASE job'[k].pc = "copy"
      <4>1. Saves(k, folder[Copy(k)].of) /\ Copy(k)' = Copy(k)
        BY <1>1, <2>1, <3>1, <3>5 DEF SaveCourse
      <4> QED
        BY <1>3, <3>1, <3>2, <3>5, <4>1 DEF Saves
    <3>6. CASE job'[k].pc = "delete" /\ job'[k].op = "save"
      <4>1. PICK f \in waiting : Saves(k, f) /\ HasCopy(f)
        BY <2>1, <3>1, <3>6 DEF SaveCourse
      <4>2. f \in waiting' /\ Saves(k, f)' /\ HasCopy(f)'
        BY <1>4, <3>2, <3>3, <4>1
      <4> QED
        BY <3>6, <4>2
    <3> QED
      BY <3>4, <3>5, <3>6
  <2> QED
    BY <2>2, <2>3, <2>4
<1>12. CopiedOnce'
  <2> SUFFICES ASSUME ~raced', ~Trouble', NEW f \in Files
               PROVE  OneCopy(f)' /\ ((f \in waiting' /\ HasCopy(f)') => Leaving(f)')
    BY DEF CopiedOnce
  <2>1. ~raced /\ ~Trouble
    BY <1>3 DEF Trouble
  <2>2. OneCopy(f) /\ ((f \in waiting /\ HasCopy(f)) => Leaving(f))
    BY <2>1 DEF Course, CopiedOnce
  <2>3. OneCopy(f)'
    BY <1>3, <2>2 DEF OneCopy
  <2>4. ASSUME f \in waiting', HasCopy(f) PROVE Leaving(f)'
    <3>1. f \in waiting /\ ~Saves(j, f)
      BY <2>4 DEF Deletes
    <3>2. PICK k \in Jobs : job[k].pc = "delete" /\ job[k].op = "save" /\ Saves(k, f)
      BY <2>2, <2>4, <3>1 DEF Leaving
    <3>3. job'[k] = job[k]
      BY <3>1, <3>2 DEF Deletes, Retires, Still
    <3>4. Saves(k, f)'
      BY <1>3, <2>4, <3>2, <3>3 DEF Saves
    <3> QED
      BY <3>2, <3>3, <3>4 DEF Leaving
  <2> QED
    BY <1>4, <2>3, <2>4
<1> QED
  BY <1>6, <1>7, <1>8, <1>9, <1>11, <1>12 DEF Course

\* A file comes under a free name.
LEMMA ArriveCourse ==
  ASSUME Shape, Course, NEW g \in Files, Arrive(g) PROVE Course'
<1>1. /\ g \notin arrived /\ waiting' = waiting \cup {g} /\ arrived' = arrived \cup {g}
      /\ \A f \in waiting : ~(named[f] = named[g] /\ source[f] = source[g])
      /\ named' = named /\ source' = source /\ folder' = folder /\ job' = job
      /\ discarded' = discarded /\ raced' = raced /\ happened' = happened
  BY DEF Arrive, At
<1>2. waiting \subseteq arrived /\ arrived \subseteq Files
  BY DEF Shape
<1>3. \A f \in Files : HasCopy(f)' <=> HasCopy(f)
  BY <1>1 DEF HasCopy
<1>4. \A k \in Jobs : Copy(k)' = Copy(k) /\ (OnItsWay(k)' <=> OnItsWay(k))
  BY <1>1 DEF Copy, OnItsWay
<1>5. Knows'
  BY <1>1, <1>4 DEF Course, Knows
<1>6. OneOfAName'
  BY <1>1 DEF Course, OneOfAName
<1>7. Writing'
  BY <1>1, <1>4 DEF Course, Writing
<1>8. OfArrived'
  BY <1>1 DEF Course, OfArrived
<1>9. \A k \in Jobs : \A f : Saves(k, f) => f \in waiting' /\ f \in Files /\ Saves(k, f)'
  BY <1>1, <1>2 DEF Saves
<1>10. Kept'
  <2> SUFFICES ASSUME ~raced' PROVE Alone' /\ SaveCourse' /\ Accounted'
    BY DEF Kept
  <2>1. Alone /\ SaveCourse /\ Accounted
    BY <1>1 DEF Course, Kept
  <2>2. Alone'
    BY <1>1, <1>4, <2>1 DEF Alone
  <2>3. Accounted'
    BY <1>1, <1>2, <1>3, <2>1 DEF Accounted
  <2>4. SaveCourse'
    BY <1>1, <1>2, <1>3, <1>4, <2>1 DEF SaveCourse, Saves
  <2> QED
    BY <2>2, <2>3, <2>4
<1>11. ~HasCopy(g)
  <2> SUFFICES ASSUME NEW c \in Spots, folder[c] = Whole(g) PROVE FALSE
    BY DEF HasCopy
  <2>1. Whole(g) # NoFile /\ Whole(g).of = g
    BY Unwhole, SlotsAre
  <2> QED
    BY <1>1, <2>1 DEF Course, OfArrived
<1>12. CopiedOnce'
  <2> SUFFICES ASSUME ~raced', ~Trouble', NEW f \in Files
               PROVE  OneCopy(f)' /\ ((f \in waiting' /\ HasCopy(f)') => Leaving(f)')
    BY DEF CopiedOnce
  <2>1. ~raced /\ ~Trouble
    BY <1>1 DEF Trouble
  <2>2. OneCopy(f) /\ ((f \in waiting /\ HasCopy(f)) => Leaving(f))
    BY <2>1 DEF Course, CopiedOnce
  <2>3. OneCopy(f)'
    BY <1>1, <2>2 DEF OneCopy
  <2>4. ASSUME Leaving(f) PROVE Leaving(f)'
    BY <1>1, <1>9, <2>4 DEF Leaving
  <2> QED
    BY <1>1, <1>3, <1>11, <2>2, <2>3, <2>4
<1> QED
  BY <1>5, <1>6, <1>7, <1>8, <1>10, <1>12 DEF Course

\* After a crash nobody saves, and copies may be left over.
LEMMA RestartCourse ==
  ASSUME Shape, Course, \A k \in Jobs : job'[k] = Idle, Trouble',
         UNCHANGED <<waiting, arrived, named, source, folder, discarded, raced>>
  PROVE  Course'
<1>1. \A k \in Jobs : job'[k].pc = "idle" /\ ~OnItsWay(k)'
  BY IdleIs DEF OnItsWay
<1>2. \A f \in Files : HasCopy(f)' <=> HasCopy(f)
  BY DEF HasCopy
<1>3. Knows' /\ Alone' /\ SaveCourse'
  BY <1>1 DEF Knows, Alone, SaveCourse
<1>4. OneOfAName' /\ OfArrived'
  BY DEF Course, OneOfAName, OfArrived
<1>5. Writing'
  BY <1>1 DEF Writing
<1>6. Kept'
  <2>1. arrived \subseteq Files
    BY DEF Shape
  <2>2. ~raced' => Accounted'
    BY <1>2, <2>1 DEF Course, Kept, Accounted
  <2> QED
    BY <1>3, <2>2 DEF Kept
<1>7. CopiedOnce'
  BY DEF CopiedOnce
<1> QED
  BY <1>3, <1>4, <1>5, <1>6, <1>7 DEF Course

\* A step that is not about jobs.
LEMMA ApartCourse ==
  ASSUME Course, UNCHANGED <<waiting, arrived, named, source, folder, job, discarded, raced>>,
         happened \subseteq happened'
  PROVE  Course'
<1>1. waiting' = waiting /\ arrived' = arrived /\ named' = named /\ source' = source
      /\ folder' = folder /\ job' = job /\ discarded' = discarded /\ raced' = raced
  OBVIOUS
<1>2. Knows' /\ OneOfAName' /\ OfArrived'
  BY <1>1 DEF Course, Knows, OnItsWay, OneOfAName, OfArrived
<1>3. Writing'
  BY <1>1 DEF Course, Writing, Copy
<1>4. Kept'
  BY <1>1 DEF Course, Kept, Alone, SaveCourse, Accounted, Saves, HasCopy, OnItsWay, Copy
<1>5. Trouble => Trouble'
  BY DEF Trouble
<1>6. CopiedOnce'
  BY <1>1, <1>5 DEF Course, CopiedOnce, OneCopy, HasCopy, Leaving, Saves
<1> QED
  BY <1>2, <1>3, <1>4, <1>6 DEF Course
-----------------------------------------------------------------------------
(*****************************************************************************)
(* The hub: what is queued, remembered and shown is an event.                *)
(*****************************************************************************)
LEMMA Offered ==
  ASSUME NEW q \in Seq(Feeds), Len(q) <= Cap, NEW e \in Feeds
  PROVE  Offer(q, e) \in Seq(Feeds) /\ Len(Offer(q, e)) <= Cap
<1>1. Cap \in Nat /\ Len(q) \in Nat
  BY InboxAssumption
<1>2. Append(q, e) \in Seq(Feeds) /\ Len(Append(q, e)) = Len(q) + 1
  BY DEF Feeds
<1> QED
  BY <1>1, <1>2 DEF Offer

LEMMA BroadcastShape ==
  ASSUME HubShape, NEW e \in Feeds, Broadcast(e) PROVE HubShape'
<1>1. Latest(e, last) \in Feeds
  BY DEF HubShape, Latest
<1>2. Offer(queue, e) \in Seq(Feeds) /\ Len(Offer(queue, e)) <= Cap
  BY Offered DEF HubShape
<1> QED
  BY <1>1, <1>2 DEF HubShape, Broadcast

LEMMA SameHub == HubShape /\ UNCHANGED hub => HubShape'
BY DEF HubShape, hub

LEMMA ReportShape ==
  ASSUME HubShape, NEW j, Report(j) PROVE HubShape'
BY BroadcastShape, SameHub DEF Report, Feeds

LEMMA PageShape ==
  ASSUME HubShape, Page \/ Disconnect PROVE HubShape'
<1>1. ASSUME NEW e \in Feeds PROVE Shown(e) \subseteq Files
  BY <1>1 DEF Shown, HubShape, Feeds
<1>2. CASE Subscribe \/ Replay
  BY <1>1, <1>2 DEF Subscribe, Replay, HubShape
<1>3. CASE Read
  <2>1. Head(queue) \in Feeds /\ Tail(queue) \in Seq(Feeds) /\ Len(Tail(queue)) <= Cap
    <3>1. queue \in Seq(Feeds) /\ queue # <<>> /\ Len(queue) <= Cap /\ Len(queue) \in Nat /\ Cap \in Nat
      BY <1>3, InboxAssumption DEF Read, HubShape
    <3>2. Len(Tail(queue)) = Len(queue) - 1
      BY <3>1
    <3> QED
      BY <3>1, <3>2
  <2> QED
    BY <1>1, <1>3, <2>1 DEF Read, HubShape
<1>4. CASE Disconnect
  <2>1. <<>> \in Seq(Feeds) /\ Len(<<>>) <= Cap
    BY InboxAssumption
  <2> QED
    BY <1>4, <2>1 DEF Disconnect, HubShape
<1> QED
  BY <1>2, <1>3, <1>4 DEF Page

LEMMA HubShapeStep ==
  ASSUME InboxInv, [Next]_vars PROVE HubShape'
<1> USE DEF InboxInv
<1>1. ASSUME NEW j \in Jobs, Step(j) \/ Fail(j) PROVE HubShape'
  <2>1. CASE Send(j)
    <3>1. job[j].snap \in Feeds
      BY DEF Shape, JobKind, Feeds
    <3> QED
      BY <2>1, <3>1, BroadcastShape DEF Send
  <2>2. CASE Open(j) \/ Create(j)
    BY <2>2, ReportShape, SameHub DEF Open, Create
  <2>3. CASE CopyAll(j) \/ Delete(j) \/ Fail(j)
    BY <2>3, ReportShape DEF CopyAll, Delete, Fail
  <2>4. CASE Tell(j)
    BY <2>4, SameHub DEF Tell
  <2> QED
    BY <1>1, <2>1, <2>2, <2>3, <2>4 DEF Step
<1>2. ASSUME Watcher \/ PollFails PROVE HubShape'
  <2>1. watch.snap \in Feeds /\ Other \in Feeds
    BY DEF Shape, WatchKind, Feeds
  <2>2. CASE Announce \/ AnnounceStatus
    BY <2>1, <2>2, BroadcastShape DEF Announce, AnnounceStatus
  <2>3. CASE PollFails
    BY <2>1, <2>3, BroadcastShape DEF PollFails
  <2>4. CASE Poll \/ \E f \in Files : Consider(f)
    BY <2>4, SameHub DEF Poll, Consider
  <2> QED
    BY <1>2, <2>2, <2>3, <2>4 DEF Watcher
<1>3. ASSUME Restart PROVE HubShape'
  <2>1. <<>> \in Seq(Feeds) /\ Len(<<>>) <= Cap /\ Other \in Feeds
    BY InboxAssumption DEF Feeds
  <2> QED
    BY <1>3, <2>1 DEF Restart, HubShape
<1>4. ASSUME Listen \/ Drop PROVE HubShape'
  BY <1>4, PageShape DEF Listen, Drop
<1>5. ASSUME \/ \E f \in Files : Arrive(f)
             \/ \E r \in Requests, op \in {"save", "delete"}, n \in Names, s \in Sources :
                  Request(r, op, n, s)
             \/ \E n \in Names : CoolDown(n)
             \/ Switch
             \/ UNCHANGED vars
      PROVE  HubShape'
  BY <1>5, SameHub DEF Arrive, Request, CoolDown, Switch, vars
<1> QED
  BY <1>1, <1>2, <1>3, <1>4, <1>5 DEF Next
-----------------------------------------------------------------------------
(*****************************************************************************)
(* Each action, as one of the steps above.                                   *)
(*****************************************************************************)
\* Among numbers there is a least one.
LEMMA Least ==
  ASSUME NEW S, S \subseteq Nat, S # {}
  PROVE  \E k \in S : \A j \in S : k <= j
<1> DEFINE Below == {0..j : j \in S}
<1>1. Below \subseteq FiniteSubsetsOf(Nat) /\ Below # {}
  <2>1. \A j \in S : IsFiniteSet(0..j) /\ 0..j \in SUBSET Nat
    BY FS_Interval
  <2> QED
    BY <2>1 DEF FiniteSubsetsOf
<1>2. \E x \in Below : \A y \in Below : ~ (<<y, x>> \in StrictSubsetOrdering(Nat))
  <2> HIDE DEF Below
  <2> QED
    BY <1>1, FS_StrictSubsetOrderingWellFounded, WFMin
<1>3. PICK k \in S : \A j \in S : ~ (<<0..j, 0..k>> \in StrictSubsetOrdering(Nat))
  BY <1>2
<1>4. ASSUME NEW j \in S, j < k PROVE FALSE
  <2>1. /\ 0..j \in SUBSET Nat /\ 0..k \in SUBSET Nat /\ 0..j \subseteq 0..k
        /\ k \in 0..k /\ k \notin 0..j
    BY <1>4
  <2> QED
    BY <1>3, <2>1 DEF StrictSubsetOrdering
<1> QED
  BY <1>4

\* conflictFreeName: the name it picks is one of those that are free.
LEMMA FreeName ==
  ASSUME NEW n, Free(n) # {} PROVE FirstFree(n) \in Free(n) /\ FirstFree(n) \in Slots
<1>1. Free(n) \subseteq Slots /\ Free(n) \subseteq Nat
  BY SlotsAre DEF Free
<1>2. \E i \in Free(n) : \A k \in Free(n) : i <= k
  BY <1>1, Least
<1>3. FirstFree(n) \in Free(n)
  BY <1>2 DEF FirstFree
<1> QED
  BY <1>1, <1>3

Rest == Shape /\ Marked /\ Course

\* A job that returns.
LEMMA Ended ==
  ASSUME Shape, Marked, NEW j \in Jobs, NEW ok, End(j, ok)
  PROVE  Retires(j) /\ job' \in [Jobs -> JobKind] /\ cool' \subseteq Names /\ Marked'
<1>1. job \in [Jobs -> JobKind] /\ job' = [job EXCEPT ![j] = Idle] /\ Idle \in JobKind
  BY IdleIs DEF End, Shape
<1>2. job' \in [Jobs -> JobKind] /\ job'[j] = Idle /\ \A k \in Jobs : k # j => job'[k] = job[k]
  BY <1>1, Moved
<1>3. Retires(j)
  BY <1>2, IdleIs DEF Retires, Still
<1>4. Marked'
  <2> SUFFICES ASSUME NEW n \in Names PROVE n \in autosaving' <=> job'[n].pc # "idle"
    BY DEF Marked
  <2>1. n \in Jobs
    BY DEF Jobs
  <2>2. autosaving' = autosaving \ {j}
    BY DEF End
  <2>3. CASE n = j
    BY <1>2, <2>2, <2>3, IdleIs
  <2>4. CASE n # j
    BY <1>2, <2>1, <2>2, <2>4 DEF Marked
  <2> QED
    BY <2>3, <2>4
<1>5. cool' \subseteq Names
  BY DEF End, Shape
<1> QED
  BY <1>2, <1>3, <1>4, <1>5

\* A job that goes on to its next step.
LEMMA KeepsMark ==
  ASSUME Marked, NEW j \in Jobs, job[j].pc # "idle", job'[j].pc # "idle", Still(j),
         autosaving' = autosaving
  PROVE  Marked'
<1> SUFFICES ASSUME NEW n \in Names PROVE n \in autosaving' <=> job'[n].pc # "idle"
  BY DEF Marked
<1>1. n \in Jobs
  BY DEF Jobs
<1> QED
  BY <1>1 DEF Marked, Still

LEMMA SameTypes ==
  ASSUME Shape, UNCHANGED <<waiting, arrived, named, source, folder, watch>>,
         job' \in [Jobs -> JobKind], cool' \subseteq Names, happened' \subseteq Events
  PROVE  Shape'
BY DEF Shape

LEMMA ArriveRest ==
  ASSUME Rest, NEW g \in Files, Arrive(g) PROVE Rest'
<1>1. Course'
  BY ArriveCourse DEF Rest
<1>2. Shape' /\ Marked'
  BY DEF Arrive, Rest, Shape, Marked
<1> QED
  BY <1>1, <1>2 DEF Rest

\* A job that begins.
LEMMA Started ==
  ASSUME Shape, NEW j \in Jobs, NEW op \in {"save", "delete"}, NEW n \in Names,
         NEW s \in Sources, Start(j, op, n, s)
  PROVE  Begins(j) /\ job' \in [Jobs -> JobKind]
<1>0. job' = [job EXCEPT ![j] = Beginning(op, n, s)]
  BY Zenon DEF Start, Beginning
<1>1. PICK r \in JobKind :
        /\ job' = [job EXCEPT ![j] = r]
        /\ r.pc = IF op = "save" THEN "open" ELSE "delete"
        /\ r.op = op /\ r.name = n /\ r.src = s
  <2>1. PICK r \in JobKind :
          /\ r = Beginning(op, n, s)
          /\ r.pc = IF op = "save" THEN "open" ELSE "delete"
          /\ r.op = op /\ r.name = n /\ r.src = s
    BY Begun
  <2>2. job' = [job EXCEPT ![j] = r]
    BY <1>0, <2>1, Zenon
  <2> QED
    BY <2>1, <2>2
<1>2. job' \in [Jobs -> JobKind] /\ job'[j] = r /\ \A k \in Jobs : k # j => job'[k] = job[k]
  BY <1>1, Moved DEF Shape
<1>3. job[j].pc = "idle" /\ raced' = (raced \/ Racing(n, s))
  BY IdleIs, Zenon DEF Start
<1> QED
  BY <1>1, <1>2, <1>3 DEF Begins, Still

LEMMA RequestRest ==
  ASSUME Rest, NEW r \in Requests, NEW op \in {"save", "delete"}, NEW n \in Names,
         NEW s \in Sources, Request(r, op, n, s)
  PROVE  Rest'
<1> USE DEF Rest
<1>1. r \in Jobs /\ \A m \in Names : m \in Jobs /\ m # r
  BY InboxAssumption DEF Jobs
<1>2. Begins(r) /\ job' \in [Jobs -> JobKind]
  BY <1>1, Started DEF Request
<1>3. UNCHANGED <<waiting, arrived, named, source, discarded, folder, watch, autosaving, cool>>
  BY DEF Request, files
<1>4. happened \subseteq happened' /\ happened' \subseteq Events
  BY DEF Request, Once, Shape, Events
<1>5. Course'
  BY <1>1, <1>2, <1>3, <1>4, BeginsCourse
<1>6. Marked'
  BY <1>1, <1>2, <1>3 DEF Marked, Begins, Still
<1>7. Shape'
  <2>1. cool' \subseteq Names
    BY <1>3 DEF Shape
  <2> QED
    BY <1>2, <1>3, <1>4, <2>1, SameTypes
<1> QED
  BY <1>5, <1>6, <1>7
\* One field of one job is set.
LEMMA SetPc ==
  ASSUME NEW a \in [Jobs -> JobKind], NEW j \in Jobs, NEW p \in Places, NEW b,
         b = [a EXCEPT ![j].pc = p]
  PROVE  /\ b \in [Jobs -> JobKind] /\ \A k \in Jobs : k # j => b[k] = a[k]
         /\ b[j].op = a[j].op /\ b[j].name = a[j].name /\ b[j].src = a[j].src
         /\ b[j].pc = p /\ b[j].file = a[j].file /\ b[j].slot = a[j].slot
<1>1. a[j] \in JobKind
  OBVIOUS
<1> QED
  BY <1>1 DEF JobKind

LEMMA SetFile ==
  ASSUME NEW a \in [Jobs -> JobKind], NEW j \in Jobs, NEW f \in Files \cup {NoFile}, NEW b,
         b = [a EXCEPT ![j].file = f]
  PROVE  /\ b \in [Jobs -> JobKind] /\ \A k \in Jobs : k # j => b[k] = a[k]
         /\ b[j].op = a[j].op /\ b[j].name = a[j].name /\ b[j].src = a[j].src
         /\ b[j].pc = a[j].pc /\ b[j].file = f /\ b[j].slot = a[j].slot
<1>1. a[j] \in JobKind
  OBVIOUS
<1> QED
  BY <1>1 DEF JobKind

LEMMA SetSlot ==
  ASSUME NEW a \in [Jobs -> JobKind], NEW j \in Jobs, NEW i \in Slots, NEW b,
         b = [a EXCEPT ![j].slot = i]
  PROVE  /\ b \in [Jobs -> JobKind] /\ \A k \in Jobs : k # j => b[k] = a[k]
         /\ b[j].op = a[j].op /\ b[j].name = a[j].name /\ b[j].src = a[j].src
         /\ b[j].pc = a[j].pc /\ b[j].file = a[j].file
<1>1. a[j] \in JobKind
  OBVIOUS
<1> QED
  BY <1>1 DEF JobKind

LEMMA Opening ==
  ASSUME job \in [Jobs -> JobKind], NEW j \in Jobs, NEW f \in Files, NEW i \in Slots,
         job' = [job EXCEPT ![j].pc = "create", ![j].file = f, ![j].slot = i]
  PROVE  /\ job' \in [Jobs -> JobKind] /\ Still(j) /\ job'[j].pc = "create"
         /\ job'[j].op = job[j].op /\ job'[j].name = job[j].name /\ job'[j].src = job[j].src
         /\ job'[j].file = f
<1>1. "create" \in Places
  BY DEF Places
<1>2. PICK a : a = [job EXCEPT ![j].pc = "create"]
  OBVIOUS
<1>3. /\ a \in [Jobs -> JobKind] /\ \A k \in Jobs : k # j => a[k] = job[k]
      /\ a[j].pc = "create" /\ a[j].op = job[j].op /\ a[j].name = job[j].name /\ a[j].src = job[j].src
  BY <1>1, <1>2, SetPc
<1>4. PICK b : b = [a EXCEPT ![j].file = f]
  OBVIOUS
<1>5. /\ b \in [Jobs -> JobKind] /\ \A k \in Jobs : k # j => b[k] = a[k]
      /\ b[j].pc = a[j].pc /\ b[j].op = a[j].op /\ b[j].name = a[j].name
      /\ b[j].src = a[j].src /\ b[j].file = f
  BY <1>3, <1>4, SetFile
<1>6. PICK c : c = [b EXCEPT ![j].slot = i]
  OBVIOUS
<1>7. /\ c \in [Jobs -> JobKind] /\ \A k \in Jobs : k # j => c[k] = b[k]
      /\ c[j].pc = b[j].pc /\ c[j].op = b[j].op /\ c[j].name = b[j].name
      /\ c[j].src = b[j].src /\ c[j].file = b[j].file
  BY <1>5, <1>6, SetSlot
<1>8. job' = c
  BY <1>2, <1>4, <1>6, Zenon
<1> QED
  BY <1>3, <1>5, <1>7, <1>8 DEF Still
LEMMA Creating ==
  ASSUME job \in [Jobs -> JobKind], NEW j \in Jobs,
         job' = [job EXCEPT ![j].pc = "copy", ![j].file = NoFile]
  PROVE  /\ job' \in [Jobs -> JobKind] /\ Still(j) /\ job'[j].pc = "copy"
         /\ job'[j].op = job[j].op /\ job'[j].name = job[j].name /\ job'[j].src = job[j].src
         /\ job'[j].slot = job[j].slot
<1>1. "copy" \in Places
  BY DEF Places
<1>2. PICK a : a = [job EXCEPT ![j].pc = "copy"]
  OBVIOUS
<1>3. /\ a \in [Jobs -> JobKind] /\ \A k \in Jobs : k # j => a[k] = job[k]
      /\ a[j].pc = "copy" /\ a[j].op = job[j].op /\ a[j].name = job[j].name /\ a[j].src = job[j].src
      /\ a[j].slot = job[j].slot
  BY <1>1, <1>2, SetPc
<1>4. PICK b : b = [a EXCEPT ![j].file = NoFile]
  OBVIOUS
<1>5. /\ b \in [Jobs -> JobKind] /\ \A k \in Jobs : k # j => b[k] = a[k]
      /\ b[j].pc = a[j].pc /\ b[j].op = a[j].op /\ b[j].name = a[j].name
      /\ b[j].src = a[j].src /\ b[j].slot = a[j].slot
  BY <1>3, <1>4, SetFile, SlotsAre
<1>6. job' = b
  BY <1>2, <1>4, Zenon
<1> QED
  BY <1>3, <1>5, <1>6 DEF Still

LEMMA Copying ==
  ASSUME job \in [Jobs -> JobKind], NEW j \in Jobs,
         job' = [job EXCEPT ![j].pc = "delete", ![j].slot = 0]
  PROVE  /\ job' \in [Jobs -> JobKind] /\ Still(j) /\ job'[j].pc = "delete"
         /\ job'[j].op = job[j].op /\ job'[j].name = job[j].name /\ job'[j].src = job[j].src
<1>1. "delete" \in Places /\ 0 \in Slots
  BY SlotsAre DEF Places
<1>2. PICK a : a = [job EXCEPT ![j].pc = "delete"]
  OBVIOUS
<1>3. /\ a \in [Jobs -> JobKind] /\ \A k \in Jobs : k # j => a[k] = job[k]
      /\ a[j].pc = "delete" /\ a[j].op = job[j].op /\ a[j].name = job[j].name
      /\ a[j].src = job[j].src
  BY <1>1, <1>2, SetPc
<1>4. PICK b : b = [a EXCEPT ![j].slot = 0]
  OBVIOUS
<1>5. /\ b \in [Jobs -> JobKind] /\ \A k \in Jobs : k # j => b[k] = a[k]
      /\ b[j].pc = a[j].pc /\ b[j].op = a[j].op /\ b[j].name = a[j].name
      /\ b[j].src = a[j].src
  BY <1>1, <1>3, <1>4, SetSlot
<1>6. job' = b
  BY <1>2, <1>4, Zenon
<1> QED
  BY <1>3, <1>5, <1>6 DEF Still

LEMMA Fetching ==
  ASSUME job \in [Jobs -> JobKind], NEW j \in Jobs, waiting \subseteq Files,
         job' = [job EXCEPT ![j].pc = "send", ![j].snap = waiting]
  PROVE  job' \in [Jobs -> JobKind] /\ Still(j) /\ job'[j].pc = "send"
<1>1. "send" \in Places
  BY DEF Places
<1>2. PICK a : a = [job EXCEPT ![j].pc = "send"]
  OBVIOUS
<1>3. /\ a \in [Jobs -> JobKind] /\ \A k \in Jobs : k # j => a[k] = job[k]
      /\ a[j].pc = "send"
  BY <1>1, <1>2, SetPc
<1>4. PICK b : b = [a EXCEPT ![j].snap = waiting]
  OBVIOUS
<1>5. /\ b \in [Jobs -> JobKind] /\ \A k \in Jobs : k # j => b[k] = a[k]
      /\ b[j].pc = a[j].pc
  <2>1. PICK w : w = waiting
    OBVIOUS
  <2>2. PICK r : r = [a[j] EXCEPT !.snap = w]
    OBVIOUS
  <2>3. w \subseteq Files /\ a[j] \in JobKind
    BY <1>3, <2>1
  <2>4. r \in JobKind /\ r.pc = a[j].pc
    BY <2>2, <2>3 DEF JobKind
  <2>5. b = [a EXCEPT ![j] = r]
    BY <1>4, <2>1, <2>2
  <2> QED
    BY <1>3, <2>4, <2>5
<1>6. job' = b
  BY <1>2, <1>4, Zenon
<1> QED
  BY <1>3, <1>5, <1>6 DEF Still

\* A job that returns leaves the rest of what is known as it is.
LEMMA EndRest ==
  ASSUME Rest, NEW j \in Jobs, NEW ok, End(j, ok),
         UNCHANGED <<files, watch, discarded, raced>>,
         happened \subseteq happened', happened' \subseteq Events,
         folder' = folder \/ Withdraws(j),
         folder' \in [Names \X Slots -> Bytes \cup {NoFile}],
         job[j].pc = "delete" => Trouble'
  PROVE  Rest'
<1> USE DEF Rest
<1>1. Retires(j) /\ job' \in [Jobs -> JobKind] /\ cool' \subseteq Names /\ Marked'
  BY Ended
<1>2. UNCHANGED <<waiting, arrived, named, source>>
  BY DEF files
<1>3. Course'
  BY <1>1, <1>2, RetiresCourse
<1>4. Shape'
  BY <1>1, <1>2 DEF Shape
<1> QED
  BY <1>1, <1>3, <1>4

LEMMA OpenRest ==
  ASSUME Rest, NEW j \in Jobs, Open(j) PROVE Rest'
<1> USE DEF Rest
<1>1. UNCHANGED <<files, waiting, arrived, named, source, folder, watch, happened, discarded, raced>>
      /\ job[j].pc = "open"
  BY DEF Open, files
<1>2. happened \subseteq happened' /\ happened' \subseteq Events
      /\ folder' \in [Names \X Slots -> Bytes \cup {NoFile}]
  BY <1>1 DEF Shape
<1>3. CASE End(j, FALSE)
  BY <1>1, <1>2, <1>3, EndRest
<1>4. CASE ~End(j, FALSE)
  <2>1. /\ Free(job[j].name) # {} /\ UNCHANGED <<autosaving, cool>>
        /\ \E f \in At(job[j].name, job[j].src) :
              job' = [job EXCEPT ![j].pc = "create", ![j].file = f,
                                 ![j].slot = FirstFree(job[j].name)]
    BY <1>4, Zenon DEF Open
  <2>2. PICK f \in At(job[j].name, job[j].src) :
              job' = [job EXCEPT ![j].pc = "create", ![j].file = f,
                                 ![j].slot = FirstFree(job[j].name)]
    BY <2>1, Zenon
  <2>3. FirstFree(job[j].name) \in Slots
    BY <2>1, FreeName
  <2>4. f \in waiting /\ f \in Files /\ named[f] = job[j].name /\ source[f] = job[j].src
    BY DEF At, Shape
  <2>5. job \in [Jobs -> JobKind]
    BY DEF Shape
  <2>6. /\ job' \in [Jobs -> JobKind] /\ Still(j) /\ job'[j].pc = "create"
        /\ job'[j].op = job[j].op /\ job'[j].name = job[j].name /\ job'[j].src = job[j].src
        /\ job'[j].file = f
    BY <2>2, <2>3, <2>4, <2>5, Opening
  <2>7. Opens(j)
    BY <1>1, <2>4, <2>6 DEF Opens, Saves
  <2>8. Course'
    BY <1>1, <2>7, OpensCourse
  <2>9. Marked'
    BY <1>1, <2>1, <2>6, KeepsMark
  <2>10. Shape'
    BY <1>1, <1>2, <2>1, <2>6 DEF Shape
  <2> QED
    BY <2>8, <2>9, <2>10
<1> QED
  BY <1>3, <1>4
LEMMA CreateRest ==
  ASSUME Rest, NEW j \in Jobs, Create(j) PROVE Rest'
<1> USE DEF Rest
<1>1. UNCHANGED <<files, waiting, arrived, named, source, watch, happened, discarded, raced>>
      /\ job[j].pc = "create"
  BY DEF Create, files
<1>2. happened \subseteq happened' /\ happened' \subseteq Events
      /\ folder \in [Names \X Slots -> Bytes \cup {NoFile}] /\ job \in [Jobs -> JobKind]
  BY <1>1 DEF Shape
<1>3. CASE End(j, FALSE) /\ UNCHANGED folder
  BY <1>1, <1>2, <1>3, EndRest
<1>4. CASE ~(End(j, FALSE) /\ UNCHANGED folder)
  <2>1. /\ folder[Copy(j)] = NoFile /\ UNCHANGED <<autosaving, cool>>
        /\ folder' = [folder EXCEPT ![Copy(j)] = [of |-> job[j].file, whole |-> FALSE]]
        /\ job' = [job EXCEPT ![j].pc = "copy", ![j].file = NoFile]
    BY <1>4, Zenon DEF Create
  <2>2. /\ job' \in [Jobs -> JobKind] /\ Still(j) /\ job'[j].pc = "copy"
        /\ job'[j].op = job[j].op /\ job'[j].name = job[j].name /\ job'[j].src = job[j].src
        /\ job'[j].slot = job[j].slot
    BY <1>2, <2>1, Creating
  <2>3. job[j].name \in Names /\ job[j].file \in Files
    BY <1>1 DEF Course, Knows, OnItsWay, Shape
  <2>4. PICK b \in Bytes : b = [of |-> job[j].file, whole |-> FALSE]
    BY <2>3, Unwhole
  <2>5. Copy(j) \in Spots
    BY <1>2, <2>3, CopyIn
  <2>6. folder' = [folder EXCEPT ![Copy(j)] = b]
    BY <2>1, <2>4, Zenon
  <2>7. /\ folder' \in [Names \X Slots -> Bytes \cup {NoFile}] /\ folder'[Copy(j)] = b
        /\ \A c \in Spots : c # Copy(j) => folder'[c] = folder[c]
    BY <1>2, <2>5, <2>6 DEF Spots
  <2>8. folder'[Copy(j)] = [of |-> job[j].file, whole |-> FALSE]
    BY <2>4, <2>7, Zenon
  <2>9. Creates(j)
    BY <1>1, <2>1, <2>2, <2>7, <2>8 DEF Creates
  <2>10. Course'
    BY <1>1, <2>9, CreatesCourse
  <2>11. Marked'
    BY <1>1, <2>1, <2>2, KeepsMark
  <2>12. Shape'
    BY <1>1, <1>2, <2>1, <2>2, <2>7 DEF Shape
  <2> QED
    BY <2>10, <2>11, <2>12
<1> QED
  BY <1>3, <1>4

LEMMA CopyAllRest ==
  ASSUME Rest, NEW j \in Jobs, CopyAll(j) PROVE Rest'
<1> USE DEF Rest
<1>1. /\ UNCHANGED <<files, waiting, arrived, named, source, watch, happened, discarded, raced,
                     autosaving, cool>>
      /\ job[j].pc = "copy"
      /\ folder' = [folder EXCEPT ![Copy(j)].whole = TRUE]
      /\ job' = [job EXCEPT ![j].pc = "delete", ![j].slot = 0]
  BY DEF CopyAll, files
<1>2. folder \in [Spots -> Bytes \cup {NoFile}] /\ job \in [Jobs -> JobKind]
  BY DEF Shape, Spots
<1>3. /\ job' \in [Jobs -> JobKind] /\ Still(j) /\ job'[j].pc = "delete"
      /\ job'[j].op = job[j].op /\ job'[j].name = job[j].name /\ job'[j].src = job[j].src
  BY <1>1, <1>2, Copying
<1>4. Copy(j) \in Spots /\ folder[Copy(j)] \in Bytes
  <2>1. job[j].name \in Names
    BY <1>1 DEF Course, Knows, OnItsWay
  <2> QED
    BY <1>1, <1>2, <2>1, CopyIn DEF Course, Writing
<1>5. /\ folder' \in [Spots -> Bytes \cup {NoFile}]
      /\ folder'[Copy(j)] = Whole(folder[Copy(j)].of)
      /\ \A d \in Spots : d # Copy(j) => folder'[d] = folder[d]
  BY <1>1, <1>2, <1>4, MadeWhole
<1>6. Copied(j)
  BY <1>1, <1>3, <1>5 DEF Copied
<1>7. Course'
  BY <1>1, <1>6, CopiedCourse
<1>8. Marked'
  BY <1>1, <1>3, KeepsMark
<1>9. Shape'
  BY <1>1, <1>3, <1>5 DEF Shape, Spots
<1> QED
  BY <1>7, <1>8, <1>9

LEMMA FailRest ==
  ASSUME Rest, NEW j \in Jobs, Fail(j) PROVE Rest'
<1> USE DEF Rest
<1>1. /\ UNCHANGED <<files, watch, discarded, raced>> /\ End(j, FALSE)
      /\ happened \subseteq happened' /\ happened' \subseteq Events /\ Trouble'
  BY DEF Fail, Once, Shape, Events, Trouble
<1>2. folder \in [Spots -> Bytes \cup {NoFile}] /\ job \in [Jobs -> JobKind]
  BY DEF Shape, Spots
<1>3. (folder' = folder \/ Withdraws(j)) /\ folder' \in [Spots -> Bytes \cup {NoFile}]
  <2>1. CASE UNCHANGED folder
    BY <1>2, <2>1
  <2>2. CASE ~UNCHANGED folder
    <3>1. job[j].pc = "copy" /\ folder' = [folder EXCEPT ![Copy(j)] = NoFile]
      BY <2>2 DEF Fail
    <3>2. Copy(j) \in Spots
      BY <1>2, <3>1, CopyIn DEF Course, Knows, OnItsWay
    <3> QED
      BY <1>2, <3>1, <3>2 DEF Withdraws
  <2> QED
    BY <2>1, <2>2
<1> QED
  BY <1>1, <1>3, EndRest DEF Spots

LEMMA DeleteRest ==
  ASSUME Rest, NEW j \in Jobs, Delete(j) PROVE Rest'
<1> USE DEF Rest
<1>1. /\ UNCHANGED <<named, source, arrived, folder, watch, happened, raced>>
      /\ job[j].pc = "delete"
      /\ waiting' = waiting \ At(job[j].name, job[j].src)
      /\ discarded' = IF job[j].op = "delete" THEN discarded \cup At(job[j].name, job[j].src)
                      ELSE discarded
      /\ \/ job' = [job EXCEPT ![j] = [Idle EXCEPT !.pc = "tell"]] /\ UNCHANGED <<autosaving, cool>>
         \/ End(j, At(job[j].name, job[j].src) # {} \/ job[j].src = "daemon" \/ job[j].op = "save")
  BY Zenon DEF Delete
<1>2. Retires(j) /\ job' \in [Jobs -> JobKind] /\ cool' \subseteq Names /\ Marked'
  <2>1. CASE job' = [job EXCEPT ![j] = [Idle EXCEPT !.pc = "tell"]] /\ UNCHANGED <<autosaving, cool>>
    <3>1. PICK r \in JobKind : r = [Idle EXCEPT !.pc = "tell"] /\ r.pc = "tell"
      BY Telling
    <3>2. job' = [job EXCEPT ![j] = r]
      BY <2>1, <3>1, Zenon
    <3>3. job' \in [Jobs -> JobKind] /\ job'[j].pc = "tell" /\ Still(j)
      BY <3>1, <3>2, Moved DEF Shape, Still
    <3> QED
      BY <1>1, <2>1, <3>3, KeepsMark DEF Retires, Shape
  <2>2. CASE End(j, At(job[j].name, job[j].src) # {} \/ job[j].src = "daemon" \/ job[j].op = "save")
    BY <2>2, Ended
  <2> QED
    BY <1>1, <2>1, <2>2
<1>3. waiting' \subseteq waiting /\ waiting \subseteq Files /\ waiting \subseteq arrived
  BY <1>1 DEF Shape
<1>4. Deletes(j)
  <2>1. \A f \in Files : f \in waiting' <=> f \in waiting /\ ~Saves(j, f)
    BY <1>1 DEF At, Saves
  <2>2. discarded \subseteq discarded' /\ (job[j].op = "delete" => \A f \in waiting : Saves(j, f) => f \in discarded')
    BY <1>1 DEF At, Saves
  <2> QED
    BY <1>1, <1>2, <1>3, <2>1, <2>2 DEF Deletes
<1>5. Course'
  BY <1>1, <1>4, DeletesCourse
<1>6. Shape'
  BY <1>1, <1>2, <1>3 DEF Shape
<1> QED
  BY <1>2, <1>5, <1>6

LEMMA TellRest ==
  ASSUME Rest, NEW j \in Jobs, Tell(j) \/ Send(j) PROVE Rest'
<1> USE DEF Rest
<1>1. UNCHANGED <<files, waiting, arrived, named, source, folder, watch, discarded, raced>>
      /\ job[j].pc \in {"tell", "send"}
  BY DEF Tell, Send, files
<1>2. happened \subseteq happened' /\ happened' \subseteq Events
      /\ folder' \in [Names \X Slots -> Bytes \cup {NoFile}]
  BY <1>1 DEF Shape, Tell, Send, Once, Events
<1>3. CASE End(j, TRUE)
  BY <1>1, <1>2, <1>3, EndRest
<1>4. CASE ~End(j, TRUE)
  <2>1. job' = [job EXCEPT ![j].pc = "send", ![j].snap = waiting] /\ UNCHANGED <<autosaving, cool>>
    BY <1>4, Zenon DEF Tell, Send
  <2>2. job \in [Jobs -> JobKind] /\ waiting \subseteq Files
    BY DEF Shape
  <2>3. job' \in [Jobs -> JobKind] /\ Still(j) /\ job'[j].pc = "send"
    BY <2>1, <2>2, Fetching
  <2>4. Retires(j)
    BY <2>3 DEF Retires
  <2>5. Course'
    BY <1>1, <1>2, <2>4, RetiresCourse
  <2>6. Marked'
    BY <1>1, <2>1, <2>3, KeepsMark
  <2>7. Shape'
    BY <1>1, <1>2, <2>1, <2>3 DEF Shape
  <2> QED
    BY <2>5, <2>6, <2>7
<1> QED
  BY <1>3, <1>4
\* What the watcher notes is a set of files.
LEMMA Watching ==
  ASSUME NEW w \in WatchKind, NEW s, s \subseteq Files
  PROVE  /\ [w EXCEPT !.pc = "announce", !.snap = s] \in WatchKind
         /\ [w EXCEPT !.pc = "status"] \in WatchKind
         /\ [w EXCEPT !.pc = "poll", !.todo = s, !.snap = {}] \in WatchKind
         /\ [w EXCEPT !.todo = s] \in WatchKind
BY DEF WatchKind

LEMMA WatchShape ==
  ASSUME Rest, UNCHANGED <<files, folder, cool>>, happened' \subseteq Events,
         job' \in [Jobs -> JobKind],
         \/ watch' = watch
         \/ watch' = [watch EXCEPT !.pc = "announce", !.snap = waiting]
         \/ watch' = [watch EXCEPT !.pc = "status"]
         \/ watch' = [watch EXCEPT !.pc = "poll", !.todo = watch.snap, !.snap = {}]
         \/ \E f \in Files : watch' = [watch EXCEPT !.todo = @ \ {f}]
  PROVE  Shape'
<1> USE DEF Rest
<1>1. watch' \in WatchKind
  <2>1. PICK w \in WatchKind : w = watch
    BY DEF Shape
  <2>2. w.snap \subseteq Files /\ w.todo \subseteq Files
    BY <2>1 DEF WatchKind
  <2>3. PICK s : s = waiting
    OBVIOUS
  <2>4. s \subseteq Files
    BY <2>3 DEF Shape
  <2>5. CASE watch' = watch
    BY <2>1, <2>5
  <2>6. CASE watch' = [watch EXCEPT !.pc = "announce", !.snap = waiting]
    <3>1. watch' = [w EXCEPT !.pc = "announce", !.snap = s]
      BY <2>1, <2>3, <2>6, Zenon
    <3> QED
      BY <2>4, <3>1, Watching
  <2>9. CASE watch' = [watch EXCEPT !.pc = "status"]
    BY <2>1, <2>9, Watching
  <2>7. CASE watch' = [watch EXCEPT !.pc = "poll", !.todo = watch.snap, !.snap = {}]
    <3>1. PICK t : t = w.snap
      OBVIOUS
    <3>2. watch' = [w EXCEPT !.pc = "poll", !.todo = t, !.snap = {}]
      BY <2>1, <2>7, <3>1, Zenon
    <3> QED
      BY <2>2, <3>1, <3>2, Watching
  <2>8. CASE \E f \in Files : watch' = [watch EXCEPT !.todo = @ \ {f}]
    <3>1. PICK f \in Files : watch' = [watch EXCEPT !.todo = @ \ {f}]
      BY <2>8
    <3>2. PICK t : t = w.todo \ {f}
      OBVIOUS
    <3>3. watch' = [w EXCEPT !.todo = t] /\ t \subseteq Files
      BY <2>1, <2>2, <3>1, <3>2
    <3> QED
      BY <3>3, Watching
  <2> QED
    BY <2>5, <2>6, <2>7, <2>8, <2>9
<1> QED
  BY <1>1 DEF Shape, files

LEMMA ConsiderRest ==
  ASSUME Rest, NEW f \in Files, Consider(f) PROVE Rest'
<1> USE DEF Rest
<1>1. /\ UNCHANGED <<files, waiting, arrived, named, source, folder, discarded, happened, cool>>
      /\ watch' = [watch EXCEPT !.todo = @ \ {f}]
  BY DEF Consider, files
<1>2. happened' \subseteq Events /\ named[f] \in Names /\ source[f] \in Sources /\ named[f] \in Jobs
  BY <1>1 DEF Shape, Jobs
<1>3. CASE Start(named[f], "save", named[f], source[f]) /\ autosaving' = autosaving \cup {named[f]}
  <2>1. Begins(named[f]) /\ job' \in [Jobs -> JobKind]
    BY <1>2, <1>3, Started
  <2>2. Course'
    BY <1>1, <1>2, <2>1, BeginsCourse
  <2>3. Marked'
    <3> SUFFICES ASSUME NEW n \in Names PROVE n \in autosaving' <=> job'[n].pc # "idle"
      BY DEF Marked
    <3>1. n \in Jobs
      BY DEF Jobs
    <3> QED
      BY <1>3, <2>1, <3>1 DEF Marked, Begins, Still
  <2>4. Shape'
    BY <1>1, <1>2, <2>1, WatchShape
  <2> QED
    BY <2>2, <2>3, <2>4
<1>4. CASE UNCHANGED <<job, autosaving, raced>>
  <2>1. Course'
    BY <1>1, <1>4, ApartCourse
  <2>2. Marked'
    BY <1>4 DEF Marked
  <2>3. job' \in [Jobs -> JobKind]
    BY <1>4 DEF Shape
  <2>4. Shape'
    BY <1>1, <1>2, <2>3, WatchShape
  <2> QED
    BY <2>1, <2>2, <2>4
<1> QED
  BY <1>3, <1>4 DEF Consider

LEMMA RestartRest ==
  ASSUME Rest, Restart PROVE Rest'
<1> USE DEF Rest
<1>1. /\ UNCHANGED <<waiting, arrived, named, source, folder, discarded, raced>>
      /\ watch' = [pc |-> "poll", snap |-> {}, todo |-> {}]
      /\ job' = [j \in Jobs |-> Idle] /\ autosaving' = {} /\ cool' = {}
      /\ happened' \subseteq Events /\ Trouble'
  BY DEF Restart, files, Once, Shape, Events, Trouble
<1>2. job' \in [Jobs -> JobKind] /\ \A k \in Jobs : job'[k] = Idle
  BY <1>1, IdleIs
<1>3. Course'
  BY <1>1, <1>2, RestartCourse
<1>4. Marked'
  BY <1>1, <1>2, IdleIs DEF Marked, Jobs
<1>5. watch' \in WatchKind
  BY <1>1 DEF WatchKind
<1>6. Shape'
  BY <1>1, <1>2, <1>5 DEF Shape
<1> QED
  BY <1>3, <1>4, <1>6

LEMMA OtherRest ==
  ASSUME Rest,
         \/ Poll \/ PollFails \/ Announce \/ AnnounceStatus \/ \E n \in Names : CoolDown(n)
         \/ Switch \/ Listen \/ Drop \/ UNCHANGED vars
  PROVE  Rest'
<1> USE DEF Rest
<1>1. /\ UNCHANGED <<files, folder, job, autosaving, discarded, raced>>
      /\ happened \subseteq happened' /\ happened' \subseteq Events
      /\ cool' \subseteq Names
      /\ \/ watch' = watch
         \/ watch' = [watch EXCEPT !.pc = "announce", !.snap = waiting] /\ cool' = cool
         \/ watch' = [watch EXCEPT !.pc = "status"] /\ cool' = cool
         \/ watch' = [watch EXCEPT !.pc = "poll", !.todo = watch.snap, !.snap = {}] /\ cool' = cool
  BY Zenon DEF Poll, PollFails, Announce, AnnounceStatus, CoolDown, Switch, Listen, Drop, vars, Once, Shape, Events
<1>2. UNCHANGED <<waiting, arrived, named, source>>
  BY <1>1 DEF files
<1>3. Course'
  BY <1>1, <1>2, ApartCourse
<1>4. Marked'
  BY <1>1 DEF Marked
<1>5. Shape'
  <2>1. job' \in [Jobs -> JobKind]
    BY <1>1 DEF Shape
  <2>2. CASE watch' = watch
    BY <1>1, <1>2, <2>1, <2>2 DEF Shape
  <2>3. CASE watch' # watch
    BY <1>1, <2>1, <2>3, WatchShape
  <2> QED
    BY <2>2, <2>3
<1> QED
  BY <1>3, <1>4, <1>5

-----------------------------------------------------------------------------
(*****************************************************************************)
(* The theorems.                                                             *)
(*****************************************************************************)
LEMMA InitInv == Init => InboxInv
<1> SUFFICES ASSUME Init PROVE InboxInv
  OBVIOUS
<1>1. /\ waiting = {} /\ arrived = {} /\ named \in [Files -> Names] /\ source \in [Files -> Sources]
      /\ folder = [c \in Names \X Slots |-> NoFile]
      /\ watch = [pc |-> "poll", snap |-> {}, todo |-> {}]
      /\ job = [j \in Jobs |-> Idle] /\ autosaving = {} /\ cool = {} /\ happened = {}
      /\ queue = <<>> /\ last = Other /\ feed = "open" /\ view = {}
  BY DEF Init, HubInit
<1>2. job \in [Jobs -> JobKind] /\ \A j \in Jobs : job[j] = Idle /\ job[j].pc = "idle" /\ ~OnItsWay(j)
  BY <1>1, IdleIs DEF OnItsWay
<1>3. Shape
  <2>1. watch \in WatchKind
    BY <1>1 DEF WatchKind
  <2> QED
    BY <1>1, <1>2, <2>1 DEF Shape
<1>4. HubShape
  <2>1. <<>> \in Seq(Feeds) /\ Len(<<>>) <= Cap /\ Other \in Feeds
    BY InboxAssumption DEF Feeds
  <2> QED
    BY <1>1, <2>1 DEF HubShape
<1>5. Marked
  BY <1>1, <1>2 DEF Marked, Jobs
<1>6. \A c \in Spots : folder[c] = NoFile
  BY <1>1 DEF Spots
<1>7. \A f \in Files, c \in Spots : folder[c] # Whole(f)
  BY <1>6, Unwhole, SlotsAre
<1>8. Knows /\ Writing /\ Alone /\ SaveCourse
  BY <1>2 DEF Knows, Writing, Alone, SaveCourse
<1>9. OneOfAName /\ OfArrived /\ Accounted
  BY <1>1, <1>6 DEF OneOfAName, OfArrived, Accounted
<1>10. CopiedOnce
  BY <1>1, <1>7 DEF CopiedOnce, OneCopy
<1> QED
  BY <1>3, <1>4, <1>5, <1>8, <1>9, <1>10 DEF InboxInv, Course, Kept

LEMMA NextInv == InboxInv /\ [Next]_vars => InboxInv'
<1> SUFFICES ASSUME InboxInv, [Next]_vars PROVE InboxInv'
  OBVIOUS
<1>1. HubShape'
  BY HubShapeStep
<1>2. Rest
  BY DEF InboxInv, Rest
<1>3. ASSUME NEW f \in Files, Arrive(f) PROVE Rest'
  BY <1>2, <1>3, ArriveRest
<1>4. ASSUME NEW r \in Requests, NEW op \in {"save", "delete"}, NEW n \in Names, NEW s \in Sources,
             Request(r, op, n, s)
      PROVE  Rest'
  BY <1>2, <1>4, RequestRest
<1>5. ASSUME NEW j \in Jobs, Step(j) \/ Fail(j) PROVE Rest'
  BY <1>2, <1>5, OpenRest, CreateRest, CopyAllRest, FailRest, DeleteRest, TellRest DEF Step
<1>6. ASSUME NEW f \in Files, Consider(f) PROVE Rest'
  BY <1>2, <1>6, ConsiderRest
<1>7. ASSUME Restart PROVE Rest'
  BY <1>2, <1>7, RestartRest
<1>8. ASSUME \/ Poll \/ PollFails \/ Announce \/ AnnounceStatus \/ \E n \in Names : CoolDown(n)
             \/ Switch \/ Listen \/ Drop \/ UNCHANGED vars
      PROVE  Rest'
  BY <1>2, <1>8, OtherRest
<1>9. Rest'
  BY <1>3, <1>4, <1>5, <1>6, <1>7, <1>8 DEF Next, Watcher
<1> QED
  BY <1>1, <1>9 DEF InboxInv, Rest

LEMMA InboxInvariant == Spec => []InboxInv
BY InitInv, NextInv, PTL DEF Spec

\* A page's channel never holds more than its size, an auto-save is marked exactly while
\* it runs, and of one name the daemon or the quarantine keeps one file.
THEOREM InboxTypes == Spec => []TypeOK
<1>1. InboxInv => TypeOK
  <2> SUFFICES ASSUME InboxInv PROVE TypeOK
    OBVIOUS
  <2>1. \A j \in Jobs : job[j].pc \in Places /\ (job[j].pc = "idle" <=> job[j] = Idle)
    BY IdleIs DEF InboxInv, Shape, JobKind, Course, Knows
  <2>2. \A n \in Names : n \in autosaving <=> job[n] # Idle
    BY <2>1 DEF InboxInv, Marked, Jobs
  <2>3. watch.pc \in {"poll", "announce", "status"} /\ watch.snap \subseteq Files /\ watch.todo \subseteq Files
    BY DEF InboxInv, Shape, WatchKind
  <2> QED
    BY <2>1, <2>2, <2>3 DEF InboxInv, Shape, HubShape, Course, OneOfAName, Places, TypeOK
<1> QED
  BY <1>1, InboxInvariant, PTL

\* Unless two jobs were on their way for one waiting name, a file that arrived waits, was
\* deleted by the owner or is whole in the folder; and it is there once unless something
\* failed or the process died ("the file stays in the inbox until the save fully succeeds").
THEOREM SavedOnceAlways == Spec => []SavedOnce
<1>1. InboxInv => SavedOnce
  <2> SUFFICES ASSUME InboxInv, ~raced, NEW f \in arrived
               PROVE  /\ f \in waiting \cup discarded \/ Copies(f) # {}
                      /\ happened \cap {"fail", "crash"} = {} => Cardinality(Copies(f)) <= 1
    BY DEF SavedOnce
  <2>1. Copies(f) = {c \in Spots : folder[c] = Whole(f)}
    BY DEF InboxInv, Shape, Copies, Whole, Spots
  <2>2. f \in waiting \cup discarded \/ Copies(f) # {}
    BY <2>1 DEF InboxInv, Course, Kept, Accounted, HasCopy
  <2>3. ASSUME happened \cap {"fail", "crash"} = {} PROVE Cardinality(Copies(f)) <= 1
    <3>1. OneCopy(f)
      BY <2>3 DEF InboxInv, Shape, Course, CopiedOnce, Trouble
    <3>2. CASE Copies(f) = {}
      BY <3>2, FS_EmptySet
    <3>3. CASE Copies(f) # {}
      <4>1. PICK c \in Copies(f) : TRUE
        BY <3>3
      <4>2. Copies(f) = {c}
        BY <2>1, <3>1, <4>1 DEF OneCopy
      <4> QED
        BY <4>2, FS_Singleton
    <3> QED
      BY <3>2, <3>3
  <2> QED
    BY <2>2, <2>3
<1> QED
  BY <1>1, InboxInvariant, PTL
=============================================================================
