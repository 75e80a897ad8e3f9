-------------------------- MODULE QuarantineProofs --------------------------
(***************************************************************************)
(* The quarantine, for any links, uploads, saves and deletes, crashes and  *)
(* failing disk operations: no bytes are overwritten, and unless a race    *)
(* raced names happened no upload is lost or hidden, and what is saved is  *)
(* whole and saved once.                                                   *)
(*                                                                         *)
(* The argument follows a name.  While a remover is on its way the name    *)
(* stays registered (Taken), so nobody creates a file of it; while a file  *)
(* is written its name is not registered (Writing), so no remover is on    *)
(* its way to it.  Hence every file has one owner of its name (NamesApart) *)
(* and is where its upload put it (OwnPaths).                              *)
(***************************************************************************)
EXTENDS Quarantine, FiniteSetTheorems, TLAPS

UpPlaces == {"create", "createzip", "write", "accepted", "failed", "cut"}
UpStates == {[pc |-> "idle"]} \cup [pc : UpPlaces, name : Name]
RemPlaces == {"pick", "copy", "copying", "unlink", "unregister"}
RemStates == {IdleRemover} \cup
  [pc : RemPlaces, op : {"save", "delete"}, name : Name,
   token : Tokens, seen : Bytes \cup {NoFile}, dst : Name]
Reqs == [token : Tokens, kind : {"file", "folder"}, base : Bases]

\* The variables other than the counters.
Shapes ==
  /\ links \subseteq Tokens
  /\ files \in [Name -> Tokens \cup {NoToken}]
  /\ disk \in [Tokens \X Name -> Bytes \cup {NoFile}]
  /\ target \in [Name -> SavedCopy \cup {NoFile}]
  /\ req \in [Uploads -> Reqs]
  /\ up \in [Uploads -> UpStates]
  /\ rem \in [Removers -> RemStates]
  /\ halves \subseteq Name /\ discarded \subseteq Uploads
  /\ crashes \in 0..MaxCrashes /\ diskErrs \in 0..MaxDiskErrs
  /\ raced \in BOOLEAN
  /\ diskErrs = 0 => links = Tokens

MutexHeld ==
  /\ mu \in Uploads \cup {Nobody}
  /\ mu # Nobody => req[mu].kind = "file" /\ up[mu].pc \in {"create", "write"}

\* A copy that is not done is being made by one remover, or was left half made.
Copying(r) == rem[r].pc = "copying"
Begun(n) == target[n] # NoFile
Made(n) == Begun(n) /\ target[n].done
Drafts ==
  /\ \A r \in Removers : Copying(r) =>
       /\ Begun(rem[r].dst) /\ ~Made(rem[r].dst)
       /\ \A q \in Removers \ {r} : Copying(q) => rem[q].dst # rem[r].dst
  /\ \A n \in Name : Begun(n) /\ ~Made(n) =>
       n \in halves \/ \E r \in Removers : Copying(r) /\ rem[r].dst = n

\* A name on its way out stays registered, and belongs to one remover.
Busy(r) == rem[r].pc # "idle"
Taken ==
  \A r \in Removers : Busy(r) =>
    /\ files[rem[r].name] = rem[r].token
    /\ \A q \in Removers \ {r} : Busy(q) => rem[q].name # rem[r].name

\* A file being written is there, under a name that is not registered.
Writing ==
  \A u \in Uploads : up[u].pc = "write" =>
    files[up[u].name] = NoToken /\ disk[Path(u)] = [by |-> u, whole |-> FALSE]

There(p) == disk[p] # NoFile
OwnPaths ==
  \A p \in Tokens \X Name : There(p) =>
    /\ p = Path(disk[p].by)
    /\ up[disk[p].by].pc \in {"write", "accepted", "cut"}
    /\ up[disk[p].by].pc = "accepted" => disk[p].whole

NamesApart == \A p, q \in Tokens \X Name : There(p) /\ There(q) /\ p[2] = q[2] => p = q

\* A file is an inbox item unless it is still being written, or an unlink of it failed.
Listed ==
  diskErrs = 0 => \A p \in Tokens \X Name : There(p) =>
    files[p[2]] = p[1] \/ up[disk[p].by].pc = "write"

\* What a remover unregisters is gone, unless the unlink failed.
Removed ==
  diskErrs = 0 => \A r \in Removers : rem[r].pc = "unregister" => disk[LinkFile(r)] = NoFile

\* A remover about to unlink has seen the bytes it unlinks, and a save has copied them.
Seen ==
  \A r \in Removers :
    /\ rem[r].pc \in {"pick", "copy", "copying"} => rem[r].op = "save"
    /\ rem[r].pc \in {"copying", "unlink"} /\ There(LinkFile(r)) =>
         rem[r].seen # NoFile /\ rem[r].seen.by = disk[LinkFile(r)].by
    /\ Copying(r) => There(LinkFile(r)) /\ target[rem[r].dst].of = rem[r].seen
    /\ rem[r].pc = "unlink" /\ rem[r].op = "save" =>
         /\ rem[r].seen # NoFile
         /\ Made(rem[r].dst) /\ target[rem[r].dst].of = rem[r].seen

\* Where an accepted upload is.
Holds(u) == There(Path(u)) /\ disk[Path(u)].by = u
Kept ==
  \A u \in Accepted :
    u \in discarded \/ Holds(u) \/ \E n \in Name : Made(n) /\ target[n].of.by = u

\* What was saved had been accepted, whole, or had been cut off by a crash.
SavedOf ==
  \A n \in Name : Begun(n) =>
    /\ up[target[n].of.by].pc \in {"accepted", "cut"}
    /\ ~target[n].of.whole => up[target[n].of.by].pc = "cut"

\* One copy of each upload; while the original is still there, its save is about to
\* remove it.
Once ==
  crashes = 0 /\ diskErrs = 0 =>
    \A n \in Name : Made(n) =>
      /\ \A m \in Name : Made(m) /\ target[m].of.by = target[n].of.by => m = n
      /\ Holds(target[n].of.by) =>
           \E r \in Removers : rem[r].pc = "unlink" /\ rem[r].op = "save"
                              /\ LinkFile(r) = Path(target[n].of.by)

Places == Taken /\ Writing /\ OwnPaths /\ NamesApart
Custody == Listed /\ Removed /\ Seen /\ Kept /\ SavedOf /\ Once

\* The inductive invariant.
Safe == Places /\ Custody
Inv == Shapes /\ MutexHeld /\ Drafts /\ (~raced => Safe)

-----------------------------------------------------------------------------
\* The records of the model and their fields.
LEMMA Records ==
  /\ \A s \in UpStates : s.pc \in UpPlaces \cup {"idle"} /\ (s.pc # "idle" => s.name \in Name)
  /\ \A c \in UpPlaces, n \in Name : [pc |-> c, name |-> n] \in UpStates
  /\ \A u \in Uploads, w \in BOOLEAN : [by |-> u, whole |-> w] \in Bytes
  /\ \A b \in Bytes : b.by \in Uploads /\ b.whole \in BOOLEAN /\ b # NoFile
BY QuarantineAssumption DEF UpStates, UpPlaces, Bytes

LEMMA Copies ==
  /\ \A c \in SavedCopy : c.of \in Bytes /\ c.done \in BOOLEAN /\ c # NoFile
  /\ \A b \in Bytes, w \in BOOLEAN :
       /\ [of |-> b, done |-> w] \in SavedCopy
       /\ [of |-> b, done |-> w].of = b /\ [of |-> b, done |-> w].done = w
  /\ \A c \in SavedCopy :
       /\ [c EXCEPT !.done = TRUE] \in SavedCopy
       /\ [c EXCEPT !.done = TRUE].of = c.of /\ [c EXCEPT !.done = TRUE].done
BY QuarantineAssumption DEF SavedCopy

LEMMA UpMoved ==
  \A s \in UpStates, c \in UpPlaces : s.pc # "idle" =>
    /\ [s EXCEPT !.pc = c] \in UpStates
    /\ [s EXCEPT !.pc = c].pc = c /\ [s EXCEPT !.pc = c].name = s.name
BY DEF UpStates, UpPlaces

LEMMA Completed ==
  \A b \in Bytes :
    /\ [b EXCEPT !.whole = TRUE] \in Bytes
    /\ [b EXCEPT !.whole = TRUE].by = b.by /\ [b EXCEPT !.whole = TRUE].whole
BY DEF Bytes

\* Register: the bytes on disk become complete, those of another upload stay.
LEMMA RegisterCompletes ==
  ASSUME Shapes, NEW u \in Uploads, Register(u)
  PROVE  IF disk[Path(u)] = [by |-> u, whole |-> FALSE]
         THEN \E b \in Bytes :
                b.by = u /\ b.whole /\ disk' = [disk EXCEPT ![Path(u)] = b]
         ELSE disk' = disk
<1>1. CASE disk[Path(u)] = [by |-> u, whole |-> FALSE]
  <2>1. disk[Path(u)] \in Bytes /\ disk[Path(u)].by = u
    <3>1. [by |-> u, whole |-> FALSE] \in Bytes
      BY Records
    <3>2. [by |-> u, whole |-> FALSE].by = u
      OBVIOUS
    <3> QED
      BY <1>1, <3>1, <3>2
  <2>2. disk' = [disk EXCEPT ![Path(u)] = [disk[Path(u)] EXCEPT !.whole = TRUE]]
    BY <1>1 DEF Register
  <2>3. PICK b \in Bytes : b = [disk[Path(u)] EXCEPT !.whole = TRUE] /\ b.by = u /\ b.whole
    BY <2>1, Completed
  <2> QED
    BY <1>1, <2>2, <2>3
<1>2. CASE disk[Path(u)] # [by |-> u, whole |-> FALSE]
  BY <1>2 DEF Register
<1> QED
  BY <1>1, <1>2

LEMMA Removals ==
  /\ IdleRemover \in RemStates /\ IdleRemover.pc = "idle"
  /\ \A s \in RemStates : s.pc \in RemPlaces \cup {"idle"}
  /\ \A s \in RemStates : s.pc # "idle" =>
       /\ s.name \in Name /\ s.token \in Tokens /\ s.op \in {"save", "delete"}
       /\ s.dst \in Name /\ s.seen \in Bytes \cup {NoFile}
BY DEF RemStates, RemPlaces, IdleRemover

LEMMA RemovalMoves ==
  ASSUME NEW s \in RemStates, s.pc # "idle", NEW c \in RemPlaces
  PROVE  /\ [s EXCEPT !.pc = c] \in RemStates
         /\ \A d \in Name : [s EXCEPT !.pc = c, !.dst = d] \in RemStates
         /\ \A b \in Bytes \cup {NoFile} : [s EXCEPT !.pc = c, !.seen = b] \in RemStates
<1> s \in [pc : RemPlaces, op : {"save", "delete"}, name : Name, token : Tokens,
          seen : Bytes \cup {NoFile}, dst : Name]
  BY DEF RemStates, IdleRemover
<1>1. [s EXCEPT !.pc = c] \in RemStates
  BY DEF RemStates
<1>2. ASSUME NEW d \in Name PROVE [s EXCEPT !.pc = c, !.dst = d] \in RemStates
  BY DEF RemStates
<1>3. ASSUME NEW b \in Bytes \cup {NoFile} PROVE [s EXCEPT !.pc = c, !.seen = b] \in RemStates
  BY DEF RemStates
<1> QED
  BY <1>1, <1>2, <1>3

\* What an EXCEPT leaves alone.
LEMMA RemovalFields ==
  ASSUME NEW s \in RemStates, s.pc # "idle", NEW c
  PROVE  /\ [s EXCEPT !.pc = c].pc = c /\ [s EXCEPT !.pc = c].name = s.name
         /\ [s EXCEPT !.pc = c].token = s.token /\ [s EXCEPT !.pc = c].op = s.op
         /\ [s EXCEPT !.pc = c].seen = s.seen /\ [s EXCEPT !.pc = c].dst = s.dst
         /\ \A d : LET t == [s EXCEPT !.pc = c, !.dst = d]
                  IN  t.pc = c /\ t.name = s.name /\ t.token = s.token /\ t.op = s.op
         /\ \A b : LET t == [s EXCEPT !.pc = c, !.seen = b]
                  IN  /\ t.pc = c /\ t.name = s.name /\ t.token = s.token /\ t.op = s.op
                      /\ t.dst = s.dst /\ t.seen = b
<1> s \in [pc : RemPlaces, op : {"save", "delete"}, name : Name, token : Tokens,
          seen : Bytes \cup {NoFile}, dst : Name]
  BY DEF RemStates, IdleRemover
<1> QED
  OBVIOUS

LEMMA RestOf ==
  ASSUME NEW s \in RemStates, s.pc # "idle"
  PROVE  LET t == [s EXCEPT !.pc = "unregister", !.seen = NoFile, !.dst = s.name]
         IN  /\ t \in RemStates
             /\ t.pc = "unregister" /\ t.name = s.name /\ t.token = s.token /\ t.op = s.op
<1> s \in [pc : RemPlaces, op : {"save", "delete"}, name : Name, token : Tokens,
          seen : Bytes \cup {NoFile}, dst : Name]
  BY DEF RemStates, IdleRemover
<1> QED
  BY DEF RemStates, RemPlaces

\* Among finitely many numbers there is a greatest one.
LEMMA Greatest ==
  ASSUME NEW S, S \subseteq Nat, S # {}, IsFiniteSet(S)
  PROVE  \E k \in S : \A j \in S : j <= k
<1> DEFINE From(j) == {i \in S : i >= j}
           Above == {From(j) : j \in S}
<1>1. Above \subseteq FiniteSubsetsOf(S) /\ Above # {}
  <2>1. \A j \in S : From(j) \in SUBSET S
    OBVIOUS
  <2>2. \A j \in S : IsFiniteSet(From(j))
    BY <2>1, FS_Subset
  <2> HIDE DEF From
  <2> QED
    BY <2>1, <2>2 DEF FiniteSubsetsOf
<1>2. \E x \in Above : \A y \in Above : ~ (<<y, x>> \in StrictSubsetOrdering(S))
  <2> HIDE DEF Above
  <2> QED
    BY <1>1, FS_StrictSubsetOrderingWellFounded, WFMin
<1>3. PICK k \in S : \A j \in S : ~ (<<From(j), From(k)>> \in StrictSubsetOrdering(S))
  BY <1>2
<1>4. ASSUME NEW j \in S, j > k PROVE FALSE
  <2>1. k \in From(k) /\ k \notin From(j)
    BY <1>4
  <2>2. \A i \in From(j) : i \in S /\ i >= k
    <3> SUFFICES ASSUME NEW i \in S, i >= j PROVE i >= k
      OBVIOUS
    <3> i \in Nat /\ j \in Nat /\ k \in Nat
      OBVIOUS
    <3> QED
      BY <1>4
  <2>3. From(j) \in SUBSET S /\ From(k) \in SUBSET S /\ From(j) \subseteq From(k)
    BY <2>2
  <2> HIDE DEF From
  <2> QED
    BY <1>3, <2>1, <2>3 DEF StrictSubsetOrdering
<1> QED
  BY <1>4

\* Among numbers there is a least one.
LEMMA Least ==
  ASSUME NEW S, S \subseteq Nat, S # {}
  PROVE  \E k \in S : \A j \in S : k <= j
<1> DEFINE Below == {0..j : j \in S}
<1>1. Below \subseteq FiniteSubsetsOf(Nat) /\ Below # {}
  <2>1. \A j \in S : IsFiniteSet(0..j) /\ 0..j \in SUBSET Nat
    BY FS_Interval
  <2> QED
    BY <2>1 DEF FiniteSubsetsOf
<1>2. \E x \in Below : \A y \in Below : ~ (<<y, x>> \in StrictSubsetOrdering(Nat))
  <2> HIDE DEF Below
  <2> QED
    BY <1>1, FS_StrictSubsetOrderingWellFounded, WFMin
<1>3. PICK k \in S : \A j \in S : ~ (<<0..j, 0..k>> \in StrictSubsetOrdering(Nat))
  BY <1>2
<1>4. ASSUME NEW j \in S, j < k PROVE FALSE
  <2>1. /\ 0..j \in SUBSET Nat /\ 0..k \in SUBSET Nat /\ 0..j \subseteq 0..k
        /\ k \in 0..k /\ k \notin 0..j
    BY <1>4
  <2> QED
    BY <1>3, <2>1 DEF StrictSubsetOrdering
<1> QED
  BY <1>4

\* uniqueName and conflictFreeName: if a suffix is free, the first one is chosen.
LEMMA FreeNames ==
  ASSUME NEW base \in Bases, NEW from \in 0..MaxSuffix, NEW taken, HasFree(base, from, taken)
  PROVE  FirstFree(base, from, taken) \in Name \ taken
<1> DEFINE Free == {k \in from..MaxSuffix : <<base, k>> \notin taken}
<1>1. Free \subseteq Nat /\ Free # {}
  BY DEF HasFree
<1>2. PICK k \in Free : \A j \in Free : k <= j
  BY <1>1, Least
<1>3. /\ <<base, k>> \in Name /\ <<base, k>>[1] = base /\ <<base, k>>[2] >= from
      /\ <<base, k>> \notin taken
      /\ \A j \in from..(<<base, k>>[2] - 1) : <<base, j>> \in taken
  <2>1. k \in from..MaxSuffix /\ from \in Nat /\ MaxSuffix \in Nat
    BY QuarantineAssumption
  <2>2. ASSUME NEW j \in from..(k - 1) PROVE <<base, j>> \in taken
    BY <1>2, <2>1
  <2> QED
    BY <2>1, <2>2 DEF Name
<1> QED
  BY <1>3 DEF FirstFree

\* What a name is made of.
LEMMA NamePairs == \A n \in Name : n[1] \in Bases /\ n[2] \in 0..MaxSuffix
BY DEF Name

LEMMA Counting ==
  /\ \A n \in 0..MaxCrashes : n < MaxCrashes => n + 1 \in 0..MaxCrashes
  /\ \A n \in 0..MaxDiskErrs : n < MaxDiskErrs => n + 1 \in 0..MaxDiskErrs
BY QuarantineAssumption

\* load: of the links that hold a name the last one gets it.
LEMMA LastHolder ==
  ASSUME NEW holders \in SUBSET Tokens, holders # {}
  PROVE  (CHOOSE t \in holders : \A s \in holders : s <= t) \in holders
<1>1. holders \subseteq Nat /\ IsFiniteSet(holders)
  BY QuarantineAssumption, FS_Subset
<1>2. \E t \in holders : \A s \in holders : s <= t
  BY <1>1, Greatest
<1> QED
  BY <1>2

LEMMA ReloadedTypes ==
  ASSUME NEW known \in SUBSET Tokens
  PROVE  Reloaded(known) \in [Name -> Tokens \cup {NoToken}]
<1>1. ASSUME NEW n \in Name PROVE Reloaded(known)[n] \in Tokens \cup {NoToken}
  <2> DEFINE holders == {t \in known : disk[<<t, n>>] # NoFile}
  <2>1. holders \in SUBSET Tokens
    OBVIOUS
  <2>2. Reloaded(known)[n] = IF holders = {} THEN NoToken
                             ELSE CHOOSE t \in holders : \A s \in holders : s <= t
    BY DEF Reloaded
  <2> HIDE DEF holders
  <2>3. holders # {} => (CHOOSE t \in holders : \A s \in holders : s <= t) \in Tokens
    BY <2>1, LastHolder
  <2> QED
    BY <2>2, <2>3
<1> QED
  BY <1>1 DEF Reloaded

-----------------------------------------------------------------------------
\* Every step keeps the types.
LEMMA ShapeStep == Shapes /\ Drafts /\ [Next]_vars => Shapes'
<1> SUFFICES ASSUME Shapes, Drafts, [Next]_vars PROVE Shapes'
  OBVIOUS
<1> USE DEF Shapes
<1>1. ASSUME NEW u \in Uploads PROVE req[u].token \in Tokens /\ req[u].base \in Bases
  BY DEF Reqs
<1>2. ASSUME NEW u \in Uploads, up[u].pc # "idle" PROVE Path(u) \in Tokens \X Name
  BY <1>1, <1>2, Records DEF Path
<1>3. ASSUME NEW r \in Removers, Busy(r)
      PROVE  LinkFile(r) \in Tokens \X Name /\ rem[r].dst \in Name /\ rem[r].name \in Name
  BY <1>3, Removals DEF LinkFile, Busy
<1>4. ASSUME NEW u \in Uploads, ChooseName(u) PROVE up' \in [Uploads -> UpStates]
  <2>1. PICK inbox \in {{}, DaemonNames} :
          /\ HasFree(req[u].base, 0, Registered \cup inbox)
          /\ up' = [up EXCEPT ![u] =
               [pc |-> IF req[u].kind = "file" THEN "create" ELSE "createzip",
                name |-> FirstFree(req[u].base, 0, Registered \cup inbox)]]
    BY <1>4 DEF ChooseName
  <2>2. FirstFree(req[u].base, 0, Registered \cup inbox) \in Name
    BY <1>1, <2>1, FreeNames, QuarantineAssumption
  <2>3. (IF req[u].kind = "file" THEN "create" ELSE "createzip") \in UpPlaces
    BY DEF UpPlaces
  <2>4. [pc |-> IF req[u].kind = "file" THEN "create" ELSE "createzip",
         name |-> FirstFree(req[u].base, 0, Registered \cup inbox)] \in UpStates
    BY <2>2, <2>3, Records
  <2> QED
    BY <2>1, <2>4
<1>5. ASSUME NEW u \in Uploads, BeginFile(u) \/ BeginZip(u) PROVE Shapes'
  BY <1>4, <1>5 DEF BeginFile, BeginZip
<1>6. ASSUME NEW u \in Uploads, NEW c \in UpPlaces, up[u].pc # "idle"
      PROVE  [up EXCEPT ![u].pc = c] \in [Uploads -> UpStates]
  BY <1>6, UpMoved
<1>7. ASSUME NEW u \in Uploads, CreateFile(u) PROVE Shapes'
  <2>1. Path(u) \in Tokens \X Name /\ up[u].pc # "idle"
    BY <1>2, <1>7 DEF CreateFile, Creating
  <2>2. up' \in [Uploads -> UpStates]
    <3>1. up' = [up EXCEPT ![u].pc = "write"] \/ up' = [up EXCEPT ![u].pc = "failed"]
      BY <1>7 DEF CreateFile
    <3>2. "write" \in UpPlaces /\ "failed" \in UpPlaces
      BY DEF UpPlaces
    <3> QED
      BY <1>6, <2>1, <3>1, <3>2
  <2>3. disk' \in [Tokens \X Name -> Bytes \cup {NoFile}]
    <3>1. disk' = disk \/ disk' = [disk EXCEPT ![Path(u)] = [by |-> u, whole |-> FALSE]]
      BY <1>7 DEF CreateFile
    <3>2. [by |-> u, whole |-> FALSE] \in Bytes
      BY Records
    <3> QED
      BY <2>1, <3>1, <3>2
  <2> QED
    BY <1>7, <2>2, <2>3 DEF CreateFile, NameShared
<1>8. ASSUME NEW u \in Uploads, Register(u) PROVE Shapes'
  <2>1. Path(u) \in Tokens \X Name /\ up[u].pc # "idle" /\ up[u].name \in Name
    BY <1>2, <1>8, Records DEF Register
  <2>2. up' \in [Uploads -> UpStates]
    BY <1>6, <1>8, <2>1 DEF Register, UpPlaces
  <2>3. disk' \in [Tokens \X Name -> Bytes \cup {NoFile}]
    BY <1>8, <2>1, RegisterCompletes
  <2>4. files' \in [Name -> Tokens \cup {NoToken}]
    BY <1>1, <1>8, <2>1 DEF Register
  <2> QED
    BY <1>8, <2>2, <2>3, <2>4 DEF Register, NameShared
<1>9. ASSUME NEW u \in Uploads, AbortUpload(u) PROVE Shapes'
  <2>1. up' \in [Uploads -> UpStates]
    BY <1>6, <1>9 DEF AbortUpload, UpPlaces
  <2> QED
    BY <1>9, <2>1 DEF AbortUpload
<1>10. ASSUME NEW r \in Removers, NEW op \in {"save", "delete"}, NEW n \in Name, LookUp(r, op, n)
       PROVE  Shapes'
  <2>1. files[n] \in Tokens
    BY <1>10 DEF LookUp
  <2>2. [pc |-> IF op = "save" THEN "pick" ELSE "unlink", op |-> op, name |-> n,
         token |-> files[n], dst |-> n,
         seen |-> IF op = "save" THEN NoFile ELSE disk[<<files[n], n>>]] \in RemStates
    BY <2>1 DEF RemStates, RemPlaces
  <2> QED
    BY <1>10, <2>2 DEF LookUp
<1>11. ASSUME NEW r \in Removers, PickTarget(r) PROVE Shapes'
  <2> DEFINE there == {n \in Name : target[n] # NoFile}
             first == FirstFree(rem[r].name[1], rem[r].name[2], there)
  <2>1. rem[r].pc # "idle" /\ HasFree(rem[r].name[1], rem[r].name[2], there)
        /\ rem' = [rem EXCEPT ![r].pc = "copy", ![r].dst = first]
        /\ UNCHANGED <<links, halves, files, disk, target, req, up, crashes, diskErrs, discarded,
                       raced>>
    BY <1>11 DEF PickTarget
  <2>2. first \in Name
    BY <1>3, <2>1, NamePairs, FreeNames DEF Busy
  <2> HIDE DEF first, there
  <2>3. rem' = [rem EXCEPT ![r] = [rem[r] EXCEPT !.pc = "copy", !.dst = first]]
    BY <2>1
  <2>4. [rem[r] EXCEPT !.pc = "copy", !.dst = first] \in RemStates
    BY <2>1, <2>2, RemovalMoves DEF RemPlaces
  <2> QED
    BY <2>1, <2>3, <2>4
<1>12. ASSUME NEW r \in Removers, CreateTarget(r) PROVE Shapes'
  <2>1. rem[r].pc # "idle" /\ disk[LinkFile(r)] \in Bytes
    BY <1>3, <1>12 DEF CreateTarget, Busy
  <2>2. PICK c : c = [of |-> disk[LinkFile(r)], done |-> FALSE]
    OBVIOUS
  <2>3. c \in SavedCopy
    BY <2>1, <2>2, Copies
  <2>4. target' = [target EXCEPT ![rem[r].dst] = c]
        /\ rem' = [rem EXCEPT ![r] = [rem[r] EXCEPT !.pc = "copying", !.seen = disk[LinkFile(r)]]]
        /\ UNCHANGED <<links, halves, files, disk, req, up, crashes, diskErrs, discarded, raced>>
    BY <1>12, <2>2 DEF CreateTarget
  <2>5. [rem[r] EXCEPT !.pc = "copying", !.seen = disk[LinkFile(r)]] \in RemStates
    BY <2>1, RemovalMoves DEF RemPlaces
  <2> QED
    BY <1>3, <2>1, <2>3, <2>4, <2>5 DEF Busy
<1>13. ASSUME NEW r \in Removers, CopyOut(r), Drafts PROVE Shapes'
  <2>1. rem[r].pc # "idle" /\ target[rem[r].dst] \in SavedCopy
    BY <1>3, <1>13 DEF CopyOut, Busy, Drafts, Copying, Begun
  <2>2. PICK c \in SavedCopy : c = [target[rem[r].dst] EXCEPT !.done = TRUE]
    BY <2>1, Copies
  <2>3. target' = [target EXCEPT ![rem[r].dst] = c]
        /\ rem' = [rem EXCEPT ![r] = [rem[r] EXCEPT !.pc = "unlink"]]
        /\ UNCHANGED <<links, halves, files, disk, req, up, crashes, diskErrs, discarded, raced>>
    BY <1>13, <2>2 DEF CopyOut, Step
  <2>4. [rem[r] EXCEPT !.pc = "unlink"] \in RemStates
    BY <2>1, RemovalMoves DEF RemPlaces
  <2> QED
    BY <2>3, <2>4
<1>14. ASSUME NEW r \in Removers, CopyFails(r) \/ Unregister(r) PROVE Shapes'
  BY <1>3, <1>14, Removals DEF CopyFails, Unregister, Done, Busy
<1>15. ASSUME NEW r \in Removers, FragmentStays(r) PROVE Shapes'
  <2>1. rem[r].dst \in Name
    BY <1>3, <1>15 DEF FragmentStays, Busy
  <2> QED
    BY <1>15, <2>1, Removals, Counting DEF FragmentStays, Done
<1>16. ASSUME NEW r \in Removers, rem[r].pc = "unlink", Rest(r) PROVE rem' \in [Removers -> RemStates]
  <2>1. rem' = [rem EXCEPT ![r] = [rem[r] EXCEPT !.pc = "unregister", !.seen = NoFile,
                                                !.dst = rem[r].name]]
    BY <1>16 DEF Rest
  <2>2. [rem[r] EXCEPT !.pc = "unregister", !.seen = NoFile, !.dst = rem[r].name] \in RemStates
    BY <1>16, RestOf
  <2> QED
    BY <2>1, <2>2
<1>17. ASSUME NEW r \in Removers, Unlink(r) PROVE Shapes'
  <2>1. discarded' \subseteq Uploads
    BY <1>17, Records, Removals DEF Unlink, Discards
  <2>2. rem[r].pc # "idle" /\ rem' \in [Removers -> RemStates]
    BY <1>16, <1>17 DEF Unlink
  <2> QED
    BY <1>3, <1>17, <2>1, <2>2 DEF Unlink, Busy
<1>18. ASSUME NEW r \in Removers, UnlinkFails(r) PROVE Shapes'
  <2>1. rem' \in [Removers -> RemStates]
    <3>1. Rest(r) \/ Done(r)
      BY <1>18 DEF UnlinkFails
    <3> QED
      BY <1>16, <1>18, <3>1, Removals DEF UnlinkFails, Done
  <2> QED
    BY <1>18, <2>1, Counting DEF UnlinkFails
<1>19. CASE Crash
  <2>1. PICK known \in SUBSET links :
          /\ links' = known /\ files' = Reloaded(known)
          /\ \/ known = links /\ diskErrs' = diskErrs
             \/ diskErrs < MaxDiskErrs /\ diskErrs' = diskErrs + 1
    BY <1>19 DEF Crash
  <2>2. files' \in [Name -> Tokens \cup {NoToken}]
    BY <2>1, ReloadedTypes
  <2>3. /\ links' \subseteq Tokens /\ diskErrs' \in 0..MaxDiskErrs
        /\ diskErrs' = 0 => links' = Tokens
    BY <2>1, Counting
  <2>4. \A u \in Uploads : up[u].pc # "idle" => [up[u] EXCEPT !.pc = "cut"] \in UpStates
    BY UpMoved, "cut" \in UpPlaces DEF UpPlaces
  <2>5. up' \in [Uploads -> UpStates]
    BY <1>19, <2>4 DEF Crash
  <2>6. halves' \subseteq Name
    BY <1>19 DEF Crash
  <2>7. /\ crashes' \in 0..MaxCrashes /\ rem' \in [Removers -> RemStates]
        /\ UNCHANGED <<disk, target, req, discarded, raced>>
    BY <1>19, Removals, Counting DEF Crash
  <2> QED
    BY <2>2, <2>3, <2>5, <2>6, <2>7
<1>20. CASE UNCHANGED vars
  BY <1>20 DEF vars
<1> QED
  BY <1>5, <1>7, <1>8, <1>9, <1>10, <1>11, <1>12, <1>13, <1>14, <1>15, <1>17, <1>18, <1>19, <1>20
     DEF Next, Upload, Remove
-----------------------------------------------------------------------------
\* What a step of an upload does to the uploads: one changes its place, none its name.
Moves(u, c) ==
  /\ req' = req
  /\ up'[u].pc = c /\ up'[u].name = up[u].name
  /\ \A v \in Uploads \ {u} : up'[v] = up[v]
  /\ \A v \in Uploads : Path(v)' = Path(v)

LEMMA Moving ==
  ASSUME Shapes, NEW u \in Uploads, up[u].pc # "idle", NEW c \in UpPlaces,
         req' = req, up' = [up EXCEPT ![u].pc = c]
  PROVE  Moves(u, c)
<1>1. up \in [Uploads -> UpStates] /\ up[u] \in UpStates
  BY DEF Shapes
<1>2. up'[u] = [up[u] EXCEPT !.pc = c] /\ \A v \in Uploads \ {u} : up'[v] = up[v]
  BY <1>1
<1>3. up'[u].pc = c /\ up'[u].name = up[u].name
  BY <1>1, <1>2, UpMoved
<1>4. \A v \in Uploads : Path(v)' = Path(v)
  BY <1>2, <1>3 DEF Path
<1> QED
  BY <1>2, <1>3, <1>4 DEF Moves

\* The actions of an upload, field by field.
LEMMA BeginEffect ==
  ASSUME NEW u \in Uploads, Shapes, BeginFile(u) \/ BeginZip(u)
  PROVE  /\ up[u].pc = "idle" /\ up'[u].pc \in {"create", "createzip"}
         /\ \A v \in Uploads \ {u} : up'[v] = up[v] /\ Path(v)' = Path(v)
         /\ UNCHANGED <<links, halves, files, disk, target, req, rem, crashes, diskErrs, discarded,
                        raced>>
  BY DEF BeginFile, BeginZip, ChooseName, Shapes, Path

LEMMA CreateEffect ==
  ASSUME NEW u \in Uploads, Shapes, CreateFile(u)
  PROVE  /\ Path(u) \in Tokens \X Name /\ up[u].pc \in {"create", "createzip"}
         /\ \/ /\ disk[Path(u)] = NoFile /\ Moves(u, "write") /\ mu' = mu
               /\ ~raced' => ~raced /\ ~NameShared(u)
               /\ disk' = [disk EXCEPT ![Path(u)] = [by |-> u, whole |-> FALSE]]
            \/ Moves(u, "failed") /\ LetGo(u) /\ disk' = disk /\ raced' = raced
         /\ UNCHANGED <<links, halves, files, target, req, rem, crashes, diskErrs, discarded>>
<1>1. up[u].pc \in {"create", "createzip"} /\ up[u].pc # "idle" /\ up[u].name \in Name
  BY Records DEF CreateFile, Creating, Shapes
<1>2. Path(u) \in Tokens \X Name
  BY <1>1 DEF Path, Shapes, Reqs
<1>3. "write" \in UpPlaces /\ "failed" \in UpPlaces
  BY DEF UpPlaces
<1>4. req' = req
  BY DEF CreateFile
<1>5. CASE disk[Path(u)] = NoFile
  <2>1. Moves(u, "write")
    BY <1>1, <1>3, <1>4, <1>5, Moving DEF CreateFile
  <2> QED
    BY <1>1, <1>2, <1>5, <2>1 DEF CreateFile
<1>6. CASE disk[Path(u)] # NoFile
  <2>1. Moves(u, "failed")
    BY <1>1, <1>3, <1>4, <1>6, Moving DEF CreateFile
  <2> QED
    BY <1>1, <1>2, <1>6, <2>1 DEF CreateFile
<1> QED
  BY <1>5, <1>6

LEMMA RegisterEffect ==
  ASSUME NEW u \in Uploads, Shapes, Register(u)
  PROVE  /\ Path(u) \in Tokens \X Name /\ up[u].pc = "write" /\ Moves(u, "accepted")
         /\ files' = [files EXCEPT ![up[u].name] = req[u].token]
         /\ up[u].name \in Name /\ req[u].token \in Tokens
         /\ raced => raced'
         /\ UNCHANGED <<links, halves, target, req, rem, crashes, diskErrs, discarded>>
<1>1. up[u].pc = "write" /\ up[u].pc # "idle" /\ up[u].name \in Name
  BY Records DEF Register, Shapes
<1>2. Path(u) \in Tokens \X Name /\ req[u].token \in Tokens
  BY <1>1 DEF Path, Shapes, Reqs
<1>3. "accepted" \in UpPlaces /\ req' = req
  BY DEF UpPlaces, Register
<1>4. Moves(u, "accepted")
  BY <1>1, <1>3, Moving DEF Register
<1> QED
  BY <1>1, <1>2, <1>4 DEF Register

LEMMA AbortEffect ==
  ASSUME NEW u \in Uploads, Shapes, AbortUpload(u)
  PROVE  /\ Path(u) \in Tokens \X Name /\ up[u].pc = "write" /\ Moves(u, "failed")
         /\ disk' = [disk EXCEPT ![Path(u)] = NoFile]
         /\ UNCHANGED <<links, halves, files, target, req, rem, crashes, diskErrs, discarded, raced>>
<1>1. up[u].pc = "write" /\ up[u].pc # "idle" /\ up[u].name \in Name
  BY Records DEF AbortUpload, Shapes
<1>2. Path(u) \in Tokens \X Name
  BY <1>1 DEF Path, Shapes, Reqs
<1>3. "failed" \in UpPlaces /\ req' = req
  BY DEF UpPlaces, AbortUpload
<1>4. Moves(u, "failed")
  BY <1>1, <1>3, Moving DEF AbortUpload
<1> QED
  BY <1>1, <1>2, <1>4 DEF AbortUpload

\* What a step of a remover does to the removers: one changes, and keeps its name.
Goes(r, c) ==
  /\ rem'[r].pc = c /\ rem'[r].name = rem[r].name /\ rem'[r].token = rem[r].token
  /\ rem'[r].op = rem[r].op
  /\ \A q \in Removers \ {r} : rem'[q] = rem[q]

Ends(r) == rem'[r].pc = "idle" /\ \A q \in Removers \ {r} : rem'[q] = rem[q]

LEMMA Ending ==
  ASSUME Shapes, NEW r \in Removers, Done(r)
  PROVE  Ends(r)
BY Removals DEF Shapes, Done, Ends

LEMMA Going ==
  ASSUME Shapes, NEW r \in Removers, rem[r].pc # "idle",
         NEW c \in RemPlaces, Step(r, c)
  PROVE  Goes(r, c) /\ rem'[r].seen = rem[r].seen /\ rem'[r].dst = rem[r].dst
<1>1. rem \in [Removers -> RemStates] /\ rem[r] \in RemStates
  BY DEF Shapes
<1>2. rem'[r] = [rem[r] EXCEPT !.pc = c] /\ \A q \in Removers \ {r} : rem'[q] = rem[q]
  BY <1>1 DEF Step
<1> QED
  BY <1>1, <1>2, RemovalFields DEF Goes

\* The actions of a remover, field by field.
LEMMA LookUpEffect ==
  ASSUME NEW r \in Removers, NEW op \in {"save", "delete"}, NEW n \in Name, Shapes,
         LookUp(r, op, n)
  PROVE  /\ rem[r].pc = "idle" /\ files[n] \in Tokens
         /\ \A q \in Removers \ {r} : rem'[q] = rem[q]
         /\ rem'[r].pc \in {"pick", "unlink"} /\ rem'[r].op = op /\ rem'[r].name = n
         /\ rem'[r].pc = "unlink" => op = "delete"
         /\ rem'[r].pc = "pick" => op = "save"
         /\ rem'[r].token = files[n]
         /\ op = "delete" => rem'[r].seen = disk[<<files[n], n>>]
         /\ ~raced' => ~raced /\ \A q \in Removers \ {r} : Busy(q) => rem[q].name # n
         /\ UNCHANGED <<links, halves, files, disk, target, mu, req, up, crashes, diskErrs, discarded>>
<1> DEFINE s == [pc |-> IF op = "save" THEN "pick" ELSE "unlink", op |-> op, name |-> n,
                 token |-> files[n], dst |-> n,
                 seen |-> IF op = "save" THEN NoFile ELSE disk[<<files[n], n>>]]
<1>1. rem \in [Removers -> RemStates]
  BY DEF Shapes
<1>2. rem' = [rem EXCEPT ![r] = s]
  BY DEF LookUp
<1>3. rem'[r] = s /\ \A q \in Removers \ {r} : rem'[q] = rem[q]
  BY <1>1, <1>2
<1>4. files[n] \in Tokens /\ rem[r].pc = "idle"
  BY DEF LookUp, Shapes
<1>5. /\ s.pc = (IF op = "save" THEN "pick" ELSE "unlink") /\ s.op = op /\ s.name = n
      /\ s.token = files[n]
      /\ op = "delete" => s.seen = disk[<<files[n], n>>]
  OBVIOUS
<1>6. ~raced' => ~raced /\ \A q \in Removers \ {r} : Busy(q) => rem[q].name # n
  BY DEF LookUp, Busy
<1> HIDE DEF s
<1>7. /\ rem'[r].pc \in {"pick", "unlink"} /\ rem'[r].op = op /\ rem'[r].name = n
      /\ rem'[r].pc = "unlink" => op = "delete"
      /\ rem'[r].pc = "pick" => op = "save"
      /\ rem'[r].token = files[n]
      /\ op = "delete" => rem'[r].seen = disk[<<files[n], n>>]
  BY <1>3, <1>5
<1>8. UNCHANGED <<links, halves, files, disk, target, mu, req, up, crashes, diskErrs, discarded>>
  BY DEF LookUp
<1> QED
  BY <1>3, <1>4, <1>6, <1>7, <1>8

LEMMA PickEffect ==
  ASSUME NEW r \in Removers, Shapes, PickTarget(r)
  PROVE  /\ rem[r].pc = "pick" /\ Goes(r, "copy")
         /\ UNCHANGED <<links, halves, files, disk, target, mu, req, up, crashes, diskErrs, discarded,
                        raced>>
<1>1. rem \in [Removers -> RemStates] /\ rem[r] \in RemStates /\ rem[r].pc # "idle"
  BY DEF Shapes, PickTarget
<1>2. PICK d : rem' = [rem EXCEPT ![r].pc = "copy", ![r].dst = d]
  BY DEF PickTarget
<1>3. rem'[r] = [rem[r] EXCEPT !.pc = "copy", !.dst = d]
      /\ \A q \in Removers \ {r} : rem'[q] = rem[q]
  BY <1>1, <1>2
<1>4. Goes(r, "copy")
  BY <1>1, <1>3, RemovalFields DEF Goes, RemPlaces
<1> QED
  BY <1>4 DEF PickTarget

LEMMA TargetEffect ==
  ASSUME NEW r \in Removers, Shapes, CreateTarget(r)
  PROVE  /\ rem[r].pc = "copy" /\ Goes(r, "copying")
         /\ rem'[r].dst = rem[r].dst /\ rem'[r].seen = disk[LinkFile(r)]
         /\ rem[r].dst \in Name /\ ~Begun(rem[r].dst)
         /\ LinkFile(r) \in Tokens \X Name /\ There(LinkFile(r))
         /\ \E c \in SavedCopy : /\ c.of = disk[LinkFile(r)] /\ ~c.done
                                 /\ target' = [target EXCEPT ![rem[r].dst] = c]
         /\ UNCHANGED <<links, halves, files, disk, mu, req, up, crashes, diskErrs, discarded, raced>>
<1>1. rem \in [Removers -> RemStates] /\ rem[r] \in RemStates /\ rem[r].pc # "idle"
  BY DEF Shapes, CreateTarget
<1>2. rem[r].dst \in Name /\ LinkFile(r) \in Tokens \X Name
  BY <1>1, Removals DEF LinkFile
<1>3. rem'[r] = [rem[r] EXCEPT !.pc = "copying", !.seen = disk[LinkFile(r)]]
      /\ \A q \in Removers \ {r} : rem'[q] = rem[q]
  BY <1>1 DEF CreateTarget
<1>4. Goes(r, "copying") /\ rem'[r].dst = rem[r].dst /\ rem'[r].seen = disk[LinkFile(r)]
  BY <1>1, <1>3, RemovalFields DEF Goes
<1>5. disk[LinkFile(r)] \in Bytes
  BY <1>2 DEF CreateTarget, Shapes
<1>6. PICK c : c = [of |-> disk[LinkFile(r)], done |-> FALSE]
  OBVIOUS
<1>7. c \in SavedCopy /\ c.of = disk[LinkFile(r)] /\ ~c.done
  BY <1>5, <1>6, Copies
<1> QED
  BY <1>2, <1>4, <1>6, <1>7 DEF CreateTarget, There, Begun

LEMMA CopyEffect ==
  ASSUME NEW r \in Removers, Shapes, Drafts, CopyOut(r)
  PROVE  /\ rem[r].pc = "copying" /\ Goes(r, "unlink")
         /\ rem'[r].dst = rem[r].dst /\ rem'[r].seen = rem[r].seen
         /\ rem[r].dst \in Name /\ LinkFile(r) \in Tokens \X Name
         /\ Begun(rem[r].dst) /\ ~Made(rem[r].dst)
         /\ \E c \in SavedCopy : /\ c.of = target[rem[r].dst].of /\ c.done
                                 /\ target' = [target EXCEPT ![rem[r].dst] = c]
         /\ UNCHANGED <<links, halves, files, disk, mu, req, up, crashes, diskErrs, discarded, raced>>
<1>1. rem[r] \in RemStates /\ rem[r].pc # "idle" /\ rem[r].pc = "copying"
  BY DEF Shapes, CopyOut
<1>2. rem[r].dst \in Name /\ LinkFile(r) \in Tokens \X Name
  BY <1>1, Removals DEF LinkFile
<1>3. Goes(r, "unlink") /\ rem'[r].dst = rem[r].dst /\ rem'[r].seen = rem[r].seen
  BY <1>1, Going DEF CopyOut, RemPlaces
<1>4. Begun(rem[r].dst) /\ ~Made(rem[r].dst)
  BY <1>1 DEF Drafts, Copying
<1>5. target[rem[r].dst] \in SavedCopy
  BY <1>2, <1>4 DEF Shapes, Begun
<1>6. PICK c \in SavedCopy : c = [target[rem[r].dst] EXCEPT !.done = TRUE]
                             /\ c.of = target[rem[r].dst].of /\ c.done
  BY <1>5, Copies
<1> QED
  BY <1>1, <1>2, <1>3, <1>4, <1>6 DEF CopyOut

LEMMA CopyFailsEffect ==
  ASSUME NEW r \in Removers, Shapes, CopyFails(r)
  PROVE  /\ Ends(r) /\ rem[r].dst \in Name
         /\ \/ rem[r].pc = "copy" /\ target' = target
            \/ rem[r].pc = "copying" /\ target' = [target EXCEPT ![rem[r].dst] = NoFile]
         /\ UNCHANGED <<links, halves, files, disk, mu, req, up, crashes, diskErrs, discarded, raced>>
<1>1. rem[r].pc \in {"copy", "copying"} /\ rem[r] \in RemStates
  BY DEF CopyFails, Shapes
<1>2. Ends(r) /\ rem[r].dst \in Name
  BY <1>1, Ending, Removals DEF CopyFails
<1> QED
  BY <1>1, <1>2 DEF CopyFails

LEMMA FragmentEffect ==
  ASSUME NEW r \in Removers, Shapes, FragmentStays(r)
  PROVE  /\ rem[r].pc = "copying" /\ Ends(r) /\ rem[r].dst \in Name
         /\ halves' = halves \cup {rem[r].dst} /\ diskErrs' # 0
         /\ UNCHANGED <<links, files, disk, target, mu, req, up, crashes, discarded, raced>>
<1>1. rem[r].pc = "copying" /\ rem[r] \in RemStates
  BY DEF FragmentStays, Shapes
<1>2. Ends(r) /\ rem[r].dst \in Name
  BY <1>1, Ending, Removals DEF FragmentStays
<1> QED
  BY <1>1, <1>2 DEF FragmentStays, Shapes

LEMMA Resting ==
  ASSUME Shapes, NEW r \in Removers, rem[r].pc = "unlink", Rest(r)
  PROVE  Goes(r, "unregister")
<1>1. rem \in [Removers -> RemStates] /\ rem[r] \in RemStates
  BY DEF Shapes
<1>2. rem'[r] = [rem[r] EXCEPT !.pc = "unregister", !.seen = NoFile, !.dst = rem[r].name]
      /\ \A q \in Removers \ {r} : rem'[q] = rem[q]
  BY <1>1 DEF Rest
<1> QED
  BY <1>1, <1>2, RestOf DEF Goes

LEMMA UnlinkEffect ==
  ASSUME NEW r \in Removers, Shapes, Unlink(r)
  PROVE  /\ rem[r].pc = "unlink" /\ Goes(r, "unregister")
         /\ LinkFile(r) \in Tokens \X Name /\ disk' = [disk EXCEPT ![LinkFile(r)] = NoFile]
         /\ discarded' = discarded \cup Discards(r)
         /\ UNCHANGED <<links, halves, files, target, mu, req, up, crashes, diskErrs, raced>>
<1>1. rem[r] \in RemStates /\ rem[r].pc = "unlink"
  BY DEF Shapes, Unlink
<1>2. Goes(r, "unregister")
  BY <1>1, Resting DEF Unlink
<1> QED
  BY <1>1, <1>2, Removals DEF Unlink, LinkFile

LEMMA UnlinkFailsEffect ==
  ASSUME NEW r \in Removers, Shapes, UnlinkFails(r)
  PROVE  /\ rem[r].pc = "unlink" /\ (Goes(r, "unregister") \/ Ends(r))
         /\ diskErrs' # 0
         /\ UNCHANGED <<links, halves, files, disk, target, mu, req, up, crashes, discarded, raced>>
<1>1. rem[r].pc = "unlink"
  BY DEF UnlinkFails
<1>2. Goes(r, "unregister") \/ Ends(r)
  BY <1>1, Resting, Ending DEF UnlinkFails
<1> QED
  BY <1>1, <1>2 DEF UnlinkFails, Shapes

LEMMA UnregisterEffect ==
  ASSUME NEW r \in Removers, Shapes, Unregister(r)
  PROVE  /\ rem[r].pc = "unregister" /\ Ends(r)
         /\ files' = [files EXCEPT ![rem[r].name] = NoToken]
         /\ UNCHANGED <<links, halves, disk, target, mu, req, up, crashes, diskErrs, discarded, raced>>
BY Ending DEF Unregister

-----------------------------------------------------------------------------
\* A half-made copy belongs to one remover, or was left behind.
LEMMA DraftsStep == Shapes /\ Drafts /\ [Next]_vars => Drafts'
<1> SUFFICES ASSUME Shapes, Drafts, [Next]_vars PROVE Drafts'
  OBVIOUS
<1>1. ASSUME UNCHANGED <<target, rem, halves>> PROVE Drafts'
  BY <1>1 DEF Drafts, Copying, Begun, Made
<1>2. ASSUME NEW u \in Uploads, Upload(u) PROVE Drafts'
  BY <1>1, <1>2 DEF Upload, BeginFile, BeginZip, CreateFile, Register, AbortUpload
<1>3. ASSUME NEW r \in Removers, ~Copying(r), ~Copying(r)', UNCHANGED <<target, halves>>,
             \A q \in Removers \ {r} : rem'[q] = rem[q]
      PROVE  Drafts'
  BY <1>3 DEF Drafts, Copying, Begun, Made
<1>4. ASSUME NEW r \in Removers, NEW op \in {"save", "delete"}, NEW n \in Name, LookUp(r, op, n)
      PROVE  Drafts'
  BY <1>3, <1>4, LookUpEffect DEF Copying
<1>5. ASSUME NEW r \in Removers, PickTarget(r) PROVE Drafts'
  BY <1>3, <1>5, PickEffect DEF Copying, Goes
<1>6. ASSUME NEW r \in Removers, CreateTarget(r) PROVE Drafts'
  <2>0. PICK d \in Name : d = rem[r].dst
    BY <1>6, TargetEffect
  <2>1. PICK c \in SavedCopy : ~c.done /\ target' = [target EXCEPT ![d] = c]
    BY <1>6, <2>0, TargetEffect
  <2>2. /\ ~Begun(d) /\ halves' = halves
        /\ rem'[r].pc = "copying" /\ rem'[r].dst = d
        /\ \A q \in Removers \ {r} : rem'[q] = rem[q]
    BY <1>6, <2>0, TargetEffect DEF Goes
  <2>3. target'[d] = c /\ c # NoFile /\ \A n \in Name \ {d} : target'[n] = target[n]
    BY <2>1, <2>2, Copies DEF Shapes
  <2>4. Begun(d)' /\ ~Made(d)'
    BY <2>1, <2>2, <2>3 DEF Begun, Made
  <2>5. \A n \in Name \ {d} : (Begun(n)' <=> Begun(n)) /\ (Made(n)' <=> Made(n))
    BY <2>3 DEF Begun, Made
  <2>6. \A q \in Removers \ {r} :
        /\ Copying(q)' <=> Copying(q)
        /\ rem'[q].dst = rem[q].dst
        /\ Copying(q) => rem[q].dst \in Name \ {d}
    BY <2>2, Removals DEF Copying, Drafts, Shapes
  <2>7. Copying(r)'
    BY <2>2 DEF Copying
  <2>8. ASSUME NEW q \in Removers, Copying(q)'
        PROVE  /\ Begun(rem[q].dst)' /\ ~Made(rem[q].dst)'
               /\ \A o \in Removers \ {q} : Copying(o)' => rem'[o].dst # rem'[q].dst
    <3>1. PICK e : e = rem'[q].dst
      OBVIOUS
    <3>2. Begun(e)' /\ ~Made(e)'
      <4>1. CASE q = r
        BY <2>2, <2>4, <3>1, <4>1
      <4>2. CASE q # r
        <5>1. Copying(q) /\ e = rem[q].dst /\ e \in Name \ {d}
          BY <2>6, <2>8, <3>1, <4>2
        <5>2. Begun(e) /\ ~Made(e)
          BY <5>1 DEF Drafts
        <5> QED
          BY <2>5, <5>1, <5>2
      <4> QED
        BY <4>1, <4>2
    <3>3. \A o \in Removers \ {q} : Copying(o)' => rem'[o].dst # rem'[q].dst
      BY <2>2, <2>6, <2>8 DEF Drafts
    <3> QED
      BY <3>1, <3>2, <3>3 DEF Begun, Made
  <2>9. ASSUME NEW n \in Name, Begun(n)', ~Made(n)'
        PROVE  n \in halves' \/ \E q \in Removers : Copying(q)' /\ rem'[q].dst = n
    <3>1. CASE n = d
      BY <2>2, <2>7, <3>1
    <3>2. CASE n # d
      <4>1. n \in halves \/ \E q \in Removers : Copying(q) /\ rem[q].dst = n
        BY <2>5, <2>9, <3>2 DEF Drafts
      <4>2. ~Copying(r)
        BY <1>6, TargetEffect DEF Copying
      <4> QED
        BY <2>2, <2>6, <4>1, <4>2
    <3> QED
      BY <3>1, <3>2
  <2> QED
    BY <2>8, <2>9 DEF Drafts
<1>7. ASSUME NEW r \in Removers, Copying(r), ~Copying(r)', halves' = halves,
             \A q \in Removers \ {r} : rem'[q] = rem[q],
             NEW d \in Name, d = rem[r].dst,
             \A n \in Name \ {d} : target'[n] = target[n],
             Begun(d)' => Made(d)'
      PROVE  Drafts'
  <2>1. \A n \in Name \ {d} : (Begun(n)' <=> Begun(n)) /\ (Made(n)' <=> Made(n))
    BY <1>7 DEF Begun, Made
  <2>2. \A q \in Removers \ {r} :
        /\ Copying(q)' <=> Copying(q)
        /\ rem'[q].dst = rem[q].dst
        /\ Copying(q) => rem[q].dst \in Name \ {d}
    BY <1>7, Removals DEF Copying, Drafts, Shapes
  <2>3. ASSUME NEW q \in Removers, Copying(q)'
        PROVE  /\ Begun(rem[q].dst)' /\ ~Made(rem[q].dst)'
               /\ \A o \in Removers \ {q} : Copying(o)' => rem'[o].dst # rem'[q].dst
    <3>1. PICK e : e = rem'[q].dst
      OBVIOUS
    <3>2. q # r /\ Copying(q) /\ e = rem[q].dst /\ e \in Name \ {d}
      BY <1>7, <2>2, <2>3, <3>1
    <3>3. Begun(e) /\ ~Made(e)
      BY <3>2 DEF Drafts
    <3>4. Begun(e)' /\ ~Made(e)'
      BY <2>1, <3>2, <3>3
    <3>5. \A o \in Removers \ {q} : Copying(o)' => rem'[o].dst # rem'[q].dst
      BY <1>7, <2>2, <3>2 DEF Drafts
    <3> QED
      BY <3>1, <3>4, <3>5 DEF Begun, Made
  <2>4. ASSUME NEW n \in Name, Begun(n)', ~Made(n)'
        PROVE  n \in halves' \/ \E q \in Removers : Copying(q)' /\ rem'[q].dst = n
    <3>1. n # d
      BY <1>7, <2>4
    <3>2. n \in halves \/ \E q \in Removers : Copying(q) /\ rem[q].dst = n
      BY <2>1, <2>4, <3>1 DEF Drafts
    <3>3. ASSUME NEW q \in Removers, Copying(q), rem[q].dst = n
          PROVE  \E o \in Removers : Copying(o)' /\ rem'[o].dst = n
      <4>1. q # r
        BY <1>7, <3>1, <3>3
      <4> QED
        BY <2>2, <3>3, <4>1
    <3> QED
      BY <1>7, <3>2, <3>3
  <2> QED
    BY <2>3, <2>4 DEF Drafts
<1>8. ASSUME NEW r \in Removers, CopyOut(r) PROVE Drafts'
  <2>1. PICK c \in SavedCopy : c.done /\ target' = [target EXCEPT ![rem[r].dst] = c]
    BY <1>8, CopyEffect
  <2>2. PICK d \in Name : d = rem[r].dst
    BY <1>8, CopyEffect
  <2>3. target'[d] = c /\ \A n \in Name \ {d} : target'[n] = target[n]
    BY <2>1, <2>2 DEF Shapes
  <2>4. Made(d)'
    BY <2>1, <2>3, Copies DEF Made, Begun
  <2>5. /\ Copying(r) /\ ~Copying(r)' /\ halves' = halves
        /\ \A q \in Removers \ {r} : rem'[q] = rem[q]
    BY <1>8, CopyEffect DEF Goes, Copying
  <2> QED
    BY <1>7, <2>2, <2>3, <2>4, <2>5
<1>9. ASSUME NEW r \in Removers, CopyFails(r) PROVE Drafts'
  <2>1. CASE rem[r].pc = "copy" /\ target' = target
    BY <1>3, <1>9, <2>1, CopyFailsEffect DEF Ends, Copying
  <2>2. CASE rem[r].pc = "copying" /\ target' = [target EXCEPT ![rem[r].dst] = NoFile]
    <3>1. PICK d \in Name : d = rem[r].dst
      BY <1>9, CopyFailsEffect
    <3>2. target'[d] = NoFile /\ \A n \in Name \ {d} : target'[n] = target[n]
      BY <2>2, <3>1 DEF Shapes
    <3>3. /\ Copying(r) /\ ~Copying(r)' /\ halves' = halves
          /\ \A q \in Removers \ {r} : rem'[q] = rem[q]
      BY <1>9, <2>2, CopyFailsEffect DEF Ends, Copying
    <3>4. ~Begun(d)'
      BY <3>2 DEF Begun
    <3> QED
      BY <1>7, <3>1, <3>2, <3>3, <3>4
  <2> QED
    BY <1>9, <2>1, <2>2, CopyFailsEffect
<1>10. ASSUME NEW r \in Removers, FragmentStays(r) PROVE Drafts'
  BY <1>10, FragmentEffect DEF Drafts, Copying, Begun, Made, Ends
<1>11. ASSUME NEW r \in Removers, Unlink(r) \/ UnlinkFails(r) \/ Unregister(r) PROVE Drafts'
  <2>1. /\ ~Copying(r) /\ ~Copying(r)' /\ UNCHANGED <<target, halves>>
        /\ \A q \in Removers \ {r} : rem'[q] = rem[q]
    BY <1>11, UnlinkEffect, UnlinkFailsEffect, UnregisterEffect DEF Goes, Ends, Copying
  <2> QED
    BY <1>3, <2>1
<1>12. CASE Crash
  <2>1. \A q \in Removers : ~Copying(q)'
    BY <1>12, Removals DEF Crash, Copying
  <2>2. target' = target /\ \A n \in Name :
          n \in halves' <=> n \in halves \/ \E r \in Removers : Copying(r) /\ rem[r].dst = n
    BY <1>12 DEF Crash, Copying, Shapes
  <2> QED
    BY <2>1, <2>2 DEF Drafts, Begun, Made
<1>13. CASE UNCHANGED vars
  BY <1>1, <1>13 DEF vars
<1> QED
  BY <1>2, <1>4, <1>5, <1>6, <1>8, <1>9, <1>10, <1>11, <1>12, <1>13 DEF Next, Remove

-----------------------------------------------------------------------------
\* storeFile keeps m.mu exactly while it writes a single file.
LEMMA MutexStep == Shapes /\ MutexHeld /\ [Next]_vars => MutexHeld'
<1> SUFFICES ASSUME Shapes, MutexHeld, [Next]_vars PROVE MutexHeld'
  OBVIOUS
<1>1. ASSUME NEW u \in Uploads, BeginFile(u) PROVE MutexHeld'
  BY <1>1 DEF BeginFile, ChooseName, MutexHeld, Shapes
<1>2. ASSUME NEW u \in Uploads, BeginZip(u) PROVE MutexHeld'
  BY <1>2 DEF BeginZip, Unlocked, MutexHeld
<1>3. ASSUME NEW u \in Uploads, NEW c \in UpPlaces, Moves(u, c), LetGo(u) PROVE MutexHeld'
  BY <1>3, QuarantineAssumption DEF Moves, LetGo, MutexHeld
<1>4. ASSUME NEW u \in Uploads, CreateFile(u) PROVE MutexHeld'
  <2>1. (Moves(u, "write") /\ mu' = mu) \/ (Moves(u, "failed") /\ LetGo(u))
    BY <1>4, CreateEffect
  <2>2. CASE Moves(u, "write") /\ mu' = mu
    BY <2>2 DEF Moves, MutexHeld
  <2>3. CASE Moves(u, "failed") /\ LetGo(u)
    BY <1>3, <2>3 DEF UpPlaces
  <2> QED
    BY <2>1, <2>2, <2>3
<1>5. ASSUME NEW u \in Uploads, Register(u) \/ AbortUpload(u) PROVE MutexHeld'
  <2>1. LetGo(u)
    BY <1>5 DEF Register, AbortUpload
  <2>2. Moves(u, "accepted") \/ Moves(u, "failed")
    BY <1>5, RegisterEffect, AbortEffect
  <2>3. "accepted" \in UpPlaces /\ "failed" \in UpPlaces
    BY DEF UpPlaces
  <2> QED
    BY <1>3, <2>1, <2>2, <2>3
<1>6. ASSUME NEW r \in Removers, Remove(r) PROVE MutexHeld'
  BY <1>6 DEF Remove, LookUp, PickTarget, CreateTarget, CopyOut, CopyFails, FragmentStays, Unlink,
                 UnlinkFails, Unregister, MutexHeld
<1>7. CASE Crash
  BY <1>7 DEF Crash, MutexHeld
<1>8. CASE UNCHANGED vars
  BY <1>8 DEF vars, MutexHeld
<1> QED
  BY <1>1, <1>2, <1>4, <1>5, <1>6, <1>7, <1>8 DEF Next, Upload

-----------------------------------------------------------------------------
\* What the invariant says of one file, one upload or one remover.
LEMMA Apart ==
  ASSUME Shapes, Places
  PROVE  /\ \A u, v \in Uploads : up[u].pc = "write" /\ up[v].pc = "write"
              /\ up[u].name = up[v].name => u = v
         /\ \A u \in Uploads, r \in Removers : up[u].pc = "write" /\ Busy(r)
              => up[u].name # rem[r].name
         /\ \A p \in Tokens \X Name : There(p) => disk[p] \in Bytes /\ disk[p].by \in Uploads
<1>1. ASSUME NEW u \in Uploads, NEW v \in Uploads, up[u].pc = "write", up[v].pc = "write",
             up[u].name = up[v].name
      PROVE  u = v
  <2>1. /\ Path(u) \in Tokens \X Name /\ Path(v) \in Tokens \X Name
        /\ Path(u)[2] = up[u].name /\ Path(v)[2] = up[v].name
    BY <1>1, Records DEF Path, Shapes, Reqs
  <2>2. disk[Path(u)] = [by |-> u, whole |-> FALSE] /\ disk[Path(v)] = [by |-> v, whole |-> FALSE]
    BY <1>1 DEF Places, Writing
  <2>3. There(Path(u)) /\ There(Path(v))
    BY <2>2, Records DEF There
  <2>4. Path(u) = Path(v)
    BY <1>1, <2>1, <2>3 DEF Places, NamesApart
  <2> QED
    BY <2>2, <2>4
<1>2. ASSUME NEW u \in Uploads, NEW r \in Removers, up[u].pc = "write", Busy(r),
             up[u].name = rem[r].name
      PROVE  FALSE
  <2>1. files[rem[r].name] = rem[r].token /\ rem[r].token \in Tokens /\ files[up[u].name] = NoToken
    BY <1>2, Removals DEF Places, Taken, Writing, Shapes, Busy
  <2> QED
    BY <1>2, <2>1, QuarantineAssumption
<1>3. ASSUME NEW p \in Tokens \X Name, There(p) PROVE disk[p] \in Bytes /\ disk[p].by \in Uploads
  BY <1>3, Records DEF There, Shapes
<1> QED
  BY <1>1, <1>2, <1>3
-----------------------------------------------------------------------------
\* One lemma per action: no step breaks the invariant unless it raises raced.
LEMMA BeginKeeps ==
  ASSUME NEW u \in Uploads, Shapes, Safe, BeginFile(u) \/ BeginZip(u)
  PROVE  Safe'
<1> USE DEF Safe, Places, Custody
<1>1. /\ up[u].pc = "idle" /\ up'[u].pc \in {"create", "createzip"}
      /\ \A v \in Uploads \ {u} : up'[v] = up[v] /\ Path(v)' = Path(v)
      /\ UNCHANGED <<links, halves, files, disk, target, req, rem, crashes, diskErrs, discarded, raced>>
  BY BeginEffect
<1>2. \A p \in Tokens \X Name : There(p) => disk[p].by \in Uploads \ {u}
  BY <1>1, Apart DEF OwnPaths
<1>3. \A n \in Name : Begun(n) => target[n].of.by \in Uploads \ {u}
  BY <1>1, Records, Copies DEF SavedOf, Shapes, Begun
<1>4. Taken' /\ Writing' /\ NamesApart'
  BY <1>1 DEF Taken, Writing, NamesApart, There, Busy
<1>5. OwnPaths'
  BY <1>1, <1>2 DEF OwnPaths, There
<1>6. Listed' /\ Removed' /\ Seen'
  BY <1>1, <1>2 DEF Listed, Removed, Seen, There, LinkFile, Begun, Made, Copying
<1>7. Kept' /\ SavedOf'
  BY <1>1, <1>3 DEF Kept, SavedOf, Accepted, Holds, There, Begun, Made
<1>8. Once'
  BY <1>1, <1>3 DEF Once, Holds, There, LinkFile, Begun, Made
<1> QED
  BY <1>4, <1>5, <1>6, <1>7, <1>8
LEMMA CreateKeeps ==
  ASSUME NEW u \in Uploads, Shapes, Safe, CreateFile(u), ~raced'
  PROVE  Safe'
<1> USE DEF Safe, Places, Custody
<1>1. /\ Path(u) \in Tokens \X Name /\ up[u].pc \in {"create", "createzip"}
      /\ UNCHANGED <<links, halves, files, target, req, rem, crashes, diskErrs, discarded>>
  BY CreateEffect
<1>2. \A p \in Tokens \X Name : There(p) => disk[p].by \in Uploads \ {u}
  BY <1>1, Apart DEF OwnPaths
<1>3. \A n \in Name : Begun(n) => target[n].of.by \in Uploads \ {u}
  BY <1>1, Records, Copies DEF SavedOf, Shapes, Begun
<1>4. CASE Moves(u, "failed") /\ disk' = disk
  <2> USE <1>1, <1>4 DEF Moves
  <2>1. Taken' /\ Writing' /\ NamesApart'
    BY DEF Taken, Writing, NamesApart, There, Busy
  <2>2. OwnPaths'
    BY <1>2 DEF OwnPaths, There
  <2>3. Listed' /\ Removed' /\ Seen'
    BY <1>2 DEF Listed, Removed, Seen, There, LinkFile, Begun, Made, Copying
  <2>4. Kept' /\ SavedOf'
    BY <1>3 DEF Kept, SavedOf, Accepted, Holds, There, Begun, Made
  <2>5. Once'
    BY <1>3 DEF Once, Holds, There, LinkFile, Begun, Made
  <2> QED
    BY <2>1, <2>2, <2>3, <2>4, <2>5
<1>5. CASE /\ disk[Path(u)] = NoFile /\ Moves(u, "write") /\ ~NameShared(u)
           /\ disk' = [disk EXCEPT ![Path(u)] = [by |-> u, whole |-> FALSE]]
  <2>1. /\ Path(u) = <<req[u].token, up[u].name>> /\ up[u].name \in Name
        /\ req[u].token \in Tokens /\ files[up[u].name] = NoToken
        /\ \A t \in Tokens \ {req[u].token} : disk[<<t, up[u].name>>] = NoFile
    BY <1>1, <1>5, Records DEF NameShared, Path, Shapes, Reqs
  <2>2. /\ disk'[Path(u)] = [by |-> u, whole |-> FALSE]
        /\ [by |-> u, whole |-> FALSE] # NoFile /\ [by |-> u, whole |-> FALSE].by = u
        /\ \A p \in Tokens \X Name : p # Path(u) => disk'[p] = disk[p]
    BY <1>1, <1>5, Records DEF Shapes
  <2>3. \A p \in Tokens \X Name : There(p) => disk'[p] = disk[p] /\ p[2] # up[u].name
    <3>1. ASSUME NEW p \in Tokens \X Name, There(p), p[2] = up[u].name PROVE FALSE
      <4>1. p = <<p[1], up[u].name>> /\ p[1] \in Tokens
        BY <3>1
      <4> QED
        BY <1>5, <2>1, <3>1, <4>1 DEF There
    <3> QED
      BY <1>5, <2>2, <3>1 DEF There
  <2>4. \A r \in Removers : Busy(r) =>
          /\ rem[r].name # up[u].name /\ LinkFile(r) # Path(u)
          /\ LinkFile(r) \in Tokens \X Name /\ disk'[LinkFile(r)] = disk[LinkFile(r)]
    <3> SUFFICES ASSUME NEW r \in Removers, Busy(r)
                 PROVE  /\ rem[r].name # up[u].name /\ LinkFile(r) # Path(u)
                        /\ LinkFile(r) \in Tokens \X Name
      BY <2>2
    <3>1. rem[r].token \in Tokens /\ rem[r].name \in Name
      BY Removals DEF Shapes, Busy
    <3>2. rem[r].name # up[u].name
      BY <2>1, <3>1, QuarantineAssumption DEF Taken
    <3> QED
      BY <2>1, <3>1, <3>2 DEF LinkFile
  <2>5. Taken'
    BY <1>1 DEF Taken, Busy
  <2>6. Writing'
    <3>1. ASSUME NEW v \in Uploads, up'[v].pc = "write", v # u
          PROVE  files'[up'[v].name] = NoToken /\ disk'[Path(v)'] = [by |-> v, whole |-> FALSE]
      <4>1. up'[v] = up[v] /\ Path(v)' = Path(v)
        BY <1>5, <3>1 DEF Moves
      <4>2. files[up[v].name] = NoToken /\ disk[Path(v)] = [by |-> v, whole |-> FALSE]
        BY <3>1, <4>1 DEF Writing
      <4>3. Path(v) \in Tokens \X Name
        BY <3>1, <4>1, Records DEF Path, Shapes, Reqs
      <4>4. Path(v) # Path(u)
        BY <1>5, <4>2, Records
      <4> QED
        BY <1>1, <2>2, <4>1, <4>2, <4>3, <4>4
    <3>2. files'[up'[u].name] = NoToken /\ disk'[Path(u)'] = [by |-> u, whole |-> FALSE]
      BY <1>1, <1>5, <2>1, <2>2 DEF Moves
    <3> QED
      BY <3>1, <3>2 DEF Writing
  <2>7. OwnPaths'
    BY <1>1, <1>2, <1>5, <2>2 DEF OwnPaths, There, Moves
  <2>8. NamesApart'
    BY <1>1, <2>1, <2>2, <2>3 DEF NamesApart, There
  <2>9. Listed'
    BY <1>1, <1>2, <1>5, <2>2 DEF Listed, There, Moves
  <2>10. Removed' /\ Seen'
    BY <1>1, <2>4 DEF Removed, Seen, There, LinkFile, Busy, Begun, Made, Copying
  <2>11. \A v \in Uploads \ {u} : Holds(v)' <=> Holds(v)
    BY <1>5, <2>2 DEF Holds, There, Moves
  <2>12. Kept' /\ SavedOf'
    BY <1>1, <1>3, <1>5, <2>11 DEF Kept, SavedOf, Accepted, Moves, Begun, Made
  <2>13. Once'
    BY <1>1, <1>3, <1>5, <2>11 DEF Once, Moves, LinkFile, Begun, Made
  <2> QED
    BY <2>5, <2>6, <2>7, <2>8, <2>9, <2>10, <2>12, <2>13
<1> QED
  BY <1>4, <1>5, CreateEffect
LEMMA RegisterKeeps ==
  ASSUME NEW u \in Uploads, Shapes, Safe, Register(u)
  PROVE  Safe'
<1> USE DEF Safe, Places, Custody
<1>1. /\ Path(u) \in Tokens \X Name /\ up[u].pc = "write" /\ Moves(u, "accepted")
      /\ files' = [files EXCEPT ![up[u].name] = req[u].token]
      /\ up[u].name \in Name /\ req[u].token \in Tokens
      /\ UNCHANGED <<links, halves, target, req, rem, crashes, diskErrs, discarded>>
  BY RegisterEffect
<1>2. /\ Path(u) = <<req[u].token, up[u].name>>
      /\ disk[Path(u)] = [by |-> u, whole |-> FALSE] /\ There(Path(u))
  BY <1>1, Records DEF Path, Writing, There
<1>3. PICK b \in Bytes : b.by = u /\ b.whole /\ disk' = [disk EXCEPT ![Path(u)] = b]
  BY <1>2, RegisterCompletes
<1>4. /\ disk'[Path(u)] = b /\ b # NoFile /\ disk[Path(u)].by = u
      /\ \A p \in Tokens \X Name : p # Path(u) => disk'[p] = disk[p]
  <2>1. [by |-> u, whole |-> FALSE].by = u
    OBVIOUS
  <2> QED
    BY <1>1, <1>2, <1>3, <2>1, Records DEF Shapes
<1>5. \A p \in Tokens \X Name : disk[p] \in Bytes \cup {NoFile}
  BY DEF Shapes
<1>6. \A p \in Tokens \X Name :
        /\ There(p)' <=> There(p)
        /\ There(p) => disk'[p].by = disk[p].by /\ disk[p].by \in Uploads
  BY <1>2, <1>3, <1>4, <1>5, Records DEF There
<1>7. \A p \in Tokens \X Name : There(p) /\ p # Path(u) =>
        disk[p].by # u /\ p[2] # up[u].name /\ files'[p[2]] = files[p[2]]
  <2> SUFFICES ASSUME NEW p \in Tokens \X Name, There(p), p # Path(u)
               PROVE  disk[p].by # u /\ p[2] # up[u].name /\ files'[p[2]] = files[p[2]]
    OBVIOUS
  <2>1. disk[p].by # u
    BY DEF OwnPaths
  <2>2. p[2] # up[u].name
    BY <1>1, <1>2 DEF NamesApart
  <2> QED
    BY <1>1, <2>1, <2>2 DEF Shapes
<1>8. \A v \in Uploads \ {u} : up'[v] = up[v] /\ Path(v)' = Path(v)
  BY <1>1 DEF Moves
<1>9. \A r \in Removers : Busy(r) =>
        rem[r].name # up[u].name /\ LinkFile(r) # Path(u) /\ LinkFile(r) \in Tokens \X Name
          /\ files'[rem[r].name] = files[rem[r].name]
  <2> SUFFICES ASSUME NEW r \in Removers, Busy(r)
               PROVE  rem[r].name # up[u].name /\ LinkFile(r) # Path(u)
                        /\ LinkFile(r) \in Tokens \X Name
                        /\ files'[rem[r].name] = files[rem[r].name]
    OBVIOUS
  <2>1. rem[r].token \in Tokens /\ rem[r].name \in Name
    BY Removals DEF Shapes, Busy
  <2>2. rem[r].name # up[u].name
    BY <1>1, Apart
  <2> QED
    BY <1>1, <1>2, <2>1, <2>2 DEF LinkFile, Shapes
<1>10. Taken'
  BY <1>1, <1>9 DEF Taken, Busy
<1>11. Writing'
  <2> SUFFICES ASSUME NEW v \in Uploads, up'[v].pc = "write"
               PROVE  files'[up'[v].name] = NoToken /\ disk'[Path(v)'] = [by |-> v, whole |-> FALSE]
    BY DEF Writing
  <2>1. v # u /\ up[v].pc = "write" /\ up'[v] = up[v] /\ Path(v)' = Path(v)
    BY <1>1, <1>8 DEF Moves
  <2>2. up[v].name # up[u].name /\ up[v].name \in Name /\ Path(v) = <<req[v].token, up[v].name>>
        /\ Path(v) \in Tokens \X Name
    BY <1>1, <2>1, Apart, Records DEF Path, Shapes, Reqs
  <2>3. files[up[v].name] = NoToken /\ disk[Path(v)] = [by |-> v, whole |-> FALSE]
    BY <2>1 DEF Writing
  <2> QED
    BY <1>1, <1>2, <1>4, <2>1, <2>2, <2>3 DEF Shapes
<1>12. OwnPaths'
  BY <1>1, <1>2, <1>3, <1>4, <1>6, <1>7, <1>8 DEF OwnPaths, There, Moves
<1>13. NamesApart'
  BY <1>6 DEF NamesApart
<1>14. Listed'
  BY <1>1, <1>2, <1>6, <1>7, <1>8 DEF Listed, Shapes
<1>15. Removed' /\ Seen'
  BY <1>1, <1>4, <1>9 DEF Removed, Seen, There, LinkFile, Busy, Begun, Made, Copying
<1>16. \A v \in Uploads : Holds(v)' <=> Holds(v)
  <2> SUFFICES ASSUME NEW v \in Uploads PROVE Holds(v)' <=> Holds(v)
    OBVIOUS
  <2>1. CASE v = u
    BY <1>1, <1>2, <1>3, <1>4, <2>1 DEF Holds, There, Moves
  <2>2. CASE v # u /\ Path(v) = Path(u)
    BY <1>3, <1>4, <1>8, <2>2 DEF Holds, There
  <2>3. CASE v # u /\ Path(v) # Path(u)
    BY <1>3, <1>4, <1>8, <2>3 DEF Holds, There
  <2> QED
    BY <2>1, <2>2, <2>3
<1>17. \A n \in Name : Begun(n) => target[n].of.by \in Uploads \ {u}
  BY <1>1, Records, Copies DEF SavedOf, Shapes, Begun
<1>18. Kept'
  <2>1. Holds(u)
    BY <1>2, <1>4 DEF Holds
  <2> QED
    BY <1>1, <1>8, <1>16, <2>1 DEF Kept, Accepted, Begun, Made
<1>19. SavedOf'
  BY <1>1, <1>8, <1>17 DEF SavedOf, Begun, Made
<1>20. Once'
  <2>1. \A v \in Uploads : Path(v)' = Path(v)
    BY <1>1 DEF Moves
  <2>2. \A r \in Removers : LinkFile(r)' = LinkFile(r)
    BY <1>1 DEF LinkFile
  <2> QED
    BY <1>1, <1>16, <1>17, <2>1, <2>2 DEF Once, Begun, Made
<1> QED
  BY <1>10, <1>11, <1>12, <1>13, <1>14, <1>15, <1>18, <1>19, <1>20
LEMMA AbortKeeps ==
  ASSUME NEW u \in Uploads, Shapes, Safe, AbortUpload(u)
  PROVE  Safe'
<1> USE DEF Safe, Places, Custody
<1>1. /\ Path(u) \in Tokens \X Name /\ up[u].pc = "write" /\ Moves(u, "failed")
      /\ disk' = [disk EXCEPT ![Path(u)] = NoFile]
      /\ UNCHANGED <<links, halves, files, target, req, rem, crashes, diskErrs, discarded, raced>>
  BY AbortEffect
<1>2. /\ disk'[Path(u)] = NoFile
      /\ \A p \in Tokens \X Name : p # Path(u) => disk'[p] = disk[p]
  BY <1>1 DEF Shapes
<1>3. \A v \in Uploads \ {u} : up'[v] = up[v] /\ Path(v)' = Path(v)
  BY <1>1 DEF Moves
<1>4. \A p \in Tokens \X Name : There(p)' =>
        There(p) /\ disk'[p] = disk[p] /\ p # Path(u) /\ disk[p].by \in Uploads \ {u}
  BY <1>2, Apart DEF There, OwnPaths
<1>5. \A n \in Name : Begun(n) => target[n].of.by \in Uploads \ {u}
  BY <1>1, Records, Copies DEF SavedOf, Shapes, Begun
<1>6. Taken' /\ NamesApart'
  BY <1>1, <1>4 DEF Taken, NamesApart, Busy
<1>7. Writing'
  <2> SUFFICES ASSUME NEW v \in Uploads, up'[v].pc = "write"
               PROVE  files'[up'[v].name] = NoToken /\ disk'[Path(v)'] = [by |-> v, whole |-> FALSE]
    BY DEF Writing
  <2>1. v # u /\ up[v].pc = "write" /\ up'[v] = up[v] /\ Path(v)' = Path(v)
    BY <1>1, <1>3 DEF Moves
  <2>2. up[v].name # up[u].name /\ Path(v) # Path(u) /\ Path(v) \in Tokens \X Name
    BY <1>1, <2>1, Apart, Records DEF Path, Shapes, Reqs
  <2> QED
    BY <1>1, <1>2, <2>1, <2>2 DEF Writing
<1>8. OwnPaths'
  BY <1>3, <1>4 DEF OwnPaths
<1>9. Listed'
  BY <1>1, <1>3, <1>4 DEF Listed
<1>10. \A r \in Removers : Busy(r) =>
         LinkFile(r) \in Tokens \X Name /\ LinkFile(r) # Path(u) /\ disk'[LinkFile(r)] = disk[LinkFile(r)]
  <2> SUFFICES ASSUME NEW r \in Removers, Busy(r)
               PROVE  LinkFile(r) \in Tokens \X Name /\ LinkFile(r) # Path(u)
    BY <1>2
  <2>1. rem[r].token \in Tokens /\ rem[r].name \in Name /\ rem[r].name # up[u].name
    BY <1>1, Apart, Removals DEF Shapes, Busy
  <2> QED
    BY <2>1 DEF LinkFile, Path
<1>11. Removed' /\ Seen'
  BY <1>1, <1>10 DEF Removed, Seen, There, LinkFile, Busy, Begun, Made, Copying
<1>12. \A v \in Uploads \ {u} : Holds(v)' <=> Holds(v)
  <2> SUFFICES ASSUME NEW v \in Uploads \ {u} PROVE Holds(v)' <=> Holds(v)
    OBVIOUS
  <2>1. disk[Path(u)].by = u
    <3>1. disk[Path(u)] = [by |-> u, whole |-> FALSE]
      BY <1>1 DEF Writing
    <3>2. [by |-> u, whole |-> FALSE].by = u
      OBVIOUS
    <3> QED
      BY <3>1, <3>2
  <2>2. CASE Path(v) = Path(u)
    BY <1>2, <1>3, <2>1, <2>2 DEF Holds, There
  <2>3. CASE Path(v) # Path(u)
    BY <1>1, <1>3, <2>3 DEF Holds, There
  <2> QED
    BY <2>2, <2>3
<1>13. Kept' /\ SavedOf'
  BY <1>1, <1>3, <1>5, <1>12 DEF Kept, SavedOf, Accepted, Moves, Begun, Made
<1>14. Once'
  <2>1. \A r \in Removers : LinkFile(r)' = LinkFile(r)
    BY <1>1 DEF LinkFile
  <2> QED
    BY <1>1, <1>3, <1>5, <1>12, <2>1 DEF Once, Begun, Made
<1> QED
  BY <1>6, <1>7, <1>8, <1>9, <1>11, <1>13, <1>14
\* A step of a remover that leaves the quarantine and the uploads alone.
LEMMA RemoverOnly ==
  ASSUME Shapes, Safe, UNCHANGED <<disk, req, up, discarded>>
  PROVE  /\ OwnPaths' /\ NamesApart'
         /\ target' = target => Kept' /\ SavedOf'
         /\ files' = files /\ diskErrs' = diskErrs => Writing' /\ Listed'
<1>1. OwnPaths' /\ NamesApart'
  BY DEF Safe, Places, OwnPaths, NamesApart, There, Path
<1>2. target' = target => Kept' /\ SavedOf'
  BY DEF Safe, Custody, Kept, SavedOf, There, Path, Accepted, Holds, Begun, Made
<1>3. files' = files /\ diskErrs' = diskErrs => Writing' /\ Listed'
  BY DEF Safe, Places, Custody, Writing, Listed, There, Path
<1> QED
  BY <1>1, <1>2, <1>3

LEMMA LookUpKeeps ==
  ASSUME NEW r \in Removers, NEW op \in {"save", "delete"}, NEW n \in Name, Shapes, Safe,
         LookUp(r, op, n), ~raced'
  PROVE  Safe'
<1> USE DEF Safe, Places, Custody
<1>1. /\ rem[r].pc = "idle" /\ files[n] \in Tokens
      /\ \A q \in Removers \ {r} : rem'[q] = rem[q]
      /\ rem'[r].pc \in {"pick", "unlink"} /\ rem'[r].op = op /\ rem'[r].name = n
      /\ rem'[r].pc = "unlink" => op = "delete"
      /\ rem'[r].pc = "pick" => op = "save"
      /\ rem'[r].token = files[n]
      /\ op = "delete" => rem'[r].seen = disk[<<files[n], n>>]
      /\ \A q \in Removers \ {r} : Busy(q) => rem[q].name # n
      /\ UNCHANGED <<links, halves, files, disk, target, mu, req, up, crashes, diskErrs, discarded>>
  BY LookUpEffect
<1>2. Writing' /\ Listed' /\ OwnPaths' /\ NamesApart' /\ Kept' /\ SavedOf'
  BY <1>1, RemoverOnly
<1>3. Taken'
  BY <1>1 DEF Taken, Busy
<1>4. \A q \in Removers \ {r} : LinkFile(q)' = LinkFile(q)
  BY <1>1 DEF LinkFile
<1>5. LinkFile(r)' = <<files[n], n>>
  BY <1>1 DEF LinkFile
<1>6. Removed'
  BY <1>1, <1>4 DEF Removed
<1>7. Seen'
  BY <1>1, <1>4, <1>5 DEF Seen, There, Begun, Made, Copying
<1>8. Once'
  BY <1>1, <1>4 DEF Once, Holds, There, Path, Begun, Made
<1> QED
  BY <1>2, <1>3, <1>6, <1>7, <1>8

LEMMA PickKeeps ==
  ASSUME NEW r \in Removers, Shapes, Safe, PickTarget(r)
  PROVE  Safe'
<1> USE DEF Safe, Places, Custody
<1>1. /\ rem[r].pc = "pick" /\ Goes(r, "copy")
      /\ UNCHANGED <<links, halves, files, disk, target, mu, req, up, crashes, diskErrs, discarded, raced>>
  BY PickEffect
<1>2. Writing' /\ Listed' /\ OwnPaths' /\ NamesApart' /\ Kept' /\ SavedOf'
  BY <1>1, RemoverOnly
<1>3. \A q \in Removers : LinkFile(q)' = LinkFile(q)
  BY <1>1 DEF LinkFile, Goes
<1>4. Taken' /\ Removed' /\ Seen'
  BY <1>1, <1>3 DEF Taken, Removed, Seen, There, Busy, Goes, Begun, Made, Copying
<1>5. Once'
  BY <1>1, <1>3 DEF Once, Holds, There, Path, Goes, Begun, Made
<1> QED
  BY <1>2, <1>4, <1>5

LEMMA TargetKeeps ==
  ASSUME NEW r \in Removers, Shapes, Drafts, Safe, CreateTarget(r)
  PROVE  Safe'
<1> USE DEF Safe, Places, Custody
<1>1. PICK b, d : b = disk[LinkFile(r)] /\ d = rem[r].dst
  OBVIOUS
<1>2. /\ rem[r].pc = "copy" /\ Goes(r, "copying")
      /\ rem'[r].dst = d /\ rem'[r].seen = b
      /\ d \in Name /\ ~Begun(d)
      /\ LinkFile(r) \in Tokens \X Name /\ There(LinkFile(r))
      /\ UNCHANGED <<links, halves, files, disk, mu, req, up, crashes, diskErrs, discarded, raced>>
  BY <1>1, TargetEffect
<1>3. PICK c \in SavedCopy : c.of = b /\ ~c.done /\ target' = [target EXCEPT ![d] = c]
  BY <1>1, TargetEffect
<1>4. /\ b \in Bytes /\ b # NoFile /\ b.by \in Uploads
      /\ LinkFile(r) = Path(b.by) /\ up[b.by].pc \in {"write", "accepted", "cut"}
      /\ up[b.by].pc = "accepted" => b.whole
  BY <1>1, <1>2, Apart DEF OwnPaths, There
<1>5. up[b.by].pc # "write"
  <2> SUFFICES ASSUME up[b.by].pc = "write" PROVE FALSE
    OBVIOUS
  <2>1. up[b.by].name # rem[r].name
    BY <1>2, <1>4, Apart DEF Busy
  <2> QED
    BY <1>4, <2>1 DEF LinkFile, Path
<1>6. target'[d] = c /\ c # NoFile /\ \A n \in Name : n # d => target'[n] = target[n]
  BY <1>2, <1>3, Copies DEF Shapes
<1>7. ~Made(d) /\ ~Made(d)'
  BY <1>2, <1>3, <1>6 DEF Begun, Made
<1>8. \A n \in Name : n # d => (Begun(n)' <=> Begun(n)) /\ (Made(n)' <=> Made(n))
  BY <1>6 DEF Begun, Made
<1>9. \A n \in Name : (Made(n) \/ Made(n)') => n # d /\ Made(n) /\ Made(n)' /\ target'[n] = target[n]
  BY <1>6, <1>7, <1>8
<1>10. \A q \in Removers : LinkFile(q)' = LinkFile(q)
  BY <1>2 DEF LinkFile, Goes
<1>11. Taken' /\ Removed'
  BY <1>2, <1>10 DEF Taken, Removed, Busy, Goes
<1>12. Writing' /\ OwnPaths' /\ NamesApart' /\ Listed'
  BY <1>2, RemoverOnly
<1>13. Seen'
  <2> SUFFICES ASSUME NEW q \in Removers
               PROVE  /\ rem'[q].pc \in {"pick", "copy", "copying"} => rem'[q].op = "save"
                      /\ rem'[q].pc \in {"copying", "unlink"} /\ There(LinkFile(q)) =>
                           rem'[q].seen # NoFile /\ rem'[q].seen.by = disk[LinkFile(q)].by
                      /\ rem'[q].pc = "copying" =>
                           There(LinkFile(q)) /\ target'[rem'[q].dst].of = rem'[q].seen
                      /\ rem'[q].pc = "unlink" /\ rem'[q].op = "save" =>
                           /\ rem'[q].seen # NoFile
                           /\ target'[rem'[q].dst] # NoFile /\ target'[rem'[q].dst].done
                           /\ target'[rem'[q].dst].of = rem'[q].seen
    BY <1>2, <1>10 DEF Seen, There, Copying, Begun, Made
  <2>1. CASE q = r
    <3>1. rem'[r].pc = "copying" /\ rem'[r].op = "save"
      BY <1>2 DEF Goes, Seen
    <3> QED
      BY <1>1, <1>2, <1>3, <1>4, <1>6, <2>1, <3>1
  <2>2. CASE q # r
    <3>1. rem'[q] = rem[q]
      BY <1>2, <2>2 DEF Goes
    <3>2. (Copying(q) \/ (rem[q].pc = "unlink" /\ rem[q].op = "save")) =>
            rem[q].dst \in Name /\ target'[rem[q].dst] = target[rem[q].dst]
      BY <1>2, <1>6, Removals DEF Shapes, Seen, Copying, Made, Drafts
    <3> QED
      BY <3>1, <3>2 DEF Seen, Copying, Begun, Made
  <2> QED
    BY <2>1, <2>2
<1>14. Kept'
  BY <1>2, <1>9 DEF Kept, Accepted, Holds, There, Path
<1>15. SavedOf'
  BY <1>2, <1>3, <1>4, <1>5, <1>6, <1>8 DEF SavedOf, Begun
<1>16. Once'
  <2>1. \A v \in Uploads : Path(v)' = Path(v) /\ (Holds(v)' <=> Holds(v))
    BY <1>2 DEF Path, Holds, There
  <2>2. \A n \in Name : Made(n) => target[n].of.by \in Uploads
    BY Records, Copies DEF Shapes, Begun, Made
  <2>3. \A q \in Removers : rem[q].pc = "unlink" => q # r /\ rem'[q] = rem[q]
    BY <1>2 DEF Goes
  <2> QED
    BY <1>2, <1>9, <1>10, <2>1, <2>2, <2>3 DEF Once
<1> QED
  BY <1>11, <1>12, <1>13, <1>14, <1>15, <1>16

LEMMA CopyOutKeeps ==
  ASSUME NEW r \in Removers, Shapes, Drafts, Safe, CopyOut(r)
  PROVE  Safe'
<1> USE DEF Safe, Places, Custody
<1>1. PICK b, d : b = rem[r].seen /\ d = rem[r].dst
  OBVIOUS
<1>2. /\ rem[r].pc = "copying" /\ Goes(r, "unlink")
      /\ rem'[r].dst = d /\ rem'[r].seen = b
      /\ d \in Name /\ LinkFile(r) \in Tokens \X Name /\ Begun(d) /\ ~Made(d)
      /\ UNCHANGED <<links, halves, files, disk, mu, req, up, crashes, diskErrs, discarded, raced>>
  BY <1>1, CopyEffect
<1>3. There(LinkFile(r)) /\ b # NoFile /\ b.by = disk[LinkFile(r)].by /\ target[d].of = b
  BY <1>1, <1>2 DEF Seen, Copying
<1>4. PICK c \in SavedCopy : c.of = b /\ c.done /\ target' = [target EXCEPT ![d] = c]
  BY <1>1, <1>3, CopyEffect
<1>5. b.by \in Uploads /\ LinkFile(r) = Path(b.by)
  BY <1>2, <1>3, Apart DEF OwnPaths
<1>6. target'[d] = c /\ c # NoFile /\ \A n \in Name : n # d => target'[n] = target[n]
  BY <1>2, <1>4, Copies DEF Shapes
<1>7. \A n \in Name :
        /\ Begun(n)' <=> Begun(n)
        /\ Begun(n) => target'[n].of = target[n].of
        /\ Made(n)' <=> (n = d \/ Made(n))
  BY <1>2, <1>3, <1>4, <1>6 DEF Begun, Made
<1>8. \A q \in Removers : LinkFile(q)' = LinkFile(q)
  BY <1>2 DEF LinkFile, Goes
<1>9. Taken' /\ Removed'
  BY <1>2, <1>8 DEF Taken, Removed, Busy, Goes
<1>10. Writing' /\ OwnPaths' /\ NamesApart' /\ Listed'
  BY <1>2, RemoverOnly
<1>11. Seen'
  <2> SUFFICES ASSUME NEW q \in Removers
               PROVE  /\ rem'[q].pc \in {"pick", "copy", "copying"} => rem'[q].op = "save"
                      /\ rem'[q].pc \in {"copying", "unlink"} /\ There(LinkFile(q)) =>
                           rem'[q].seen # NoFile /\ rem'[q].seen.by = disk[LinkFile(q)].by
                      /\ rem'[q].pc = "copying" =>
                           There(LinkFile(q)) /\ target'[rem'[q].dst].of = rem'[q].seen
                      /\ rem'[q].pc = "unlink" /\ rem'[q].op = "save" =>
                           /\ rem'[q].seen # NoFile
                           /\ target'[rem'[q].dst] # NoFile /\ target'[rem'[q].dst].done
                           /\ target'[rem'[q].dst].of = rem'[q].seen
    BY <1>2, <1>8 DEF Seen, There, Copying, Begun, Made
  <2>1. CASE q = r
    <3>1. rem'[r].pc = "unlink"
      BY <1>2 DEF Goes
    <3> QED
      BY <1>2, <1>3, <1>4, <1>6, <2>1, <3>1
  <2>2. CASE q # r
    <3>1. rem'[q] = rem[q]
      BY <1>2, <2>2 DEF Goes
    <3>2. (Copying(q) \/ (rem[q].pc = "unlink" /\ rem[q].op = "save")) =>
            rem[q].dst \in Name /\ target'[rem[q].dst] = target[rem[q].dst]
      <4>1. Copying(q) \/ rem[q].pc = "unlink" => rem[q].dst \in Name
        BY Removals DEF Shapes, Copying
      <4>2. Copying(q) => rem[q].dst # d
        BY <1>1, <1>2, <2>2 DEF Drafts, Copying
      <4>3. rem[q].pc = "unlink" /\ rem[q].op = "save" => rem[q].dst # d
        BY <1>2 DEF Seen
      <4> QED
        BY <1>6, <4>1, <4>2, <4>3
    <3> QED
      BY <3>1, <3>2 DEF Seen, Copying, Begun, Made
  <2> QED
    BY <2>1, <2>2
<1>12. Kept'
  BY <1>2, <1>7 DEF Kept, Accepted, Holds, There, Path, Made
<1>13. SavedOf'
  BY <1>2, <1>7 DEF SavedOf
<1>14. Once'
  <2> SUFFICES ASSUME crashes = 0, diskErrs = 0 PROVE Once'
    BY <1>2 DEF Once
  <2>1. rem'[r].pc = "unlink" /\ rem'[r].op = "save"
    BY <1>2 DEF Goes, Seen
  <2>2. \A n \in Name : Made(n) => target[n].of.by # b.by
    <3> SUFFICES ASSUME NEW n \in Name, Made(n), target[n].of.by = b.by PROVE FALSE
      OBVIOUS
    <3>1. Holds(b.by)
      BY <1>3, <1>5 DEF Holds
    <3>2. PICK q \in Removers : rem[q].pc = "unlink" /\ LinkFile(q) = LinkFile(r)
      BY <1>5, <3>1 DEF Once
    <3>3. q # r /\ rem[q].name = rem[r].name /\ Busy(q) /\ Busy(r)
      BY <1>2, <3>2 DEF LinkFile, Busy
    <3> QED
      BY <3>3 DEF Taken
  <2>3. \A v \in Uploads : Path(v)' = Path(v) /\ (Holds(v)' <=> Holds(v))
    BY <1>2 DEF Path, Holds, There
  <2>4. \A n \in Name : Made(n) => Begun(n) /\ target[n].of.by \in Uploads
    BY Records, Copies DEF Shapes, Begun, Made
  <2>5. \A q \in Removers : rem[q].pc = "unlink" => q # r /\ rem'[q] = rem[q]
    BY <1>2 DEF Goes
  <2>6. /\ target'[d].of.by = b.by
        /\ \A n \in Name : Made(n) => n # d /\ target'[n].of.by = target[n].of.by
    BY <1>2, <1>3, <1>7, <2>4
  <2>7. ASSUME NEW n \in Name, Made(n)', NEW m \in Name, Made(m)',
               target'[m].of.by = target'[n].of.by
        PROVE  m = n
    <3>1. (n = d \/ Made(n)) /\ (m = d \/ Made(m))
      BY <1>7, <2>7
    <3>2. Made(n) /\ Made(m) => m = n
      BY <2>6, <2>7 DEF Once
    <3> QED
      BY <2>2, <2>6, <2>7, <3>1, <3>2
  <2>8. ASSUME NEW n \in Name, Made(n)', NEW v \in Uploads, v = target'[n].of.by, Holds(v)'
        PROVE  \E q \in Removers : rem'[q].pc = "unlink" /\ rem'[q].op = "save"
                                 /\ LinkFile(q)' = Path(v)'
    <3>1. CASE n = d
      BY <1>5, <1>8, <2>1, <2>3, <2>6, <2>8, <3>1
    <3>2. CASE n # d
      <4>1. Made(n) /\ v = target[n].of.by /\ Holds(v)
        BY <1>7, <2>3, <2>6, <2>8, <3>2
      <4>2. PICK q \in Removers : rem[q].pc = "unlink" /\ rem[q].op = "save"
                                  /\ LinkFile(q) = Path(v)
        BY <4>1 DEF Once
      <4> QED
        BY <1>8, <2>3, <2>5, <4>2
    <3> QED
      BY <3>1, <3>2
  <2>9. \A n \in Name : Made(n)' => target'[n].of.by \in Uploads
    BY <1>5, <1>7, <2>4, <2>6
  <2> QED
    BY <2>7, <2>8, <2>9 DEF Once
<1> QED
  BY <1>9, <1>10, <1>11, <1>12, <1>13, <1>14

\* A remover stops before it unlinks: copies that are done stay.
LEMMA StopKeeps ==
  ASSUME NEW r \in Removers, Shapes, Safe, Ends(r), rem[r].pc \in {"copy", "copying"},
         UNCHANGED <<files, disk, req, up, crashes, discarded>>,
         diskErrs' \in Nat, diskErrs' = 0 => diskErrs = 0,
         \A n \in Name : Begun(n)' => Begun(n) /\ target'[n] = target[n],
         \A n \in Name : Made(n) => target'[n] = target[n],
         \A q \in Removers \ {r} : Copying(q) => target'[rem[q].dst] = target[rem[q].dst]
  PROVE  Safe'
<1> USE DEF Safe, Places, Custody
<1>1. OwnPaths' /\ NamesApart'
  BY RemoverOnly
<1>2. \A q \in Removers \ {r} : LinkFile(q)' = LinkFile(q) /\ rem'[q] = rem[q]
  BY DEF LinkFile, Ends
<1>3. Writing' /\ Listed' /\ Taken' /\ Removed'
  BY <1>2 DEF Writing, Listed, Taken, Removed, There, Path, Busy, Ends
<1>4. Seen'
  <2>1. ASSUME NEW q \in Removers \ {r}, rem[q].pc = "unlink", rem[q].op = "save"
        PROVE  target'[rem[q].dst] = target[rem[q].dst]
    BY <2>1, Removals DEF Seen, Shapes
  <2> QED
    BY <1>2, <2>1 DEF Seen, There, Ends, Copying, Begun, Made
<1>5. \A n \in Name : Made(n)' <=> Made(n)
  BY DEF Begun, Made
<1>6. Kept' /\ SavedOf'
  BY <1>5 DEF Kept, SavedOf, Accepted, Holds, There, Path
<1>7. Once'
  BY <1>2, <1>5 DEF Once, Holds, There, Path, Ends
<1> QED
  BY <1>1, <1>3, <1>4, <1>6, <1>7

LEMMA CopyFailsKeeps ==
  ASSUME NEW r \in Removers, Shapes, Drafts, Safe, CopyFails(r)
  PROVE  Safe'
<1>1. /\ Ends(r) /\ rem[r].dst \in Name
      /\ UNCHANGED <<links, halves, files, disk, mu, req, up, crashes, diskErrs, discarded, raced>>
  BY CopyFailsEffect
<1>2. diskErrs \in Nat
  BY DEF Shapes
<1>3. CASE rem[r].pc = "copy" /\ target' = target
  BY <1>1, <1>2, <1>3, StopKeeps DEF Begun
<1>4. CASE rem[r].pc = "copying" /\ target' = [target EXCEPT ![rem[r].dst] = NoFile]
  <2>1. PICK d \in Name : d = rem[r].dst
    BY <1>1
  <2>2. target'[d] = NoFile /\ \A n \in Name : n # d => target'[n] = target[n]
    BY <1>4, <2>1 DEF Shapes
  <2>3. ~Made(d) /\ \A q \in Removers \ {r} : Copying(q) => rem[q].dst \in Name /\ rem[q].dst # d
    BY <1>4, <2>1, Removals DEF Drafts, Copying, Shapes
  <2>4. \A n \in Name : Begun(n)' => Begun(n) /\ target'[n] = target[n]
    BY <2>2 DEF Begun
  <2>5. /\ \A n \in Name : Made(n) => target'[n] = target[n]
        /\ \A q \in Removers \ {r} : Copying(q) => target'[rem[q].dst] = target[rem[q].dst]
    BY <2>2, <2>3
  <2> QED
    BY <1>1, <1>2, <1>4, <2>4, <2>5, StopKeeps
<1> QED
  BY <1>3, <1>4, CopyFailsEffect

LEMMA FragmentKeeps ==
  ASSUME NEW r \in Removers, Shapes, Safe, FragmentStays(r)
  PROVE  Safe'
<1>1. /\ rem[r].pc = "copying" /\ Ends(r) /\ diskErrs' # 0
      /\ UNCHANGED <<links, files, disk, target, mu, req, up, crashes, discarded, raced>>
  BY FragmentEffect
<1>2. diskErrs' \in Nat
  BY DEF Shapes, FragmentStays
<1> QED
  BY <1>1, <1>2, StopKeeps DEF Begun

LEMMA UnlinkKeeps ==
  ASSUME NEW r \in Removers, Shapes, Safe, Unlink(r)
  PROVE  Safe'
<1> USE DEF Safe, Places, Custody
<1>1. /\ rem[r].pc = "unlink" /\ Goes(r, "unregister")
      /\ LinkFile(r) \in Tokens \X Name /\ disk' = [disk EXCEPT ![LinkFile(r)] = NoFile]
      /\ discarded' = discarded \cup Discards(r)
      /\ UNCHANGED <<links, halves, files, target, mu, req, up, crashes, diskErrs, raced>>
  BY UnlinkEffect
<1>2. /\ disk'[LinkFile(r)] = NoFile
      /\ \A p \in Tokens \X Name : p # LinkFile(r) => disk'[p] = disk[p]
      /\ \A p \in Tokens \X Name : There(p)' => There(p) /\ disk'[p] = disk[p]
  BY <1>1 DEF Shapes, There
<1>3. /\ \A q \in Removers : LinkFile(q)' = LinkFile(q)
      /\ \A v \in Uploads : Path(v)' = Path(v)
  BY <1>1 DEF LinkFile, Goes, Path
<1>4. \A q \in Removers : Busy(q) => LinkFile(q) \in Tokens \X Name
  BY Removals DEF LinkFile, Shapes, Busy
<1>5. \A q \in Removers \ {r} : Busy(q) =>
        LinkFile(q) # LinkFile(r) /\ disk'[LinkFile(q)] = disk[LinkFile(q)]
  <2> SUFFICES ASSUME NEW q \in Removers \ {r}, Busy(q) PROVE LinkFile(q) # LinkFile(r)
    BY <1>2, <1>4
  <2>1. rem[q].name # rem[r].name
    BY <1>1 DEF Taken, Busy
  <2> QED
    BY <2>1 DEF LinkFile
<1>6. Taken'
  BY <1>1 DEF Taken, Busy, Goes
<1>7. Writing'
  <2> SUFFICES ASSUME NEW v \in Uploads, up[v].pc = "write" PROVE disk'[Path(v)] = disk[Path(v)]
    BY <1>1, <1>3 DEF Writing
  <2>1. Path(v) = <<req[v].token, up[v].name>> /\ Path(v) \in Tokens \X Name
    BY Records DEF Path, Shapes, Reqs
  <2>2. up[v].name # rem[r].name
    BY <1>1, Apart DEF Busy
  <2> QED
    BY <1>2, <2>1, <2>2 DEF LinkFile
<1>8. OwnPaths' /\ NamesApart' /\ Listed'
  BY <1>1, <1>2, <1>3, Apart DEF OwnPaths, NamesApart, Listed
<1>9. Removed'
  <2> SUFFICES ASSUME diskErrs = 0, NEW q \in Removers, rem'[q].pc = "unregister"
               PROVE  disk'[LinkFile(q)] = NoFile
    BY <1>1, <1>3 DEF Removed
  <2>1. CASE q = r
    BY <1>2, <2>1
  <2>2. CASE q # r
    BY <1>1, <1>5, <2>2 DEF Removed, Busy, Goes
  <2> QED
    BY <2>1, <2>2
<1>10. Seen'
  BY <1>1, <1>3, <1>5 DEF Seen, Busy, Goes, There, Begun, Made, Copying
<1>11. \A v \in Uploads : Path(v) \in Tokens \X Name /\ Holds(v)' => Holds(v)
  BY <1>2, <1>3 DEF Holds, There
<1>12. ASSUME NEW v \in Accepted, Holds(v), ~Holds(v)'
       PROVE  v \in discarded' \/ \E n \in Name : Made(n) /\ target[n].of.by = v
  <2>1. Path(v) = LinkFile(r)
    <3>1. Path(v) \in Tokens \X Name
      BY Records DEF Path, Shapes, Reqs, Accepted
    <3> QED
      BY <1>2, <1>3, <1>12, <3>1 DEF Holds, There, Accepted
  <2>2. rem[r].seen # NoFile /\ rem[r].seen.by = v
    BY <1>1, <1>12, <2>1 DEF Holds, Seen, Begun, Made, Copying
  <2>3. CASE rem[r].op = "delete"
    BY <1>1, <2>2, <2>3 DEF Discards
  <2>4. CASE rem[r].op = "save"
    <3>1. rem[r].dst \in Name
      BY <1>1, Removals DEF Shapes
    <3> QED
      BY <1>1, <2>2, <2>4, <3>1 DEF Seen, Begun, Made, Copying
  <2> QED
    BY <1>1, <2>3, <2>4, Removals DEF Shapes
<1>13. Kept'
  <2> SUFFICES ASSUME NEW v \in Accepted
               PROVE  v \in discarded' \/ Holds(v)'
                      \/ \E n \in Name : Made(n) /\ target[n].of.by = v
    BY <1>1 DEF Kept, Accepted, Begun, Made
  <2>1. v \in discarded \/ Holds(v) \/ \E n \in Name : Made(n) /\ target[n].of.by = v
    BY DEF Kept, Begun, Made
  <2>2. v \in discarded => v \in discarded'
    BY <1>1
  <2> QED
    BY <1>12, <2>1, <2>2
<1>14. SavedOf'
  BY <1>1 DEF SavedOf, Begun, Made
<1>15. Once'
  <2>1. ASSUME crashes = 0, diskErrs = 0, NEW n \in Name, Made(n),
               NEW v \in Uploads, v = target[n].of.by, Holds(v)'
        PROVE  \E q \in Removers : rem'[q].pc = "unlink" /\ rem'[q].op = "save"
                                 /\ LinkFile(q)' = Path(v)'
    <3>1. Holds(v)
      <4>1. up[v].pc \in {"accepted", "cut"}
        BY <2>1 DEF SavedOf, Begun, Made
      <4>2. Path(v) \in Tokens \X Name
        BY <4>1, Records DEF Path, Shapes, Reqs
      <4> QED
        BY <1>11, <2>1, <4>2
    <3>2. PICK q \in Removers : rem[q].pc = "unlink" /\ rem[q].op = "save"
                                /\ LinkFile(q) = Path(v)
      BY <2>1, <3>1 DEF Once, Begun, Made
    <3>3. q # r
      BY <1>1, <1>2, <1>3, <2>1, <3>2 DEF Holds, There
    <3> QED
      BY <1>1, <1>3, <3>2, <3>3 DEF Goes
  <2>2. \A n \in Name : Made(n) => target[n].of.by \in Uploads
    BY Records, Copies DEF Shapes, Begun, Made
  <2> QED
    BY <1>1, <2>1, <2>2 DEF Once, Begun, Made
<1> QED
  BY <1>6, <1>7, <1>8, <1>9, <1>10, <1>13, <1>14, <1>15

LEMMA UnlinkFailsKeeps ==
  ASSUME NEW r \in Removers, Shapes, Safe, UnlinkFails(r)
  PROVE  Safe'
<1> USE DEF Safe, Places, Custody
<1>1. /\ rem[r].pc = "unlink" /\ (Goes(r, "unregister") \/ Ends(r))
      /\ diskErrs' # 0
      /\ UNCHANGED <<links, halves, files, disk, target, mu, req, up, crashes, discarded, raced>>
  BY UnlinkFailsEffect
<1>2. OwnPaths' /\ NamesApart' /\ Kept' /\ SavedOf'
  BY <1>1, RemoverOnly
<1>3. Listed' /\ Removed' /\ Once'
  BY <1>1 DEF Listed, Removed, Once, Begun, Made
<1>4. Writing'
  BY <1>1 DEF Writing, Path
<1>5. Taken' /\ Seen'
  BY <1>1 DEF Taken, Seen, There, Busy, Goes, Ends, LinkFile, Begun, Made, Copying
<1> QED
  BY <1>2, <1>3, <1>4, <1>5

LEMMA UnregisterKeeps ==
  ASSUME NEW r \in Removers, Shapes, Safe, Unregister(r)
  PROVE  Safe'
<1> USE DEF Safe, Places, Custody
<1>1. /\ rem[r].pc = "unregister" /\ Ends(r)
      /\ files' = [files EXCEPT ![rem[r].name] = NoToken]
      /\ UNCHANGED <<links, halves, disk, target, mu, req, up, crashes, diskErrs, discarded, raced>>
  BY Ending DEF Unregister
<1>2. OwnPaths' /\ NamesApart' /\ Kept' /\ SavedOf'
  BY <1>1, RemoverOnly
<1>3. rem[r].name \in Name /\ \A n \in Name : n # rem[r].name => files'[n] = files[n]
  BY <1>1, Removals DEF Shapes
<1>4. \A q \in Removers \ {r} : LinkFile(q)' = LinkFile(q) /\ rem'[q] = rem[q]
  BY <1>1 DEF LinkFile, Ends
<1>5. Taken'
  <2> SUFFICES ASSUME NEW q \in Removers \ {r}, Busy(q) PROVE files'[rem[q].name] = files[rem[q].name]
    BY <1>1, <1>4 DEF Taken, Busy, Ends
  <2>1. rem[q].name # rem[r].name
    BY <1>1 DEF Taken, Busy
  <2>2. rem[q].name \in Name
    BY Removals DEF Busy, Shapes
  <2> QED
    BY <1>3, <2>1, <2>2
<1>6. Writing'
  <2> SUFFICES ASSUME NEW v \in Uploads, up[v].pc = "write" PROVE files'[up[v].name] = NoToken
    BY <1>1 DEF Writing, Path
  <2>1. up[v].name \in Name
    BY Records DEF Shapes
  <2> QED
    BY <1>1, <1>3, <2>1 DEF Writing, Shapes
<1>7. Listed'
  <2> SUFFICES ASSUME diskErrs = 0, NEW p \in Tokens \X Name, There(p), files[p[2]] = p[1]
               PROVE  files'[p[2]] = p[1]
    BY <1>1 DEF Listed, There
  <2>1. p[2] # rem[r].name
    <3> SUFFICES ASSUME p[2] = rem[r].name PROVE FALSE
      OBVIOUS
    <3>1. p[1] = rem[r].token
      BY <1>1 DEF Taken, Busy
    <3>2. p = LinkFile(r)
      BY <3>1 DEF LinkFile
    <3> QED
      BY <1>1, <3>2 DEF Removed, There
  <2> QED
    BY <1>3, <2>1
<1>8. Removed' /\ Seen'
  BY <1>1, <1>4 DEF Removed, Seen, There, Ends, Begun, Made, Copying
<1>9. Once'
  BY <1>1, <1>4 DEF Once, Holds, There, Path, Ends, Begun, Made
<1> QED
  BY <1>2, <1>5, <1>6, <1>7, <1>8, <1>9
LEMMA CrashKeeps ==
  ASSUME Shapes, Safe, Crash
  PROVE  Safe'
<1> USE DEF Safe, Places, Custody
<1>1. UNCHANGED <<disk, target, req, discarded, raced>> /\ crashes' # 0
  BY DEF Crash, Shapes
<1>2. \A r \in Removers : rem'[r].pc = "idle"
  BY Removals DEF Crash
<1>3. ASSUME NEW u \in Uploads
      PROVE  /\ up'[u].pc = IF up[u].pc \in {"create", "createzip", "write"} THEN "cut" ELSE up[u].pc
             /\ Path(u)' = Path(u)
  <2>1. CASE up[u].pc \in {"idle", "accepted", "failed", "cut"}
    BY <1>1, <2>1 DEF Crash, Path
  <2>2. CASE up[u].pc \notin {"idle", "accepted", "failed", "cut"}
    <3>1. up'[u] = [up[u] EXCEPT !.pc = "cut"]
      BY <2>2 DEF Crash
    <3>2. up'[u].pc = "cut" /\ up'[u].name = up[u].name
      BY <2>2, <3>1, UpMoved, "cut" \in UpPlaces DEF Shapes, UpPlaces
    <3>3. up[u].pc \in {"create", "createzip", "write"}
      BY <2>2, Records DEF Shapes, UpPlaces
    <3> QED
      BY <1>1, <3>2, <3>3 DEF Path
  <2> QED
    BY <2>1, <2>2
<1>4. Taken' /\ Removed' /\ Seen' /\ Once'
  BY <1>1, <1>2 DEF Taken, Removed, Seen, Once, Busy, Begun, Made, Copying
<1>5. Writing'
  BY <1>3 DEF Writing
<1>6. OwnPaths' /\ NamesApart'
  BY <1>1, <1>3, Apart DEF OwnPaths, NamesApart, There
<1>7. Listed'
  <2> SUFFICES ASSUME diskErrs' = 0, NEW p \in Tokens \X Name, There(p) PROVE files'[p[2]] = p[1]
    BY <1>1 DEF Listed, There
  <2>1. files' = Reloaded(Tokens)
    BY DEF Crash, Shapes
  <2> DEFINE holders == {t \in Tokens : disk[<<t, p[2]>>] # NoFile}
  <2>2. p = <<p[1], p[2]>> /\ p[1] \in Tokens /\ p[2] \in Name
    OBVIOUS
  <2>3. p[1] \in holders
    BY <2>2 DEF There
  <2>4. ASSUME NEW t \in holders PROVE t = p[1]
    <3>1. <<t, p[2]>> \in Tokens \X Name /\ There(<<t, p[2]>>) /\ <<t, p[2]>>[2] = p[2]
      BY <2>2, <2>4 DEF There
    <3>2. <<t, p[2]>> = p
      BY <3>1 DEF NamesApart
    <3> QED
      BY <2>2, <3>2
  <2>5. Reloaded(Tokens)[p[2]] = IF holders = {} THEN NoToken
                                 ELSE CHOOSE t \in holders : \A s \in holders : s <= t
    BY <2>2 DEF Reloaded
  <2>6. holders \in SUBSET Tokens
    OBVIOUS
  <2> HIDE DEF holders
  <2>7. (CHOOSE t \in holders : \A s \in holders : s <= t) \in holders
    BY <2>3, <2>6, LastHolder
  <2> QED
    BY <2>1, <2>3, <2>4, <2>5, <2>7
<1>8. Kept'
  BY <1>1, <1>3 DEF Kept, Accepted, Holds, There, Begun, Made
<1>9. SavedOf'
  BY <1>1, <1>3, Records, Copies DEF SavedOf, Shapes, Begun
<1> QED
  BY <1>4, <1>5, <1>6, <1>7, <1>8, <1>9

-----------------------------------------------------------------------------
LEMMA InvInit == Init => Inv
<1> SUFFICES ASSUME Init PROVE Inv
  OBVIOUS
<1>1. Shapes
  <2>1. 0 \in 0..MaxCrashes /\ 0 \in 0..MaxDiskErrs
    BY QuarantineAssumption
  <2>2. [u \in Uploads |-> [pc |-> "idle"]] \in [Uploads -> UpStates]
    BY DEF UpStates
  <2>3. [r \in Removers |-> IdleRemover] \in [Removers -> RemStates]
    BY Removals
  <2> QED
    BY <2>1, <2>2, <2>3 DEF Init, Shapes, Reqs
<1>2. MutexHeld
  BY DEF Init, MutexHeld
<1>3. Drafts
  BY DEF Init, IdleRemover, Drafts, Copying, Begun
<1>4. Safe
  <2>1. (\A p \in Tokens \X Name : ~There(p)) /\ (\A n \in Name : ~Begun(n))
        /\ (\A u \in Uploads : up[u].pc = "idle") /\ (\A r \in Removers : rem[r].pc = "idle")
    BY DEF Init, There, IdleRemover, Begun
  <2> QED
    BY <2>1 DEF Safe, Places, Custody, Taken, Writing, OwnPaths, NamesApart, Listed, Removed,
                Seen, Kept, SavedOf, Once, Busy, Accepted, Copying, Made
<1> QED
  BY <1>1, <1>2, <1>3, <1>4 DEF Inv

LEMMA InvStep == Inv /\ [Next]_vars => Inv'
<1> SUFFICES ASSUME Inv, [Next]_vars PROVE Inv'
  OBVIOUS
<1>1. Shapes' /\ MutexHeld' /\ Drafts'
  BY ShapeStep, MutexStep, DraftsStep DEF Inv
<1>2. ASSUME ~raced' PROVE Safe'
  <2>1. ~raced
    <3>1. ASSUME NEW u \in Uploads, Upload(u) PROVE raced => raced'
      BY <3>1, <1>2 DEF Upload, BeginFile, BeginZip, CreateFile, Register, AbortUpload
    <3>2. ASSUME NEW r \in Removers, Remove(r) PROVE raced => raced'
      BY <3>2, <1>2
         DEF Remove, LookUp, PickTarget, CreateTarget, CopyOut, CopyFails, FragmentStays,
             Unlink, UnlinkFails, Unregister
    <3> QED
      BY <3>1, <3>2, <1>2 DEF Next, Crash, vars
  <2>2. Shapes /\ Drafts /\ Safe
    BY <2>1 DEF Inv
  <2>3. ASSUME NEW u \in Uploads, Upload(u) PROVE Safe'
    BY <1>2, <2>2, <2>3, BeginKeeps, CreateKeeps, RegisterKeeps, AbortKeeps DEF Upload
  <2>4. ASSUME NEW r \in Removers, Remove(r) PROVE Safe'
    BY <1>2, <2>2, <2>4, LookUpKeeps, PickKeeps, TargetKeeps, CopyOutKeeps, CopyFailsKeeps,
       FragmentKeeps, UnlinkKeeps, UnlinkFailsKeeps, UnregisterKeeps DEF Remove
  <2>5. CASE UNCHANGED vars
    BY <2>2, <2>5
       DEF vars, Safe, Places, Custody, Taken, Writing, OwnPaths, NamesApart, Listed, Removed,
           Seen, Kept, SavedOf, Once, Busy, Accepted, There, Holds, Path, LinkFile, Copying, Begun,
           Made
  <2> QED
    BY <2>2, <2>3, <2>4, <2>5, CrashKeeps DEF Next
<1> QED
  BY <1>1, <1>2 DEF Inv

\* The invariant, over the whole specification.
THEOREM QuarantineInvariant == Spec => []Inv
<1>1. Init => Inv
  BY InvInit
<1>2. Inv /\ [Next]_vars => Inv'
  BY InvStep
<1> QED
  BY <1>1, <1>2, PTL DEF Spec

\* The types, and m.mu is kept only by a single file being created or written.
THEOREM QuarantineTypes == Spec => []TypeOK
<1>1. Inv => TypeOK
  <2> SUFFICES ASSUME Inv PROVE TypeOK
    OBVIOUS
  <2>1. \A u \in Uploads : up[u].pc \in
          {"idle", "create", "createzip", "write", "accepted", "failed", "cut"}
    BY Records DEF Inv, Shapes, UpPlaces
  <2>2. \A r \in Removers : rem[r].pc \in
          {"idle", "pick", "copy", "copying", "unlink", "unregister"}
    BY Removals DEF Inv, Shapes, RemPlaces
  <2> QED
    BY <2>1, <2>2 DEF Inv, Shapes, MutexHeld, TypeOK
<1> QED
  BY <1>1, QuarantineInvariant, PTL

\* A complete upload, and a copy of it that is done.
LEMMA WholeBytes == \A b \in Bytes : b.whole => b = [by |-> b.by, whole |-> TRUE]
BY DEF Bytes

LEMMA DoneCopies == \A c \in SavedCopy : c.done => c = [of |-> c.of, done |-> TRUE]
BY DEF SavedCopy

LEMMA SavedFields ==
  ASSUME NEW u \in Uploads
  PROVE  \A n \in Saved(u) : n \in Name /\ Made(n) /\ target[n].of.by = u
<1> SUFFICES ASSUME NEW n \in Saved(u) PROVE n \in Name /\ Made(n) /\ target[n].of.by = u
  OBVIOUS
<1>1. PICK b : b = [by |-> u, whole |-> TRUE]
  OBVIOUS
<1>2. b \in Bytes /\ b.by = u
  BY <1>1, Records
<1>3. PICK c : c = [of |-> b, done |-> TRUE]
  OBVIOUS
<1>4. c \in SavedCopy /\ c.of = b /\ c.done /\ c # NoFile
  BY <1>2, <1>3, Copies
<1>5. n \in Name /\ target[n] = c
  BY <1>1, <1>3 DEF Saved
<1> QED
  BY <1>2, <1>4, <1>5 DEF Made, Begun

\* An accepted upload is kept, saved or discarded by its owner, across crashes, and while
\* it is kept it is listed: unless two removers or two uploads raced for a name.
THEOREM UploadsKept == Spec => []NoUploadLost
<1>1. Inv => NoUploadLost
  <2> SUFFICES ASSUME Inv, ~raced, NEW u \in Accepted
               PROVE  /\ u \in discarded \/ OnDisk(u) # {} \/ Saved(u) # {}
                      /\ diskErrs = 0 => \A p \in OnDisk(u) : files[p[2]] = p[1]
    BY DEF NoUploadLost
  <2>1. Shapes /\ Kept /\ SavedOf /\ Listed
    BY DEF Inv, Safe, Custody
  <2>2. Path(u) \in Tokens \X Name
    BY <2>1, Records DEF Path, Shapes, Reqs, Accepted
  <2>3. Holds(u) => Path(u) \in OnDisk(u)
    BY <2>2 DEF Holds, There, OnDisk
  <2>4. ASSUME NEW n \in Name, Made(n), target[n].of.by = u PROVE n \in Saved(u)
    <3>1. target[n] \in SavedCopy /\ target[n].done /\ target[n].of \in Bytes
      BY <2>1, <2>4, Copies DEF Shapes, Made, Begun
    <3>2. target[n].of.whole
      BY <2>1, <2>4 DEF SavedOf, Made, Accepted
    <3>3. target[n].of = [by |-> u, whole |-> TRUE]
      BY <2>4, <3>1, <3>2, WholeBytes
    <3> QED
      BY <3>1, <3>3, DoneCopies DEF Saved
  <2>5. u \in discarded \/ OnDisk(u) # {} \/ Saved(u) # {}
    BY <2>1, <2>3, <2>4 DEF Kept
  <2>6. ASSUME diskErrs = 0, NEW p \in OnDisk(u) PROVE files[p[2]] = p[1]
    BY <2>1, <2>6 DEF Listed, OnDisk, There, Accepted
  <2> QED
    BY <2>5, <2>6
<1> QED
  BY <1>1, QuarantineInvariant, PTL

\* linkSave: what lies in the save folder is a whole upload, unless a crash had cut that
\* upload off, the copy is still being made, or a crash or a failed removal left it half
\* made; and without crashes and failing disk operations there is one copy of it.
THEOREM SavesWholeAndOnce == Spec => []SavedWholeAndOnce
<1>1. Inv => SavedWholeAndOnce
  <2> SUFFICES ASSUME Inv, ~raced PROVE SavedWholeAndOnce!2
    BY DEF SavedWholeAndOnce
  <2>1. Shapes /\ Drafts /\ SavedOf /\ Once
    BY DEF Inv, Safe, Custody
  <2>2. ASSUME NEW n \in Name, target[n] # NoFile, ~(target[n].done /\ target[n].of.whole)
        PROVE  \/ up[target[n].of.by].pc = "cut" \/ n \in halves
               \/ \E r \in Removers : rem[r].pc = "copying" /\ rem[r].dst = n
    <3>1. CASE ~target[n].done
      BY <2>1, <2>2, <3>1 DEF Drafts, Begun, Made, Copying
    <3>2. CASE ~target[n].of.whole
      BY <2>1, <2>2, <3>2 DEF SavedOf, Begun
    <3> QED
      BY <2>2, <3>1, <3>2
  <2>3. ASSUME crashes = 0, diskErrs = 0, NEW u \in Uploads PROVE Cardinality(Saved(u)) <= 1
    <3>1. \A n \in Saved(u) : n \in Name /\ Made(n) /\ target[n].of.by = u
      BY SavedFields
    <3>2. CASE Saved(u) = {}
      BY <3>2, FS_EmptySet
    <3>3. CASE Saved(u) # {}
      <4>1. PICK n \in Saved(u) : TRUE
        BY <3>3
      <4>2. ASSUME NEW m \in Saved(u) PROVE m = n
        BY <2>1, <2>3, <3>1, <4>1 DEF Once
      <4>3. Saved(u) = {n}
        BY <4>1, <4>2
      <4>4. Cardinality(Saved(u)) = 1
        BY <4>3, FS_Singleton
      <4> QED
        BY <4>4
    <3> QED
      BY <3>2, <3>3
  <2> QED
    BY <2>2, <2>3
<1> QED
  BY <1>1, QuarantineInvariant, PTL

\* A file in the quarantine stays the same upload's as long as it is there, and a copy in
\* the save folder stays as it is once it is done.
THEOREM NeverOverwritten == Spec => NothingOverwritten
<1> DEFINE Same ==
      /\ \A p \in Tokens \X Name :
           (disk[p] # NoFile /\ disk'[p] # NoFile) => disk'[p].by = disk[p].by
      /\ \A n \in Name : target[n] # NoFile =>
           \/ target'[n] = target[n]
           \/ /\ ~target[n].done
              /\ target'[n] # NoFile => target'[n].of = target[n].of
<1>1. Inv /\ [Next]_vars => [Same]_vars
  <2> SUFFICES ASSUME Shapes, Drafts, Next PROVE Same
    BY DEF Inv
  <2>1. CASE disk' = disk /\ target' = target
    BY <2>1
  <2>2. ASSUME NEW p \in Tokens \X Name, disk' = [disk EXCEPT ![p] = NoFile], target' = target
        PROVE  Same
    BY <2>2 DEF Shapes
  <2>3. ASSUME NEW u \in Uploads, CreateFile(u) PROVE Same
    <3>1. Path(u) \in Tokens \X Name
      BY <2>3, CreateEffect
    <3> QED
      BY <2>3, <3>1 DEF CreateFile, Shapes
  <2>4. ASSUME NEW u \in Uploads, Register(u) PROVE Same
    <3>1. target' = target
      BY <2>4 DEF Register
    <3>2. CASE disk[Path(u)] = [by |-> u, whole |-> FALSE]
      <4>1. [by |-> u, whole |-> FALSE].by = u
        OBVIOUS
      <4>2. disk[Path(u)].by = u
        BY <3>2, <4>1
      <4>3. PICK b \in Bytes : b.by = u /\ disk' = [disk EXCEPT ![Path(u)] = b]
        BY <2>4, <3>2, RegisterCompletes
      <4> QED
        BY <3>1, <4>2, <4>3 DEF Shapes
    <3>3. CASE disk[Path(u)] # [by |-> u, whole |-> FALSE]
      BY <2>4, <3>1, <3>3 DEF Register
    <3> QED
      BY <3>2, <3>3
  <2>5. ASSUME NEW u \in Uploads, BeginFile(u) \/ BeginZip(u) \/ AbortUpload(u) PROVE Same
    <3>1. AbortUpload(u) => Path(u) \in Tokens \X Name
      BY AbortEffect
    <3> QED
      BY <2>1, <2>2, <2>5, <3>1 DEF BeginFile, BeginZip, AbortUpload
  <2>6. ASSUME NEW r \in Removers, CreateTarget(r) \/ CopyOut(r) \/ CopyFails(r) PROVE Same
    <3>1. CASE CreateTarget(r)
      BY <3>1, TargetEffect DEF Shapes, Begun
    <3>2. CASE CopyOut(r)
      <4>1. PICK c \in SavedCopy, d \in Name :
              /\ d = rem[r].dst /\ c.of = target[d].of /\ target' = [target EXCEPT ![d] = c]
              /\ Begun(d) /\ ~Made(d) /\ disk' = disk
        BY <3>2, CopyEffect
      <4> QED
        BY <4>1 DEF Shapes, Begun, Made
    <3>3. CASE CopyFails(r)
      <4>1. disk' = disk
        BY <3>3, CopyFailsEffect
      <4>2. CASE target' = target
        BY <2>1, <4>1, <4>2
      <4>3. CASE rem[r].pc = "copying" /\ target' = [target EXCEPT ![rem[r].dst] = NoFile]
        <5>1. PICK d \in Name : d = rem[r].dst
          BY <3>3, CopyFailsEffect
        <5>2. ~Made(d)
          BY <4>3, <5>1 DEF Drafts, Copying
        <5> QED
          BY <4>1, <4>3, <5>1, <5>2 DEF Shapes, Begun, Made
      <4> QED
        BY <3>3, <4>2, <4>3, CopyFailsEffect
    <3> QED
      BY <2>6, <3>1, <3>2, <3>3
  <2>7. ASSUME NEW r \in Removers, Unlink(r) PROVE Same
    BY <2>2, <2>7, UnlinkEffect
  <2>8. ASSUME NEW r \in Removers, Remove(r) PROVE Same
    BY <2>1, <2>6, <2>7, <2>8 DEF Remove, LookUp, PickTarget, FragmentStays, UnlinkFails,
                                           Unregister
  <2>9. CASE Crash
    BY <2>1, <2>9 DEF Crash
  <2> QED
    BY <2>3, <2>4, <2>5, <2>8, <2>9 DEF Next, Upload
<1> QED
  BY <1>1, QuarantineInvariant, PTL DEF Spec, NothingOverwritten
=============================================================================
