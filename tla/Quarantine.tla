----------------------------- MODULE Quarantine -----------------------------
(***************************************************************************)
(* The quarantine of drop-link uploads (drops.go): the files on disk, one  *)
(* directory per link, and m.files, the registry that makes them inbox     *)
(* items, keyed by name alone.  Uploads that were admitted (module         *)
(* DropLinks) put files in; saves and deletes, asked for by the owner, an  *)
(* MCP tool or auto-save, take them out; a restart rebuilds the registry   *)
(* from the directories.                                                   *)
(*                                                                         *)
(* m.mu guards the registry.  storeFile holds it from choosing the name to *)
(* registering the file.  storeFolderZip, linkSave and deleteLinkFile hold *)
(* it for each look-up and update only, and touch the disk in between.     *)
(***************************************************************************)
EXTENDS Integers, FiniteSets

CONSTANTS
  Tokens,       \* links, numbered in the order of their directory names
  Uploads,      \* one admitted upload each: a single file, or a zipped folder
  Removers,     \* requests that save or delete an inbox item
  Bases,        \* names without the " (N)" suffix
  MaxSuffix,    \* bound: names carry a suffix 0..MaxSuffix, 0 for none
  DaemonNames,  \* names waiting in the Taildrop inbox of the daemon
  NoToken, NoFile, Nobody,
  MaxCrashes,   \* bound: how often the process dies and restarts
  MaxDiskErrs   \* bound: how often a file cannot be unlinked, or droplinks.json
                \* not be written

Name == Bases \X (0..MaxSuffix)

\* The bytes of an upload, complete or still being written.
Bytes == [by : Uploads, whole : BOOLEAN]

\* A copy in the save folder, done or still being written.
SavedCopy == [of : Bytes, done : BOOLEAN]

ASSUME QuarantineAssumption ==
  /\ Tokens \subseteq Nat /\ IsFiniteSet(Tokens) /\ NoToken \notin Tokens
  /\ Nobody \notin Uploads /\ NoFile \notin Bytes \cup SavedCopy
  /\ DaemonNames \subseteq Name
  /\ MaxSuffix \in Nat /\ MaxCrashes \in Nat /\ MaxDiskErrs \in Nat

VARIABLES
  links,    \* m.links: the links that are known
  files,    \* m.files: the link under which each name is registered
  disk,     \* the quarantine directories: the bytes at each path
  target,   \* the folder files are saved into
  mu,       \* the upload that keeps m.mu over several steps (storeFile)
  req,      \* each upload's link, kind and base name
  up,       \* where each upload is, and the name it got
  rem,      \* where each save or delete is
  crashes, diskErrs,
  halves,    \* history: the copies a crash or a failed removal left half written
  discarded, \* history: the uploads an owner's delete was meant for
  raced      \* history: two removers were in flight for one name, or two
             \* uploads got the same name

vars == <<links, files, disk, target, mu, req, up, rem, crashes, diskErrs, halves,
          discarded, raced>>

IdleRemover == [pc |-> "idle"]

Init ==
  /\ links = Tokens
  /\ files = [n \in Name |-> NoToken]
  /\ disk = [p \in Tokens \X Name |-> NoFile]
  /\ target = [n \in Name |-> NoFile]
  /\ mu = Nobody
  /\ req \in [Uploads -> [token : Tokens, kind : {"file", "folder"}, base : Bases]]
  /\ up = [u \in Uploads |-> [pc |-> "idle"]]
  /\ rem = [r \in Removers |-> IdleRemover]
  /\ crashes = 0 /\ diskErrs = 0
  /\ halves = {} /\ discarded = {} /\ raced = FALSE

-----------------------------------------------------------------------------
\* uniqueName and conflictFreeName: base, base (1), base (2), ... whichever is
\* free first.
\* (HasFree: the suffix stays below its bound.)
HasFree(base, from, taken) == \E k \in from..MaxSuffix : <<base, k>> \notin taken

FirstFree(base, from, taken) ==
  CHOOSE n \in Name :
    /\ n[1] = base /\ n[2] >= from /\ n \notin taken
    /\ \A k \in from..(n[2] - 1) : <<base, k>> \in taken

Registered == {n \in Name : files[n] # NoToken}
Path(u) == <<req[u].token, up[u].name>>
Unlocked == mu = Nobody

\* The upload lock of the link (handleDropUpload).
LinkFree(u) ==
  \A v \in Uploads \ {u} :
    req[v].token = req[u].token => up[v].pc \in {"idle", "accepted", "failed", "cut"}

\* The name an upload gets.  A daemon that cannot be asked counts as having no
\* file of that name.
ChooseName(u) ==
  \E inbox \in {{}, DaemonNames} :
    /\ HasFree(req[u].base, 0, Registered \cup inbox)
    /\ up' = [up EXCEPT ![u] =
      [pc |-> IF req[u].kind = "file" THEN "create" ELSE "createzip",
       name |-> FirstFree(req[u].base, 0, Registered \cup inbox)]]

\* storeFile: m.mu is kept from here...
BeginFile(u) ==
  /\ up[u].pc = "idle" /\ req[u].kind = "file" /\ req[u].token \in links
  /\ LinkFree(u) /\ Unlocked
  /\ ChooseName(u)
  /\ mu' = u
  /\ UNCHANGED <<links, halves, files, disk, target, req, rem, crashes, diskErrs,
                 discarded, raced>>

\* storeFolderZip: ... but not here.
BeginZip(u) ==
  /\ up[u].pc = "idle" /\ req[u].kind = "folder" /\ req[u].token \in links
  /\ LinkFree(u) /\ Unlocked
  /\ ChooseName(u)
  /\ UNCHANGED <<links, halves, files, disk, target, mu, req, rem, crashes, diskErrs,
                 discarded, raced>>

Creating(u) == up[u].pc \in {"create", "createzip"}
LetGo(u) == mu' = IF mu = u THEN Nobody ELSE mu

\* Mutant: O_CREATE|O_TRUNC instead of O_CREATE|O_EXCL.
CreateTruncating(u) ==
  /\ Creating(u)
  /\ disk' = [disk EXCEPT ![Path(u)] = [by |-> u, whole |-> FALSE]]
  /\ up' = [up EXCEPT ![u].pc = "write"]
  /\ UNCHANGED <<links, halves, mu, files, target, req, rem, crashes, diskErrs,
                 discarded, raced>>

\* Another link has a file of this name, on disk or in the registry.
NameShared(u) ==
  \/ files[up[u].name] # NoToken
  \/ \E t \in Tokens \ {req[u].token} : disk[<<t, up[u].name>>] # NoFile

\* OpenFile with O_EXCL: a file that is there already fails the upload.
CreateFile(u) ==
  /\ Creating(u)
  /\ IF disk[Path(u)] = NoFile
     THEN /\ disk' = [disk EXCEPT ![Path(u)] = [by |-> u, whole |-> FALSE]]
          /\ up' = [up EXCEPT ![u].pc = "write"]
          /\ raced' = (raced \/ NameShared(u))
          /\ UNCHANGED mu
     ELSE /\ up' = [up EXCEPT ![u].pc = "failed"]
          /\ LetGo(u)
          /\ UNCHANGED <<disk, raced>>
  /\ UNCHANGED <<links, halves, files, target, req, rem, crashes, diskErrs, discarded>>

\* Mutant: the file is on disk but not in the registry.
RegisterNothing(u) ==
  /\ up[u].pc = "write"
  /\ mu \in {u, Nobody}
  /\ disk' = [disk EXCEPT ![Path(u)].whole = TRUE]
  /\ up' = [up EXCEPT ![u].pc = "accepted"]
  /\ LetGo(u)
  /\ UNCHANGED <<links, halves, files, raced, target, req, rem, crashes, diskErrs,
                 discarded>>

\* Mutant: registered before the bytes are all there.
RegisterTorn(u) ==
  /\ up[u].pc = "write"
  /\ mu \in {u, Nobody}
  /\ files' = [files EXCEPT ![up[u].name] = req[u].token]
  /\ up' = [up EXCEPT ![u].pc = "accepted"]
  /\ LetGo(u)
  /\ raced' = (raced \/ NameShared(u))
  /\ UNCHANGED <<links, halves, disk, target, req, rem, crashes, diskErrs, discarded>>

\* The copy is complete and the file becomes an inbox item.  If the path was
\* unlinked meanwhile the bytes went to a file without a name.
Register(u) ==
  /\ up[u].pc = "write"
  /\ mu \in {u, Nobody}
  /\ disk' = IF disk[Path(u)] = [by |-> u, whole |-> FALSE]
             THEN [disk EXCEPT ![Path(u)].whole = TRUE] ELSE disk
  /\ files' = [files EXCEPT ![up[u].name] = req[u].token]
  /\ up' = [up EXCEPT ![u].pc = "accepted"]
  /\ LetGo(u)
  /\ raced' = (raced \/ NameShared(u))
  /\ UNCHANGED <<links, halves, target, req, rem, crashes, diskErrs, discarded>>

\* Mutant: an error return that does not unlock m.mu.
AbortLocked(u) ==
  /\ up[u].pc = "write"
  /\ disk' = [disk EXCEPT ![Path(u)] = NoFile]
  /\ up' = [up EXCEPT ![u].pc = "failed"]
  /\ UNCHANGED <<links, halves, mu, files, target, req, rem, crashes, diskErrs,
                 discarded, raced>>

\* The copy fails: what was written is removed.
AbortUpload(u) ==
  /\ up[u].pc = "write"
  /\ disk' = [disk EXCEPT ![Path(u)] = NoFile]
  /\ up' = [up EXCEPT ![u].pc = "failed"]
  /\ LetGo(u)
  /\ UNCHANGED <<links, halves, files, target, req, rem, crashes, diskErrs, discarded,
                 raced>>

-----------------------------------------------------------------------------
\* linkSave and deleteLinkFile.
LinkFile(r) == <<rem[r].token, rem[r].name>>
Step(r, label) == rem' = [rem EXCEPT ![r].pc = label]
Done(r) == rem' = [rem EXCEPT ![r] = IdleRemover]

\* All that is left to do is by name.
Rest(r) ==
  rem' = [rem EXCEPT ![r].pc = "unregister", ![r].seen = NoFile, ![r].dst = rem[r].name]

\* m.file(name).
LookUp(r, op, n) ==
  /\ rem[r].pc = "idle"
  /\ Unlocked
  /\ files[n] # NoToken
  /\ rem' = [rem EXCEPT ![r] =
       [pc |-> IF op = "save" THEN "pick" ELSE "unlink", op |-> op, name |-> n,
        token |-> files[n], dst |-> n,
        seen |-> IF op = "save" THEN NoFile ELSE disk[<<files[n], n>>]]]
  /\ raced' = (raced \/ \E q \in Removers \ {r} : rem[q].pc # "idle" /\ rem[q].name = n)
  /\ UNCHANGED <<links, halves, files, disk, target, mu, req, up, crashes, diskErrs,
                 discarded>>

PickTarget(r) ==
  /\ rem[r].pc = "pick"
  /\ LET there == {n \in Name : target[n] # NoFile}
     IN  /\ HasFree(rem[r].name[1], rem[r].name[2], there)
         /\ rem' = [rem EXCEPT ![r].pc = "copy",
                               ![r].dst = FirstFree(rem[r].name[1], rem[r].name[2], there)]
  /\ UNCHANGED <<links, halves, files, disk, target, mu, req, up, crashes, diskErrs,
                 discarded, raced>>

\* Open the source and create the target (O_EXCL).
CreateTarget(r) ==
  /\ rem[r].pc = "copy"
  /\ disk[LinkFile(r)] # NoFile
  /\ target[rem[r].dst] = NoFile
  /\ target' = [target EXCEPT ![rem[r].dst] = [of |-> disk[LinkFile(r)], done |-> FALSE]]
  /\ rem' = [rem EXCEPT ![r].pc = "copying", ![r].seen = disk[LinkFile(r)]]
  /\ UNCHANGED <<links, halves, files, disk, mu, req, up, crashes, diskErrs, discarded,
                 raced>>

\* io.Copy and the close succeed.
CopyOut(r) ==
  /\ rem[r].pc = "copying"
  /\ target' = [target EXCEPT ![rem[r].dst].done = TRUE]
  /\ Step(r, "unlink")
  /\ UNCHANGED <<links, halves, files, disk, mu, req, up, crashes, diskErrs, discarded,
                 raced>>

\* Mutant: the quarantined file is removed when the copy fails, too.
CopyFailsUnlinking(r) ==
  /\ rem[r].pc \in {"copy", "copying"}
  /\ disk' = [disk EXCEPT ![LinkFile(r)] = NoFile]
  /\ Done(r)
  /\ UNCHANGED <<links, halves, files, target, mu, req, up, crashes, diskErrs, discarded,
                 raced>>

\* The source is gone or the target taken; or the disk is full, and the half-written
\* target is removed.
CopyFails(r) ==
  /\ rem[r].pc \in {"copy", "copying"}
  /\ target' = IF rem[r].pc = "copy" THEN target
               ELSE [target EXCEPT ![rem[r].dst] = NoFile]
  /\ Done(r)
  /\ UNCHANGED <<links, halves, files, disk, mu, req, up, crashes, diskErrs, discarded,
                 raced>>

\* That fails, too: nobody looks.
FragmentStays(r) ==
  /\ rem[r].pc = "copying"
  /\ diskErrs < MaxDiskErrs
  /\ diskErrs' = diskErrs + 1
  /\ halves' = halves \cup {rem[r].dst}
  /\ Done(r)
  /\ UNCHANGED <<links, files, disk, target, mu, req, up, crashes, discarded, raced>>

Discards(r) ==
  IF rem[r].op = "delete" /\ rem[r].seen # NoFile THEN {rem[r].seen.by} ELSE {}

\* Mutant: a save copies, and leaves the quarantine as it was.
StopAfterCopy(r) ==
  /\ rem[r].pc = "unlink"
  /\ discarded' = discarded \cup Discards(r)
  /\ Done(r)
  /\ UNCHANGED <<links, halves, disk, files, target, mu, req, up, crashes, diskErrs,
                 raced>>

\* os.Remove(lf.Path); a file that is gone already is no error.
Unlink(r) ==
  /\ rem[r].pc = "unlink"
  /\ disk' = [disk EXCEPT ![LinkFile(r)] = NoFile]
  /\ discarded' = discarded \cup Discards(r)
  /\ Rest(r)
  /\ UNCHANGED <<links, halves, files, target, mu, req, up, crashes, diskErrs, raced>>

\* It fails: a delete reports that, a save goes on as if it had worked.
UnlinkFails(r) ==
  /\ rem[r].pc = "unlink"
  /\ diskErrs < MaxDiskErrs
  /\ diskErrs' = diskErrs + 1
  /\ IF rem[r].op = "delete" THEN Done(r) ELSE Rest(r)
  /\ UNCHANGED <<links, halves, files, disk, target, mu, req, up, crashes, discarded,
                 raced>>

\* m.removeFile(name): by name, whatever is registered under it now.
Unregister(r) ==
  /\ rem[r].pc = "unregister"
  /\ Unlocked
  /\ files' = [files EXCEPT ![rem[r].name] = NoToken]
  /\ Done(r)
  /\ UNCHANGED <<links, halves, disk, target, mu, req, up, crashes, diskErrs, discarded,
                 raced>>

-----------------------------------------------------------------------------
\* load: every file of every link that is known then, in directory order, so the last
\* link that has a file of some name gets the name.
Reloaded(known) ==
  [n \in Name |->
     LET holders == {t \in known : disk[<<t, n>>] # NoFile}
     IN  IF holders = {} THEN NoToken
         ELSE CHOOSE t \in holders : \A s \in holders : s <= t]

\* The process dies and starts again.  A link is forgotten if droplinks.json could
\* not be written since it was made; its directory is then left alone.
Crash ==
  /\ crashes < MaxCrashes
  /\ crashes' = crashes + 1
  /\ \E known \in SUBSET links :
       /\ links' = known
       /\ files' = Reloaded(known)
       /\ \/ known = links /\ UNCHANGED diskErrs
          \/ known # links /\ diskErrs < MaxDiskErrs /\ diskErrs' = diskErrs + 1
  /\ mu' = Nobody
  /\ up' = [u \in Uploads |->
       IF up[u].pc \in {"idle", "accepted", "failed", "cut"}
       THEN up[u] ELSE [up[u] EXCEPT !.pc = "cut"]]
  /\ halves' = halves \cup {n \in Name :
       \E r \in Removers : rem[r].pc = "copying" /\ rem[r].dst = n}
  /\ rem' = [r \in Removers |-> IdleRemover]
  /\ UNCHANGED <<disk, target, req, discarded, raced>>

Upload(u) ==
  BeginFile(u) \/ BeginZip(u) \/ CreateFile(u) \/ Register(u) \/ AbortUpload(u)

Remove(r) ==
  \/ \E op \in {"save", "delete"}, n \in Name : LookUp(r, op, n)
  \/ PickTarget(r) \/ CreateTarget(r) \/ CopyOut(r) \/ CopyFails(r) \/ FragmentStays(r)
  \/ Unlink(r) \/ UnlinkFails(r) \/ Unregister(r)

Next ==
  \/ \E u \in Uploads : Upload(u)
  \/ \E r \in Removers : Remove(r)
  \/ Crash

Spec == Init /\ [][Next]_vars

-----------------------------------------------------------------------------
TypeOK ==
  /\ links \subseteq Tokens
  /\ files \in [Name -> Tokens \cup {NoToken}]
  /\ disk \in [Tokens \X Name -> Bytes \cup {NoFile}]
  /\ target \in [Name -> SavedCopy \cup {NoFile}]
  /\ mu \in Uploads \cup {Nobody}
  /\ mu # Nobody => req[mu].kind = "file" /\ up[mu].pc \in {"create", "write"}
  /\ \A u \in Uploads : up[u].pc \in
       {"idle", "create", "createzip", "write", "accepted", "failed", "cut"}
  /\ \A r \in Removers : rem[r].pc \in
       {"idle", "pick", "copy", "copying", "unlink", "unregister"}
  /\ halves \subseteq Name /\ discarded \subseteq Uploads
  /\ crashes \in 0..MaxCrashes /\ diskErrs \in 0..MaxDiskErrs
  /\ raced \in BOOLEAN

Accepted == {u \in Uploads : up[u].pc = "accepted"}
OnDisk(u) == {p \in Tokens \X Name : disk[p] # NoFile /\ disk[p].by = u}
Saved(u) ==
  {n \in Name : target[n] = [of |-> [by |-> u, whole |-> TRUE], done |-> TRUE]}

\* An upload whose sender was told it arrived is still in the quarantine, was
\* saved, or was deleted by the owner; the only way to lose one is a race the
\* code does not exclude (see UploadNamesUnique and SaveUnlinksItsCopy).  Crashes lose
\* nothing.  And while it is in the quarantine it is an inbox item: the owner can see
\* it, before and after a restart.
NoUploadLost ==
  ~raced => \A u \in Accepted :
    /\ u \in discarded \/ OnDisk(u) # {} \/ Saved(u) # {}
    /\ diskErrs = 0 => \A p \in OnDisk(u) : files[p[2]] = p[1]

\* What lies in the save folder is a whole upload, unless a crash cut the upload off
\* (the restart lists the fragment as if it were complete), the copy is still being
\* made, or a crash or a failed removal left it half made: the target has its final
\* name from the start.  And an upload is saved once, unless the save was interrupted
\* by a crash or could not remove the original.
SavedWholeAndOnce ==
  ~raced =>
    /\ \A n \in Name :
         (target[n] # NoFile /\ ~(target[n].done /\ target[n].of.whole)) =>
           \/ up[target[n].of.by].pc = "cut" \/ n \in halves
           \/ \E r \in Removers : rem[r].pc = "copying" /\ rem[r].dst = n
    /\ crashes = 0 /\ diskErrs = 0 => \A u \in Uploads : Cardinality(Saved(u)) <= 1

\* Bytes on disk never turn into another upload's bytes: names are only reused
\* after the file is gone, in the quarantine and in the save folder; and a copy
\* that is done stays as it is.
NothingOverwritten ==
  [][ /\ \A p \in Tokens \X Name :
           (disk[p] # NoFile /\ disk'[p] # NoFile) => disk'[p].by = disk[p].by
      /\ \A n \in Name : target[n] # NoFile =>
           \/ target'[n] = target[n]
           \/ /\ ~target[n].done
              /\ target'[n] # NoFile => target'[n].of = target[n].of ]_vars

\* drops.go:445 "Names must be unique against the whole inbox (daemon + other
\* links)": two accepted uploads in the quarantine never share a name.
UploadNamesUnique ==
  \A u, v \in Accepted : \A p \in OnDisk(u), q \in OnDisk(v) :
    u # v => p[2] # q[2]

-----------------------------------------------------------------------------
\* What the source says and the code does not keep; no run checks it.

\* drops.go:639 "linkSave moves a quarantined upload into dir ..., then removes it
\* from the quarantine": what a save unlinks is what it copied.
SaveUnlinksItsCopy ==
  [][ \A r \in Removers :
        (rem[r].pc = "unlink" /\ rem'[r].pc = "unregister" /\ rem[r].op = "save")
          => disk[LinkFile(r)] \in {rem[r].seen, NoFile} ]_vars
=============================================================================
