----------------------------- MODULE DropLinks -----------------------------
(***************************************************************************)
(* Drop links (drops.go, handleDropLinks and the MCP drop-link tools): the *)
(* registry of capability links, its copy in droplinks.json, and the path  *)
(* of an upload from its arrival to the moment its files are stored.       *)
(*                                                                         *)
(* Each method that changes a link changes it under m.mu, unlocks, and     *)
(* then calls persist, which takes m.mu again and writes the whole         *)
(* registry as it is by then.  So every change is two steps here, and any  *)
(* other goroutine, or a crash, may come in between.  Where the uploaded   *)
(* bytes go is module Quarantine; here an upload only lands or does not.   *)
(***************************************************************************)
EXTENDS TokenBucket, FiniteSets

CONSTANTS
  Tokens,      \* the random tokens that create may draw
  Uploads,     \* upload requests, each sent once
  Admins,      \* requests of the owner: UI calls and MCP tools
  Dirs,        \* auto-save folders
  Lifetimes,   \* the ttl of a link, in seconds
  UseLimits,   \* MaxUses; 0 or less is unlimited
  RateLimits,  \* RatePerMin; 0 or less is unlimited
  NoLink, NoDir, Nobody,
  TickSecs,    \* bound: the clock moves in steps of TickSecs seconds...
  MaxTime,     \* ... up to MaxTime
  MaxCrashes,  \* bound: how often the process dies and restarts
  MaxDiskErrs  \* bound: how often droplinks.json cannot be written

Link == [expires : Nat, maxUses : UseLimits, uses : Nat, revoked : BOOLEAN,
         dir : Dirs \cup {NoDir}, rate : RateLimits]

ASSUME LinkAssumption ==
  /\ NoLink \notin Link
  /\ NoDir \notin Dirs
  /\ Nobody \notin Uploads
  /\ Lifetimes \subseteq Nat
  /\ UseLimits \subseteq Int
  /\ RateLimits \subseteq Int
ASSUME LinkBounds ==
  /\ TickSecs \in Nat /\ MaxTime \in Nat
  /\ MaxCrashes \in Nat /\ MaxDiskErrs \in Nat

VARIABLES
  links,    \* m.links
  disk,     \* droplinks.json
  buckets,  \* m.rateLimiters
  lock,     \* uploadMu: the upload that holds a token's upload lock
  pc,       \* where each upload is in handleDropUpload, or its answer
  tok,      \* the token in its URL
  admin,    \* each owner's request between its change and its persist
  now,      \* the clock
  crashes, diskErrs,
  landed,   \* history: the uploads that left a file in the quarantine
  revokeAcked \* history: the links whose revocation was answered "ok"

vars == <<links, disk, buckets, lock, pc, tok, admin, now, crashes, diskErrs,
          landed, revokeAcked>>

Idle == [op |-> "idle", token |-> Nobody]

\* Where an upload holds its token's lock, and how it can end: stored, 410, 429,
\* 400, or cut off by a crash.
Holding == {"rate", "consume", "persist", "parse", "store"}
Answers == {"accepted", "gone", "limited", "bad", "cut"}

Init ==
  /\ links = [t \in Tokens |-> NoLink]
  /\ disk = [t \in Tokens |-> NoLink]
  /\ buckets = [t \in Tokens |-> FreshBucket]
  /\ lock = [t \in Tokens |-> Nobody]
  /\ pc = [u \in Uploads |-> "idle"]
  /\ tok \in [Uploads -> Tokens]
  /\ admin = [a \in Admins |-> Idle]
  /\ now = 0 /\ crashes = 0 /\ diskErrs = 0
  /\ landed = {} /\ revokeAcked = {}

-----------------------------------------------------------------------------
\* persist: tmp file and rename, so the old copy or the whole registry.  A
\* failed write is swallowed: the caller answers as if it had been written.
Persist ==
  \/ disk' = links /\ UNCHANGED diskErrs
  \/ /\ diskErrs < MaxDiskErrs
     /\ diskErrs' = diskErrs + 1
     /\ UNCHANGED disk

Alive(t) == links[t] # NoLink

\* usable, for a link that exists.
Spent(l) == l.maxUses > 0 /\ l.uses >= l.maxUses
Usable(t) ==
  /\ Alive(t)
  /\ ~links[t].revoked
  /\ now <= links[t].expires
  /\ ~Spent(links[t])

-----------------------------------------------------------------------------
\* The owner's requests.  A fresh token is one nobody has seen.
Create(a, t, ttl, uses, rate) ==
  /\ admin[a] = Idle
  /\ ~Alive(t) /\ disk[t] = NoLink /\ (\A u \in Uploads : tok[u] = t => pc[u] = "idle")
  /\ links' = [links EXCEPT ![t] =
       [expires |-> now + ttl, maxUses |-> uses, uses |-> 0, revoked |-> FALSE,
        dir |-> NoDir, rate |-> rate]]
  /\ admin' = [admin EXCEPT ![a] = [op |-> "create", token |-> t]]
  /\ UNCHANGED <<disk, buckets, lock, pc, tok, now, crashes, diskErrs, landed, revokeAcked>>

\* An unknown token is answered "ok" too, after a write that changes nothing.
Revoke(a, t) ==
  /\ admin[a] = Idle
  /\ IF Alive(t)
     THEN /\ links' = [links EXCEPT ![t].revoked = TRUE]
          /\ admin' = [admin EXCEPT ![a] = [op |-> "revoke", token |-> t]]
     ELSE /\ admin' = [admin EXCEPT ![a] = [op |-> "unknown", token |-> t]]
          /\ UNCHANGED links
  /\ UNCHANGED <<disk, buckets, lock, pc, tok, now, crashes, diskErrs, landed, revokeAcked>>

\* Here an unknown token is refused before anything is written.
SetAutoSaveDir(a, t, d) ==
  /\ admin[a] = Idle
  /\ Alive(t)
  /\ links' = [links EXCEPT ![t].dir = d]
  /\ admin' = [admin EXCEPT ![a] = [op |-> "setdir", token |-> t]]
  /\ UNCHANGED <<disk, buckets, lock, pc, tok, now, crashes, diskErrs, landed, revokeAcked>>

\* Mutant: the answer is sent without the write.
AnswerUnwritten(a) ==
  /\ admin[a] # Idle
  /\ revokeAcked' = revokeAcked \cup
       {t \in Tokens : admin[a] = [op |-> "revoke", token |-> t]}
  /\ admin' = [admin EXCEPT ![a] = Idle]
  /\ UNCHANGED <<links, disk, diskErrs, buckets, lock, pc, tok, now, crashes,
                 landed>>

\* The second half of each of them, and the answer.
Answer(a) ==
  /\ admin[a] # Idle
  /\ Persist
  /\ revokeAcked' = revokeAcked \cup
       {t \in Tokens : admin[a] = [op |-> "revoke", token |-> t]}
  /\ admin' = [admin EXCEPT ![a] = Idle]
  /\ UNCHANGED <<links, buckets, lock, pc, tok, now, crashes, landed>>

-----------------------------------------------------------------------------
\* handleDropUpload, in the order of the code.
Goto(u, label) == pc' = [pc EXCEPT ![u] = label]
Release(u) == lock' = [lock EXCEPT ![tok[u]] = Nobody]

Arrive(u) ==
  /\ pc[u] = "idle"
  /\ Goto(u, "waiting")
  /\ UNCHANGED <<links, disk, buckets, lock, tok, admin, now, crashes, diskErrs,
                 landed, revokeAcked>>

\* Mutant: usable does not look at Revoked.
AdmitRevoked(u) ==
  /\ pc[u] = "waiting"
  /\ lock[tok[u]] = Nobody
  /\ IF Alive(tok[u]) /\ ~Spent(links[tok[u]])
     THEN Goto(u, "rate") /\ lock' = [lock EXCEPT ![tok[u]] = u]
     ELSE Goto(u, "gone") /\ UNCHANGED lock
  /\ UNCHANGED <<links, disk, buckets, tok, admin, now, crashes, diskErrs,
                 landed, revokeAcked>>

\* Mutant: no upload lock.
AdmitUnlocked(u) ==
  /\ pc[u] = "waiting"
  /\ IF Usable(tok[u])
     THEN Goto(u, "rate") /\ lock' = [lock EXCEPT ![tok[u]] = u]
     ELSE Goto(u, "gone") /\ UNCHANGED lock
  /\ UNCHANGED <<links, disk, buckets, tok, admin, now, crashes, diskErrs,
                 landed, revokeAcked>>

\* Take the token's lock and ask usable.
Admit(u) ==
  /\ pc[u] = "waiting"
  /\ lock[tok[u]] = Nobody
  /\ IF Usable(tok[u])
     THEN Goto(u, "rate") /\ lock' = [lock EXCEPT ![tok[u]] = u]
     ELSE Goto(u, "gone") /\ UNCHANGED lock
  /\ UNCHANGED <<links, disk, buckets, tok, admin, now, crashes, diskErrs,
                 landed, revokeAcked>>

\* Mutant: the use is spent before the rate is checked.
CheckRateCounted(u) ==
  LET t       == tok[u]
      b       == Refill(buckets[t], links[t].rate, now)
      limited == links[t].rate > 0 /\ ~HasToken(b, links[t].rate)
  IN
  /\ pc[u] = "rate"
  /\ buckets' = [buckets EXCEPT ![t] = IF limited THEN b ELSE Take(b)]
  /\ IF limited
     THEN Goto(u, "limited") /\ Release(u) /\ links' = [links EXCEPT ![t].uses = @ + 1]
     ELSE Goto(u, "consume") /\ UNCHANGED <<lock, links>>
  /\ UNCHANGED <<disk, tok, admin, now, crashes, diskErrs, landed, revokeAcked>>

\* checkRate: a link without a cap, or revoked by now, passes unasked.
CheckRate(u) ==
  LET t    == tok[u]
      rate == links[t].rate
      b    == Refill(buckets[t], rate, now)
      open == ~Alive(t) \/ links[t].revoked \/ rate <= 0
  IN
  /\ pc[u] = "rate"
  /\ \/ /\ open
        /\ Goto(u, "consume")
        /\ UNCHANGED <<buckets, lock>>
     \/ /\ ~open
        /\ HasToken(b, rate)
        /\ buckets' = [buckets EXCEPT ![t] = Take(b)]
        /\ Goto(u, "consume")
        /\ UNCHANGED lock
     \/ /\ ~open
        /\ ~HasToken(b, rate)
        /\ buckets' = [buckets EXCEPT ![t] = b]
        /\ Goto(u, "limited")
        /\ Release(u)
  /\ UNCHANGED <<links, disk, tok, admin, now, crashes, diskErrs, landed,
                 revokeAcked>>

\* useOnce, its change...
Consume(u) ==
  /\ pc[u] = "consume"
  /\ links' = IF Alive(tok[u]) THEN [links EXCEPT ![tok[u]].uses = @ + 1] ELSE links
  /\ Goto(u, "persist")
  /\ UNCHANGED <<disk, buckets, lock, tok, admin, now, crashes, diskErrs, landed,
                 revokeAcked>>

\* Mutant: the use is not written before the body is read.
UseUnwritten(u) ==
  /\ pc[u] = "persist"
  /\ Goto(u, "parse")
  /\ UNCHANGED <<disk, diskErrs, links, buckets, lock, tok, admin, now, crashes,
                 landed, revokeAcked>>

\* ... and its persist.
PersistUse(u) ==
  /\ pc[u] = "persist"
  /\ Persist
  /\ Goto(u, "parse")
  /\ UNCHANGED <<links, buckets, lock, tok, admin, now, crashes, landed,
                 revokeAcked>>

\* Mutant: a malformed body returns without unlocking.
ParseHolding(u) ==
  /\ pc[u] = "parse"
  /\ \/ Goto(u, "store")
     \/ Goto(u, "bad")
  /\ UNCHANGED <<lock, links, disk, buckets, tok, admin, now, crashes, diskErrs,
                 landed, revokeAcked>>

\* ParseMultipartForm reads the body from the network: too large, malformed or
\* without a file part is a 400, and the use stays spent.
Parse(u) ==
  /\ pc[u] = "parse"
  /\ \/ Goto(u, "store") /\ UNCHANGED lock
     \/ Goto(u, "bad") /\ Release(u)
  /\ UNCHANGED <<links, disk, buckets, tok, admin, now, crashes, diskErrs, landed, revokeAcked>>

\* Every part stored; or one of them failed, and the ones before it stay.
Store(u) ==
  /\ pc[u] = "store"
  /\ \/ Goto(u, "accepted") /\ landed' = landed \cup {u}
     \/ Goto(u, "bad") /\ landed' \in {landed, landed \cup {u}}
  /\ Release(u)
  /\ UNCHANGED <<links, disk, buckets, tok, admin, now, crashes, diskErrs, revokeAcked>>

-----------------------------------------------------------------------------
Tick ==
  /\ now + TickSecs <= MaxTime
  /\ now' = now + TickSecs
  /\ UNCHANGED <<links, disk, buckets, lock, pc, tok, admin, crashes, diskErrs,
                 landed, revokeAcked>>

\* The process dies at any point and starts again: load reads droplinks.json,
\* the limiters and the locks are new.
Crash ==
  /\ crashes < MaxCrashes
  /\ crashes' = crashes + 1
  /\ links' = disk
  /\ buckets' = [t \in Tokens |-> FreshBucket]
  /\ lock' = [t \in Tokens |-> Nobody]
  /\ pc' = [u \in Uploads |->
       IF pc[u] \in Answers \cup {"idle"} THEN pc[u] ELSE "cut"]
  /\ admin' = [a \in Admins |-> Idle]
  /\ UNCHANGED <<disk, tok, now, diskErrs, landed, revokeAcked>>

Owner(a) ==
  \/ \E t \in Tokens, ttl \in Lifetimes, n \in UseLimits, r \in RateLimits :
       Create(a, t, ttl, n, r)
  \/ \E t \in Tokens : Revoke(a, t)
  \/ \E t \in Tokens, d \in Dirs \cup {NoDir} : SetAutoSaveDir(a, t, d)
  \/ Answer(a)

Handler(u) ==
  Admit(u) \/ CheckRate(u) \/ Consume(u) \/ PersistUse(u) \/ Parse(u) \/ Store(u)

Next ==
  \/ \E a \in Admins : Owner(a)
  \/ \E u \in Uploads : Arrive(u) \/ Handler(u)
  \/ Tick
  \/ Crash

Spec == Init /\ [][Next]_vars

\* A goroutine that can run does run.  For Parse this also says that the sender
\* finishes its body or goes away: the server sets no read timeout, so the code
\* alone does not guarantee it.
LiveSpec == Spec /\ \A u \in Uploads : WF_vars(Handler(u))

-----------------------------------------------------------------------------
\* A held upload lock belongs to an upload of that link on its way through the
\* handler.
LockOwned ==
  \A t \in Tokens : lock[t] # Nobody =>
    pc[lock[t]] \in Holding /\ tok[lock[t]] = t

Types ==
  /\ links \in [Tokens -> Link \cup {NoLink}]
  /\ disk \in [Tokens -> Link \cup {NoLink}]
  /\ buckets \in [Tokens -> [debt : Int, last : Nat]]
  /\ lock \in [Tokens -> Uploads \cup {Nobody}]
  /\ pc \in [Uploads -> {"idle", "waiting"} \cup Holding \cup Answers]
  /\ tok \in [Uploads -> Tokens]
  /\ admin \in [Admins -> [op : {"idle", "create", "revoke", "unknown", "setdir"},
                            token : Tokens \cup {Nobody}]]
  /\ now \in Nat /\ crashes \in Nat /\ diskErrs \in Nat
  /\ landed \subseteq Uploads
  /\ revokeAcked \subseteq Tokens

TypeOK == Types /\ LockOwned

\* Uploads through one link never overlap (drops.go:68, "serializes uploads to
\* one link").
UploadsSerialized ==
  \A u, v \in Uploads :
    (pc[u] \in Holding /\ pc[v] \in Holding /\ tok[u] = tok[v]) => u = v

\* A link is never used more often than it allows, in memory or on disk,
\* although the check and the count are two critical sections.
UseBudget ==
  \A t \in Tokens : \A l \in {links[t], disk[t]} :
    (l # NoLink /\ l.maxUses > 0) => l.uses <= l.maxUses

\* "A single-use link can't be raced past 1 upload" (drops.go:417), and not by
\* a crash between the upload and the next write of the registry either: over
\* all restarts no more uploads land than the link allows.
LandedWithinBudget ==
  diskErrs = 0 =>
    \A t \in Tokens :
      (Alive(t) /\ links[t].maxUses > 0) =>
        Cardinality({u \in landed : tok[u] = t}) <= links[t].maxUses

\* The uploads through t that got to one of the labels in L.
Through(t, L) == {u \in Uploads : tok[u] = t /\ pc[u] \in L}

\* Past useOnce, and so worth a use, whatever became of them.
Charged == {"persist", "parse", "store", "accepted", "bad"}

\* A link's counter against what became of the uploads sent through it
\* (drops.go:417, "a failed upload consumes the slot"): every upload that was
\* stored, failed in its body or is past useOnce has cost one use; one that waits
\* or was refused (410, 429) has cost none; one cut off by a crash one or none.  A
\* restart forgets no use of an answered upload if droplinks.json could be written.
UsesAreUploads ==
  \A t \in Tokens : Alive(t) =>
    /\ links[t].uses <= Cardinality(Through(t, Charged \cup {"cut"}))
    /\ (crashes = 0 \/ diskErrs = 0) =>
         links[t].uses >= Cardinality(Through(t, Charged))

\* When nobody is between a change and its write, the file is the registry.
WrittenWhenQuiet ==
  ( /\ diskErrs = 0
    /\ \A a \in Admins : admin[a] = Idle
    /\ \A u \in Uploads : pc[u] # "persist" ) => disk = links

\* "Links ... can be revoked instantly" (README.md:301): once the owner was told
\* a link is revoked, no upload that still waits is let in, across restarts too.
RevokedMeansGone ==
  [][ \A u \in Uploads :
        (diskErrs = 0 /\ pc[u] = "waiting" /\ tok[u] \in revokeAcked)
          => pc'[u] \in {"waiting", "gone", "cut"} ]_vars

\* Every upload that arrives is answered (or its connection dies with the
\* process): no return path keeps the token's lock.
EveryUploadAnswered ==
  \A u \in Uploads : pc[u] = "waiting" ~> pc[u] \in Answers
=============================================================================
