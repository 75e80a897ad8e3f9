-------------------------- MODULE DropLinksProofs --------------------------
(***************************************************************************)
(* Safety of the drop-link registry and of upload admission, for every set *)
(* of links, uploads and requests and every bound.                         *)
(*                                                                         *)
(* None of the properties is inductive alone.  UseBudget needs to know     *)
(* that an upload which passed the check still has a use left when it is   *)
(* counted, and that only the holder of the link's lock counts one; what   *)
(* RevokedMeansGone needs outlives a crash only because a revocation is    *)
(* acknowledged after it is on disk.                                       *)
(***************************************************************************)
EXTENDS DropLinks, FiniteSetTheorems, TLAPS

\* An upload past the check holds its link's lock.
LockHeld == \A u \in Uploads : pc[u] \in Holding => lock[tok[u]] = u

\* Until it is counted there is a use left for it.
UseLeft ==
  \A u \in Uploads : pc[u] \in {"rate", "consume"} =>
    Alive(tok[u]) /\ ~Spent(links[tok[u]])

\* A pending revocation is in memory, an acknowledged one also on disk.
RevocationKept ==
  /\ \A a \in Admins, t \in Tokens :
       admin[a] = [op |-> "revoke", token |-> t] =>
         Alive(t) /\ links[t].revoked
  /\ diskErrs = 0 =>
       \A t \in revokeAcked : \A l \in {links[t], disk[t]} :
         l # NoLink /\ l.revoked

IInv == TypeOK /\ LockHeld /\ UseLeft /\ UseBudget

-----------------------------------------------------------------------------
\* A refill keeps the bucket's type, whatever the cap and the time that passed.
LEMMA RefillType ==
  ASSUME NEW b \in [debt : Int, last : Nat], NEW rate \in Int, NEW t \in Nat
  PROVE  /\ Refill(b, rate, t) \in [debt : Int, last : Nat]
         /\ Take(Refill(b, rate, t)) \in [debt : Int, last : Nat]
<1>1. b.debt - rate * (t - b.last) \in Int
  OBVIOUS
<1>2. Refill(b, rate, t) \in [debt : Int, last : Nat]
  BY <1>1 DEF Refill
<1>3. Take(Refill(b, rate, t)) \in [debt : Int, last : Nat]
  BY <1>2 DEF Take, Unit
<1> QED
  BY <1>2, <1>3


\* The changes the methods make to a link keep its type.
LEMMA LinkUpdates ==
  ASSUME NEW l \in Link, NEW d \in Dirs \cup {NoDir}
  PROVE  /\ [l EXCEPT !.revoked = TRUE] \in Link
         /\ [l EXCEPT !.dir = d] \in Link
         /\ [l EXCEPT !.uses = l.uses + 1] \in Link
<1>1. [l EXCEPT !.revoked = TRUE] \in Link
  BY DEF Link
<1>2. [l EXCEPT !.dir = d] \in Link
  BY DEF Link
<1>3. l.uses + 1 \in Nat
  BY DEF Link
<1>4. [l EXCEPT !.uses = l.uses + 1] \in Link
  BY <1>3 DEF Link
<1> QED
  BY <1>1, <1>2, <1>4

-----------------------------------------------------------------------------
\* Every step keeps the types of the state.
LEMMA TypeStep == TypeOK /\ [Next]_vars => Types'
<1> SUFFICES ASSUME TypeOK, [Next]_vars PROVE Types'
  OBVIOUS
<1> USE LinkAssumption, LinkBounds DEF TypeOK, Types
<1>1. ASSUME NEW a \in Admins, NEW t \in Tokens, NEW ttl \in Lifetimes,
             NEW n \in UseLimits, NEW r \in RateLimits, Create(a, t, ttl, n, r)
      PROVE  Types'
  <2>1. [expires |-> now + ttl, maxUses |-> n, uses |-> 0, revoked |-> FALSE,
         dir |-> NoDir, rate |-> r] \in Link
    BY DEF Link
  <2> QED
    BY <1>1, <2>1 DEF Create
<1>2. ASSUME NEW a \in Admins, NEW t \in Tokens, Revoke(a, t)
      PROVE  Types'
  <2>1. ASSUME Alive(t) PROVE [links[t] EXCEPT !.revoked = TRUE] \in Link
    <3>1. links[t] \in Link
      BY <2>1 DEF Alive
    <3> QED
      BY <3>1, LinkUpdates
  <2>2. links' \in [Tokens -> Link \cup {NoLink}]
    BY <1>2, <2>1 DEF Revoke
  <2>3. admin' \in [Admins -> [op : {"idle", "create", "revoke", "unknown", "setdir"},
                               token : Tokens \cup {Nobody}]]
    BY <1>2 DEF Revoke
  <2> QED
    BY <1>2, <2>2, <2>3 DEF Revoke
<1>3. ASSUME NEW a \in Admins, NEW t \in Tokens, NEW d \in Dirs \cup {NoDir},
             SetAutoSaveDir(a, t, d)
      PROVE  Types'
  <2>1. links[t] \in Link
    BY <1>3 DEF SetAutoSaveDir, Alive
  <2>2. [links[t] EXCEPT !.dir = d] \in Link
    BY <2>1, LinkUpdates
  <2> QED
    BY <1>3, <2>2 DEF SetAutoSaveDir
<1>4. ASSUME NEW a \in Admins, Answer(a)
      PROVE  Types'
  BY <1>4 DEF Answer, Persist, Idle
<1>5. ASSUME NEW u \in Uploads, Arrive(u)
      PROVE  Types'
  BY <1>5 DEF Arrive, Goto
<1>6. ASSUME NEW u \in Uploads, Admit(u)
      PROVE  Types'
  <2>1. pc' \in [Uploads -> {"idle", "waiting"} \cup Holding \cup Answers]
    BY <1>6 DEF Admit, Goto, Holding, Answers
  <2>2. lock' \in [Tokens -> Uploads \cup {Nobody}]
    BY <1>6 DEF Admit
  <2> QED
    BY <1>6, <2>1, <2>2 DEF Admit
<1>7. ASSUME NEW u \in Uploads, CheckRate(u)
      PROVE  Types'
  <2> DEFINE t == tok[u]
             b == Refill(buckets[t], links[t].rate, now)
  <2>1. ASSUME Alive(t)
        PROVE  b \in [debt : Int, last : Nat] /\ Take(b) \in [debt : Int, last : Nat]
    <3>1. links[t] \in Link
      BY <2>1 DEF Alive
    <3>2. links[t].rate \in Int
      BY <3>1 DEF Link
    <3>3. buckets[t] \in [debt : Int, last : Nat] /\ now \in Nat
      OBVIOUS
    <3> QED
      BY <3>2, <3>3, RefillType
  <2>2. buckets' \in [Tokens -> [debt : Int, last : Nat]]
    BY <1>7, <2>1 DEF CheckRate
  <2>3. pc' \in [Uploads -> {"idle", "waiting"} \cup Holding \cup Answers]
    BY <1>7 DEF CheckRate, Goto, Holding, Answers
  <2>4. lock' \in [Tokens -> Uploads \cup {Nobody}]
    BY <1>7 DEF CheckRate, Release
  <2> QED
    BY <1>7, <2>2, <2>3, <2>4 DEF CheckRate
<1>8. ASSUME NEW u \in Uploads, Consume(u)
      PROVE  Types'
  <2>1. ASSUME Alive(tok[u]) PROVE [links[tok[u]] EXCEPT !.uses = @ + 1] \in Link
    <3>1. links[tok[u]] \in Link
      BY <2>1 DEF Alive
    <3> QED
      BY <3>1, LinkUpdates
  <2>2. links' \in [Tokens -> Link \cup {NoLink}]
    BY <1>8, <2>1 DEF Consume
  <2>3. pc' \in [Uploads -> {"idle", "waiting"} \cup Holding \cup Answers]
    BY <1>8 DEF Consume, Goto, Holding
  <2> QED
    BY <1>8, <2>2, <2>3 DEF Consume
<1>9. ASSUME NEW u \in Uploads, PersistUse(u)
      PROVE  Types'
  BY <1>9 DEF PersistUse, Persist, Goto, Holding
<1>10. ASSUME NEW u \in Uploads, Parse(u)
       PROVE  Types'
  BY <1>10 DEF Parse, Goto, Release, Holding, Answers
<1>11. ASSUME NEW u \in Uploads, Store(u)
       PROVE  Types'
  BY <1>11 DEF Store, Goto, Release, Answers
<1>12. CASE Tick
  BY <1>12 DEF Tick
<1>13. CASE Crash
  BY <1>13 DEF Crash, Idle, FreshBucket, Answers
<1>14. CASE UNCHANGED vars
  BY <1>14 DEF vars
<1> QED
  BY <1>1, <1>2, <1>3, <1>4, <1>5, <1>6, <1>7, <1>8, <1>9, <1>10, <1>11, <1>12,
     <1>13, <1>14 DEF Next, Owner, Handler

-----------------------------------------------------------------------------
\* Every step keeps the lock discipline: who holds a lock is past the check, and
\* who is past the check holds the lock.
LEMMA LockStep == TypeOK /\ LockHeld /\ [Next]_vars => LockOwned' /\ LockHeld'
<1> SUFFICES ASSUME TypeOK, LockHeld, [Next]_vars PROVE LockOwned' /\ LockHeld'
  OBVIOUS
<1> USE LinkAssumption DEF TypeOK, Types, LockOwned, LockHeld, Holding, Answers
<1>1. ASSUME NEW u \in Uploads, Admit(u)
      PROVE  LockOwned' /\ LockHeld'
  <2>1. CASE Usable(tok[u])
    <3>1. /\ tok' = tok /\ pc' = [pc EXCEPT ![u] = "rate"]
          /\ lock' = [lock EXCEPT ![tok[u]] = u]
          /\ lock[tok[u]] = Nobody /\ pc[u] = "waiting"
      BY <1>1, <2>1 DEF Admit, Goto
    <3>2. LockOwned'
      BY <3>1
    <3>3. LockHeld'
      BY <3>1
    <3> QED
      BY <3>2, <3>3
  <2>2. CASE ~Usable(tok[u])
    BY <1>1, <2>2 DEF Admit, Goto
  <2> QED
    BY <2>1, <2>2
<1>2. ASSUME NEW u \in Uploads, CheckRate(u)
      PROVE  LockOwned' /\ LockHeld'
  <2>1. CASE UNCHANGED lock /\ Goto(u, "consume") /\ pc[u] = "rate"
    BY <1>2, <2>1 DEF CheckRate, Goto
  <2>2. CASE Release(u) /\ Goto(u, "limited") /\ pc[u] = "rate"
    <3>1. tok' = tok /\ pc' = [pc EXCEPT ![u] = "limited"]
          /\ lock' = [lock EXCEPT ![tok[u]] = Nobody]
      BY <1>2, <2>2 DEF CheckRate, Goto, Release
    <3>2. lock[tok[u]] = u
      BY <2>2
    <3> QED
      BY <3>1, <3>2
  <2> QED
    BY <1>2, <2>1, <2>2 DEF CheckRate
<1>3. ASSUME NEW u \in Uploads, Consume(u) \/ PersistUse(u)
      PROVE  LockOwned' /\ LockHeld'
  <2>1. PICK label \in {"persist", "parse"} : pc' = [pc EXCEPT ![u] = label]
    BY <1>3 DEF Consume, PersistUse, Goto
  <2>2. UNCHANGED <<lock, tok>> /\ pc[u] \in Holding
    BY <1>3 DEF Consume, PersistUse
  <2> QED
    BY <2>1, <2>2
<1>4. ASSUME NEW u \in Uploads, Parse(u)
      PROVE  LockOwned' /\ LockHeld'
  <2>1. CASE UNCHANGED lock /\ Goto(u, "store")
    BY <1>4, <2>1 DEF Parse, Goto
  <2>2. CASE Release(u) /\ Goto(u, "bad")
    <3>1. tok' = tok /\ pc' = [pc EXCEPT ![u] = "bad"]
          /\ lock' = [lock EXCEPT ![tok[u]] = Nobody]
      BY <1>4, <2>2 DEF Parse, Goto, Release
    <3>2. lock[tok[u]] = u
      BY <1>4 DEF Parse
    <3> QED
      BY <3>1, <3>2
  <2> QED
    BY <1>4, <2>1, <2>2 DEF Parse
<1>5. ASSUME NEW u \in Uploads, Store(u)
      PROVE  LockOwned' /\ LockHeld'
  <2>1. PICK label \in {"accepted", "bad"} : pc' = [pc EXCEPT ![u] = label]
    BY <1>5 DEF Store, Goto
  <2>2. tok' = tok /\ lock' = [lock EXCEPT ![tok[u]] = Nobody] /\ lock[tok[u]] = u
    BY <1>5 DEF Store, Release
  <2> QED
    BY <2>1, <2>2
<1>6. ASSUME NEW u \in Uploads, Arrive(u)
      PROVE  LockOwned' /\ LockHeld'
  BY <1>6 DEF Arrive, Goto
<1>7. CASE Crash
  BY <1>7 DEF Crash
<1>8. CASE Tick \/ (\E a \in Admins : Owner(a)) \/ UNCHANGED vars
  <2>1. UNCHANGED <<lock, pc, tok>>
    BY <1>8 DEF Tick, Owner, Create, Revoke, SetAutoSaveDir, Answer, vars
  <2> QED
    BY <2>1
<1> QED
  BY <1>1, <1>2, <1>3, <1>4, <1>5, <1>6, <1>7, <1>8 DEF Next, Handler

-----------------------------------------------------------------------------
\* A revocation and a new folder leave every link its limit and its uses.
LEMMA EditsKeepUses ==
  ASSUME TypeOK, NEW a \in Admins, NEW t \in Tokens,
         Revoke(a, t) \/ \E d \in Dirs \cup {NoDir} : SetAutoSaveDir(a, t, d),
         NEW s \in Tokens, Alive(s)
  PROVE  /\ links'[s] # NoLink
         /\ links'[s].uses = links[s].uses
         /\ links'[s].maxUses = links[s].maxUses
<1> USE LinkAssumption DEF TypeOK, Types
<1>1. links[s] \in Link
  BY DEF Alive
<1>2. \A d \in Dirs \cup {NoDir} :
        /\ [links[s] EXCEPT !.revoked = TRUE] \in Link
        /\ [links[s] EXCEPT !.dir = d] \in Link
  BY <1>1, LinkUpdates
<1>3. /\ [links[s] EXCEPT !.revoked = TRUE].uses = links[s].uses
      /\ [links[s] EXCEPT !.revoked = TRUE].maxUses = links[s].maxUses
  BY <1>1 DEF Link
<1>4. ASSUME NEW d \in Dirs \cup {NoDir}
      PROVE  /\ [links[s] EXCEPT !.dir = d].uses = links[s].uses
             /\ [links[s] EXCEPT !.dir = d].maxUses = links[s].maxUses
  BY <1>1 DEF Link
<1>5. \/ links'[s] = links[s]
      \/ links'[s] = [links[s] EXCEPT !.revoked = TRUE]
      \/ \E d \in Dirs \cup {NoDir} : links'[s] = [links[s] EXCEPT !.dir = d]
  <2>1. CASE s = t
    BY <2>1 DEF Revoke, SetAutoSaveDir
  <2>2. CASE s # t
    BY <2>2 DEF Revoke, SetAutoSaveDir
  <2> QED
    BY <2>1, <2>2
<1> QED
  BY <1>2, <1>3, <1>4, <1>5 DEF Alive

\* One link's budget, as the invariants below use it.
WithinBudget(l) == (l # NoLink /\ l.maxUses > 0) => l.uses <= l.maxUses

\* Every step keeps the budget, and the use that an admitted upload still needs.
LEMMA BudgetStep == IInv /\ [Next]_vars => UseLeft' /\ UseBudget'
<1> SUFFICES ASSUME TypeOK, LockHeld, UseLeft,
                    \A t \in Tokens : WithinBudget(links[t]) /\ WithinBudget(disk[t]),
                    [Next]_vars
             PROVE  UseLeft' /\ \A t \in Tokens : WithinBudget(links'[t]) /\ WithinBudget(disk'[t])
  BY DEF IInv, UseBudget, WithinBudget
<1> USE LinkAssumption DEF TypeOK, Types, UseLeft
<1>1. ASSUME NEW a \in Admins, NEW t \in Tokens, NEW ttl \in Lifetimes,
             NEW n \in UseLimits, NEW r \in RateLimits, Create(a, t, ttl, n, r)
      PROVE  UseLeft' /\ \A s \in Tokens : WithinBudget(links'[s]) /\ WithinBudget(disk'[s])
  <2>1. WithinBudget(links'[t])
    BY <1>1 DEF Create, WithinBudget
  <2>2. \A s \in Tokens \ {t} : links'[s] = links[s]
    BY <1>1 DEF Create
  <2>3. \A u \in Uploads : pc'[u] \in {"rate", "consume"} => tok[u] # t
    BY <1>1 DEF Create
  <2> QED
    BY <1>1, <2>1, <2>2, <2>3 DEF Create, Alive
<1>2. ASSUME NEW a \in Admins, NEW t \in Tokens,
             Revoke(a, t) \/ \E d \in Dirs \cup {NoDir} : SetAutoSaveDir(a, t, d)
      PROVE  UseLeft' /\ \A s \in Tokens : WithinBudget(links'[s]) /\ WithinBudget(disk'[s])
  <2>1. \A s \in Tokens : Alive(s) =>
          /\ links'[s] # NoLink
          /\ links'[s].uses = links[s].uses
          /\ links'[s].maxUses = links[s].maxUses
    BY <1>2, EditsKeepUses
  <2>2. \A s \in Tokens : ~Alive(s) => links'[s] = links[s]
    BY <1>2 DEF Revoke, SetAutoSaveDir, Alive
  <2>3. UNCHANGED <<disk, pc, tok>>
    BY <1>2 DEF Revoke, SetAutoSaveDir
  <2> QED
    BY <2>1, <2>2, <2>3 DEF Alive, Spent, WithinBudget
<1>3. ASSUME NEW u \in Uploads, Admit(u)
      PROVE  UseLeft' /\ \A s \in Tokens : WithinBudget(links'[s]) /\ WithinBudget(disk'[s])
  BY <1>3 DEF Admit, Goto, Usable, Alive
<1>4. ASSUME NEW u \in Uploads, CheckRate(u)
      PROVE  UseLeft' /\ \A s \in Tokens : WithinBudget(links'[s]) /\ WithinBudget(disk'[s])
  <2>1. UNCHANGED <<links, disk, tok>> /\ pc[u] = "rate"
    BY <1>4 DEF CheckRate
  <2>2. \A v \in Uploads : v # u => pc'[v] = pc[v]
    BY <1>4 DEF CheckRate, Goto
  <2> QED
    BY <2>1, <2>2 DEF Alive
<1>5. ASSUME NEW u \in Uploads, Consume(u)
      PROVE  UseLeft' /\ \A s \in Tokens : WithinBudget(links'[s]) /\ WithinBudget(disk'[s])
  <2>1. Alive(tok[u]) /\ ~Spent(links[tok[u]])
    BY <1>5 DEF Consume
  <2>2. links[tok[u]] \in Link
    BY <2>1 DEF Alive
  <2>3. links' = [links EXCEPT ![tok[u]] = [links[tok[u]] EXCEPT !.uses = links[tok[u]].uses + 1]]
    BY <1>5, <2>1 DEF Consume
  <2>4. links'[tok[u]] = [links[tok[u]] EXCEPT !.uses = links[tok[u]].uses + 1]
    BY <2>3
  <2>5. /\ links'[tok[u]].uses = links[tok[u]].uses + 1
        /\ links'[tok[u]].maxUses = links[tok[u]].maxUses
    BY <2>2, <2>4 DEF Link
  <2>6. links[tok[u]].maxUses \in Int /\ links[tok[u]].uses \in Nat
    BY <2>2 DEF Link
  <2>7. WithinBudget(links'[tok[u]])
    BY <2>1, <2>5, <2>6 DEF WithinBudget, Spent
  <2>8. \A v \in Uploads :
          pc'[v] \in {"rate", "consume"} => pc[v] \in {"rate", "consume"} /\ tok[v] # tok[u]
    BY <1>5 DEF Consume, Goto, LockHeld, Holding
  <2>9. \A s \in Tokens : s # tok[u] => links'[s] = links[s]
    BY <2>3
  <2> QED
    BY <1>5, <2>7, <2>8, <2>9 DEF Consume, Alive
<1>6. ASSUME NEW u \in Uploads, PersistUse(u)
      PROVE  UseLeft' /\ \A s \in Tokens : WithinBudget(links'[s]) /\ WithinBudget(disk'[s])
  BY <1>6 DEF PersistUse, Persist, Goto, Alive
<1>7. ASSUME NEW u \in Uploads, Arrive(u) \/ Parse(u) \/ Store(u)
      PROVE  UseLeft' /\ \A s \in Tokens : WithinBudget(links'[s]) /\ WithinBudget(disk'[s])
  BY <1>7 DEF Arrive, Parse, Store, Goto, Alive
<1>8. ASSUME NEW a \in Admins, Answer(a)
      PROVE  UseLeft' /\ \A s \in Tokens : WithinBudget(links'[s]) /\ WithinBudget(disk'[s])
  BY <1>8 DEF Answer, Persist, Alive
<1>9. CASE Crash
  BY <1>9 DEF Crash, Answers
<1>10. CASE Tick \/ UNCHANGED vars
  BY <1>10 DEF Tick, vars, Alive
<1> QED
  BY <1>1, <1>2, <1>3, <1>4, <1>5, <1>6, <1>7, <1>8, <1>9, <1>10 DEF Next, Owner, Handler

-----------------------------------------------------------------------------
\* IInv holds initially and is inductive.
LEMMA Inductive == Spec => []IInv
<1>1. Init => IInv
  BY LinkAssumption DEF Init, IInv, TypeOK, Types, LockOwned, LockHeld, UseLeft,
     UseBudget, Idle, FreshBucket, Holding
<1>2. IInv /\ [Next]_vars => IInv'
  <2>1. IInv /\ [Next]_vars => TypeOK'
    BY TypeStep, LockStep DEF IInv, TypeOK
  <2>2. IInv /\ [Next]_vars => LockHeld'
    BY LockStep DEF IInv
  <2>3. IInv /\ [Next]_vars => UseLeft' /\ UseBudget'
    BY BudgetStep
  <2> QED
    BY <2>1, <2>2, <2>3 DEF IInv
<1> QED
  BY <1>1, <1>2, PTL DEF Spec

\* The state of the registry and of the uploads keeps its types, and a held lock
\* always has an owner that will release it.
THEOREM TypeCorrect == Spec => []TypeOK
<1>1. IInv => TypeOK
  BY DEF IInv
<1> QED
  BY <1>1, Inductive, PTL

\* drops.go:68: uploads through one link are serialized.
THEOREM Serialized == Spec => []UploadsSerialized
<1>1. IInv => UploadsSerialized
  BY LinkAssumption DEF IInv, TypeOK, Types, LockHeld, UploadsSerialized
<1> QED
  BY <1>1, Inductive, PTL

\* drops.go:417: no link is used more often than it allows.
THEOREM BudgetKept == Spec => []UseBudget
<1>1. IInv => UseBudget
  BY DEF IInv
<1> QED
  BY <1>1, Inductive, PTL

-----------------------------------------------------------------------------
\* Every step keeps a revocation in memory until it is acknowledged, and on disk
\* from then on.
LEMMA RevocationStep == TypeOK /\ RevocationKept /\ [Next]_vars => RevocationKept'
<1> DEFINE Gone(l) == l # NoLink /\ l.revoked
<1> SUFFICES ASSUME TypeOK, [Next]_vars,
                    \A a \in Admins, t \in Tokens :
                      admin[a] = [op |-> "revoke", token |-> t] => Gone(links[t]),
                    diskErrs = 0 => \A t \in revokeAcked : Gone(links[t]) /\ Gone(disk[t])
             PROVE  /\ \A a \in Admins, t \in Tokens :
                         admin'[a] = [op |-> "revoke", token |-> t] => Gone(links'[t])
                    /\ diskErrs' = 0 =>
                         \A t \in revokeAcked' : Gone(links'[t]) /\ Gone(disk'[t])
  BY DEF RevocationKept, Alive
<1> USE LinkAssumption DEF TypeOK, Types
<1>1. ASSUME NEW a \in Admins, NEW t \in Tokens, NEW ttl \in Lifetimes,
             NEW n \in UseLimits, NEW r \in RateLimits, Create(a, t, ttl, n, r)
      PROVE  RevocationKept'
  <2>1. ~Gone(links[t]) /\ \A s \in Tokens \ {t} : links'[s] = links[s]
    BY <1>1 DEF Create, Alive
  <2>2. \A b \in Admins : b # a => admin'[b] = admin[b]
    BY <1>1 DEF Create
  <2>3. admin'[a].op = "create"
    BY <1>1 DEF Create
  <2>4. UNCHANGED <<disk, diskErrs, revokeAcked>>
    BY <1>1 DEF Create
  <2>5. \A s \in Tokens : Gone(links[s]) => Gone(links'[s])
    BY <2>1
  <2>6. \A b \in Admins, s \in Tokens :
          admin'[b] = [op |-> "revoke", token |-> s] => Gone(links'[s])
    BY <2>2, <2>3, <2>5
  <2>7. diskErrs' = 0 => \A s \in revokeAcked' : Gone(links'[s]) /\ Gone(disk'[s])
    BY <2>4, <2>5
  <2> QED
    BY <2>6, <2>7 DEF RevocationKept, Alive
<1>2. ASSUME NEW a \in Admins, NEW t \in Tokens,
             Revoke(a, t) \/ \E d \in Dirs \cup {NoDir} : SetAutoSaveDir(a, t, d)
      PROVE  RevocationKept'
  <2>1. ASSUME NEW s \in Tokens, Gone(links[s])
        PROVE  Gone(links'[s])
    <3>1. links[s] \in Link /\ Alive(s)
      BY <2>1 DEF Alive
    <3>2. /\ [links[s] EXCEPT !.revoked = TRUE] \in Link
          /\ \A d \in Dirs \cup {NoDir} : [links[s] EXCEPT !.dir = d] \in Link
      BY <3>1, LinkUpdates
    <3>3. \/ links'[s] = links[s]
          \/ links'[s] = [links[s] EXCEPT !.revoked = TRUE]
          \/ \E d \in Dirs \cup {NoDir} : links'[s] = [links[s] EXCEPT !.dir = d]
      <4>1. CASE s = t
        BY <1>2, <4>1 DEF Revoke, SetAutoSaveDir
      <4>2. CASE s # t
        BY <1>2, <4>2 DEF Revoke, SetAutoSaveDir
      <4> QED
        BY <4>1, <4>2
    <3>4. [links[s] EXCEPT !.revoked = TRUE].revoked
      BY <3>1 DEF Link
    <3>5. \A d \in Dirs \cup {NoDir} : [links[s] EXCEPT !.dir = d].revoked = links[s].revoked
      BY <3>1 DEF Link
    <3>6. NoLink \notin Link
      OBVIOUS
    <3>7. CASE links'[s] = links[s]
      BY <2>1, <3>7
    <3>8. CASE links'[s] = [links[s] EXCEPT !.revoked = TRUE]
      BY <3>2, <3>4, <3>6, <3>8
    <3>9. ASSUME NEW d \in Dirs \cup {NoDir}, links'[s] = [links[s] EXCEPT !.dir = d]
          PROVE  Gone(links'[s])
      BY <2>1, <3>2, <3>5, <3>6, <3>9
    <3> QED
      BY <3>3, <3>7, <3>8, <3>9
  <2>2. \A b \in Admins : b # a => admin'[b] = admin[b]
    BY <1>2 DEF Revoke, SetAutoSaveDir
  <2>3. ASSUME NEW s \in Tokens, admin'[a] = [op |-> "revoke", token |-> s]
        PROVE  Gone(links'[s])
    <3>1. Revoke(a, t) /\ Alive(t)
      BY <1>2, <2>3 DEF Revoke, SetAutoSaveDir
    <3>2. s = t
      BY <2>3, <3>1 DEF Revoke
    <3>3. links[t] \in Link
      BY <3>1 DEF Alive
    <3>4. links'[t] = [links[t] EXCEPT !.revoked = TRUE]
      BY <3>1 DEF Revoke
    <3>5. [links[t] EXCEPT !.revoked = TRUE] \in Link /\ [links[t] EXCEPT !.revoked = TRUE].revoked
      BY <3>3, LinkUpdates DEF Link
    <3> QED
      BY <3>2, <3>4, <3>5
  <2>4. UNCHANGED <<disk, diskErrs, revokeAcked>>
    BY <1>2 DEF Revoke, SetAutoSaveDir
  <2> QED
    BY <2>1, <2>2, <2>3, <2>4 DEF RevocationKept, Alive
<1>3. ASSUME NEW a \in Admins, Answer(a)
      PROVE  RevocationKept'
  <2>1. CASE disk' = links /\ UNCHANGED diskErrs
    BY <1>3, <2>1 DEF Answer, Idle, RevocationKept, Alive
  <2>2. CASE diskErrs' = diskErrs + 1
    BY <1>3, <2>2 DEF Answer, Idle, RevocationKept, Alive
  <2> QED
    BY <1>3, <2>1, <2>2 DEF Answer, Persist
<1>4. ASSUME NEW u \in Uploads, Consume(u)
      PROVE  RevocationKept'
  <2>1. ASSUME NEW s \in Tokens, Gone(links[s])
        PROVE  Gone(links'[s])
    <3>1. links[s] \in Link
      BY <2>1
    <3>2. [links[s] EXCEPT !.uses = links[s].uses + 1] \in Link
      BY <3>1, LinkUpdates
    <3>3. [links[s] EXCEPT !.uses = links[s].uses + 1].revoked = links[s].revoked
      BY <3>1 DEF Link
    <3>4. \/ links'[s] = links[s]
          \/ links'[s] = [links[s] EXCEPT !.uses = links[s].uses + 1]
      BY <1>4 DEF Consume
    <3> QED
      BY <2>1, <3>2, <3>3, <3>4
  <2> QED
    BY <1>4, <2>1 DEF Consume, RevocationKept, Alive
<1>5. ASSUME NEW u \in Uploads, PersistUse(u)
      PROVE  RevocationKept'
  <2>1. CASE disk' = links /\ UNCHANGED diskErrs
    BY <1>5, <2>1 DEF PersistUse, RevocationKept, Alive
  <2>2. CASE diskErrs' = diskErrs + 1
    BY <1>5, <2>2 DEF PersistUse, RevocationKept, Alive
  <2> QED
    BY <1>5, <2>1, <2>2 DEF PersistUse, Persist
<1>6. ASSUME Crash
      PROVE  RevocationKept'
  BY <1>6 DEF Crash, Idle, RevocationKept, Alive
<1>7. ASSUME UNCHANGED <<links, disk, diskErrs, admin, revokeAcked>>
      PROVE  RevocationKept'
  BY <1>7 DEF RevocationKept, Alive
<1>8. ASSUME NEW u \in Uploads,
             Arrive(u) \/ Admit(u) \/ CheckRate(u) \/ Parse(u) \/ Store(u)
      PROVE  RevocationKept'
  BY <1>7, <1>8 DEF Arrive, Admit, CheckRate, Parse, Store
<1>9. ASSUME Tick \/ UNCHANGED vars
      PROVE  RevocationKept'
  BY <1>7, <1>9 DEF Tick, vars
<1>10. ASSUME NEW a \in Admins, Owner(a)
       PROVE  RevocationKept'
  <2>1. CASE \E t \in Tokens, ttl \in Lifetimes, n \in UseLimits, r \in RateLimits :
               Create(a, t, ttl, n, r)
    BY <1>1, <2>1
  <2>2. CASE \E t \in Tokens : Revoke(a, t)
    BY <1>2, <2>2
  <2>3. CASE \E t \in Tokens, d \in Dirs \cup {NoDir} : SetAutoSaveDir(a, t, d)
    BY <1>2, <2>3
  <2>4. CASE Answer(a)
    BY <1>3, <2>4
  <2> QED
    BY <1>10, <2>1, <2>2, <2>3, <2>4 DEF Owner
<1>11. ASSUME NEW u \in Uploads, Arrive(u) \/ Handler(u)
       PROVE  RevocationKept'
  BY <1>4, <1>5, <1>8, <1>11 DEF Handler
<1>12. RevocationKept'
  <2>1. CASE Next
    BY <1>6, <1>9, <1>10, <1>11, <2>1 DEF Next
  <2> QED
    BY <1>9, <2>1
<1> QED
  BY <1>12 DEF RevocationKept, Alive

\* README.md:301: after the owner was told that a link is revoked, no upload that
\* still waits is let in, whatever else happens, restarts included.
THEOREM RevocationFinal == Spec => RevokedMeansGone
<1> DEFINE Kept == IInv /\ RevocationKept
           Final == \A u \in Uploads :
                      (diskErrs = 0 /\ pc[u] = "waiting" /\ tok[u] \in revokeAcked)
                        => pc'[u] \in {"waiting", "gone", "cut"}
<1>1. Init => RevocationKept
  BY DEF Init, RevocationKept, Idle
<1>2. IInv /\ RevocationKept /\ [Next]_vars => RevocationKept'
  BY RevocationStep DEF IInv
<1>3. IInv /\ RevocationKept /\ [Next]_vars => [Final]_vars
  <2> SUFFICES ASSUME TypeOK, RevocationKept, Next,
                      NEW u \in Uploads, diskErrs = 0, pc[u] = "waiting",
                      tok[u] \in revokeAcked
               PROVE  pc'[u] \in {"waiting", "gone", "cut"}
    BY DEF IInv
  <2> USE DEF TypeOK, Types
  <2>1. ~Usable(tok[u])
    BY DEF RevocationKept, Usable, Alive
  <2>2. ASSUME NEW v \in Uploads, Arrive(v) \/ Handler(v)
        PROVE  pc'[u] \in {"waiting", "gone", "cut"}
    <3>1. CASE v = u
      BY <2>1, <2>2, <3>1 DEF Arrive, Handler, Admit, CheckRate, Consume, PersistUse,
         Parse, Store, Goto
    <3>2. CASE v # u
      BY <2>2, <3>2 DEF Arrive, Handler, Admit, CheckRate, Consume, PersistUse,
         Parse, Store, Goto
    <3> QED
      BY <3>1, <3>2
  <2>3. CASE Tick \/ \E a \in Admins : Owner(a)
    BY <2>3 DEF Tick, Owner, Create, Revoke, SetAutoSaveDir, Answer
  <2>4. CASE Crash
    BY <2>4 DEF Crash, Answers
  <2> QED
    BY <2>2, <2>3, <2>4 DEF Next
<1>4. Spec => [][Final]_vars
  BY <1>1, <1>2, <1>3, Inductive, PTL DEF Spec
<1> QED
  BY <1>4 DEF RevokedMeansGone

-----------------------------------------------------------------------------
(*****************************************************************************)
(* A link's uses against the uploads themselves: over all crashes no more    *)
(* uploads land than the link allows, and a use is an admitted upload.       *)
(*                                                                           *)
(* Above, the counter is bounded.  Here it is compared with the sets of uploads *)
(* it stands for.  A crash takes it back to what the file says, so the file  *)
(* must count each upload that has read its body (Past), and memory also the *)
(* one that is about to be written (Counted): this is why useOnce persists   *)
(* before the body is read.                                                  *)
(*****************************************************************************)
Paying(t) == Through(t, Charged \cup {"cut"})
Counted(t) == Through(t, Charged)
Past(t) == Through(t, Charged \ {"persist"})

\* Only finitely many uploads have arrived, and what landed was answered.
Arrivals ==
  /\ IsFiniteSet({u \in Uploads : pc[u] # "idle"})
  /\ \A u \in landed : pc[u] \in {"accepted", "bad"}

\* No more is counted than got as far...
NotOvercounted ==
  \A t \in Tokens :
    /\ links[t] # NoLink => links[t].uses <= Cardinality(Paying(t))
    /\ disk[t] # NoLink => disk[t].uses <= Cardinality(Paying(t))

\* ... and what gets through is counted, in the file too if it could be written.
NotUndercounted ==
  \A t \in Tokens :
    /\ (crashes = 0 \/ diskErrs = 0) =>
         (links[t] # NoLink => Cardinality(Counted(t)) <= links[t].uses)
    /\ diskErrs = 0 => (disk[t] # NoLink => Cardinality(Past(t)) <= disk[t].uses)

Counts == Arrivals /\ NotOvercounted /\ NotUndercounted

-----------------------------------------------------------------------------
\* The sets are finite, and one within the other.
LEMMA Sizes ==
  ASSUME Arrivals, NEW t
  PROVE  /\ IsFiniteSet(Paying(t)) /\ IsFiniteSet(Counted(t)) /\ IsFiniteSet(Past(t))
         /\ Cardinality(Paying(t)) \in Nat /\ Cardinality(Counted(t)) \in Nat
         /\ Cardinality(Past(t)) \in Nat
         /\ Cardinality(Past(t)) <= Cardinality(Counted(t))
         /\ Cardinality(Counted(t)) <= Cardinality(Paying(t))
<1>1. /\ Paying(t) \in SUBSET {u \in Uploads : pc[u] # "idle"}
      /\ Counted(t) \in SUBSET Paying(t) /\ Past(t) \in SUBSET Counted(t)
  BY DEF Paying, Counted, Past, Through, Charged
<1>2. IsFiniteSet(Paying(t))
  BY <1>1, FS_Subset DEF Arrivals
<1>3. IsFiniteSet(Counted(t)) /\ Cardinality(Counted(t)) <= Cardinality(Paying(t))
  BY <1>1, <1>2, FS_Subset
<1>4. IsFiniteSet(Past(t)) /\ Cardinality(Past(t)) <= Cardinality(Counted(t))
  BY <1>1, <1>3, FS_Subset
<1> QED
  BY <1>2, <1>3, <1>4, FS_CardinalityType

\* A link counts in numbers.
LEMMA CountsAreNumbers ==
  ASSUME TypeOK, NEW t \in Tokens
  PROVE  /\ links[t] # NoLink => links[t].uses \in Nat
         /\ disk[t] # NoLink => disk[t].uses \in Nat
BY DEF TypeOK, Types, Link

\* Every step keeps Arrivals.
LEMMA ArrivalStep == TypeOK /\ Arrivals /\ [Next]_vars => Arrivals'
<1> SUFFICES ASSUME TypeOK, Arrivals, [Next]_vars PROVE Arrivals'
  OBVIOUS
<1> USE DEF TypeOK, Types, Goto
<1>1. ASSUME NEW u \in Uploads, Arrive(u) \/ Handler(u) PROVE Arrivals'
  <2>1. PICK label \in {"waiting", "rate", "gone", "consume", "limited", "persist", "parse",
                        "store", "bad", "accepted"} :
          pc' = [pc EXCEPT ![u] = label]
    BY <1>1 DEF Arrive, Handler, Admit, CheckRate, Consume, PersistUse, Parse, Store
  <2>2. pc[u] \notin {"accepted", "bad"}
    BY <1>1 DEF Arrive, Handler, Admit, CheckRate, Consume, PersistUse, Parse, Store
  <2>3. \/ landed' = landed
        \/ landed' = landed \cup {u} /\ label \in {"accepted", "bad"}
    <3>1. CASE Store(u)
      <4>1. pc'[u] \in {"accepted", "bad"}
        BY <3>1 DEF Store
      <4>2. label \in {"accepted", "bad"}
        BY <4>1, <2>1
      <4> QED
        BY <3>1, <4>2 DEF Store
    <3>2. CASE ~Store(u)
      BY <1>1, <3>2 DEF Arrive, Handler, Admit, CheckRate, Consume, PersistUse, Parse
    <3> QED
      BY <3>1, <3>2
  <2>4. {v \in Uploads : pc'[v] # "idle"} = {v \in Uploads : pc[v] # "idle"} \cup {u}
    BY <2>1
  <2>5. IsFiniteSet({v \in Uploads : pc'[v] # "idle"})
    <3> DEFINE S == {v \in Uploads : pc[v] # "idle"}
    <3>1. IsFiniteSet(S)
      BY DEF Arrivals
    <3>2. IsFiniteSet(S \cup {u})
      BY <3>1, FS_AddElement
    <3> QED
      BY <2>4, <3>2
  <2>6. \A v \in landed' : pc'[v] \in {"accepted", "bad"}
    BY <2>1, <2>2, <2>3 DEF Arrivals
  <2> QED
    BY <2>5, <2>6 DEF Arrivals
<1>2. CASE Crash
  <2>1. {v \in Uploads : pc'[v] # "idle"} = {v \in Uploads : pc[v] # "idle"}
    BY <1>2 DEF Crash, Answers
  <2>2. \A v \in landed' : pc'[v] \in {"accepted", "bad"}
    BY <1>2 DEF Crash, Answers, Arrivals
  <2> QED
    BY <2>1, <2>2 DEF Arrivals
<1>3. CASE (\E a \in Admins : Owner(a)) \/ Tick \/ UNCHANGED vars
  <2>1. UNCHANGED <<pc, landed>>
    BY <1>3 DEF Owner, Create, Revoke, SetAutoSaveDir, Answer, Tick, vars
  <2> QED
    BY <2>1 DEF Arrivals
<1> QED
  BY <1>1, <1>2, <1>3 DEF Next

\* The sets of the next state are finite too.
LEMMA FinitePrimed ==
  ASSUME Arrivals', NEW t
  PROVE  /\ IsFiniteSet(Paying(t)') /\ IsFiniteSet(Counted(t)') /\ IsFiniteSet(Past(t)')
<1>1. IsFiniteSet({u \in Uploads : pc'[u] # "idle"})
  BY DEF Arrivals
<1>2. /\ Paying(t)' \in SUBSET {u \in Uploads : pc'[u] # "idle"}
      /\ Counted(t)' \in SUBSET {u \in Uploads : pc'[u] # "idle"}
      /\ Past(t)' \in SUBSET {u \in Uploads : pc'[u] # "idle"}
  BY DEF Paying, Counted, Past, Through, Charged
<1> QED
  BY <1>1, <1>2, FS_Subset

-----------------------------------------------------------------------------
\* A step that changes no count keeps them, if nobody gets past useOnce or past the
\* writing of the file, and whoever has paid stays among those that have.
LEMMA QuietStep ==
  ASSUME TypeOK, Counts, Arrivals', UNCHANGED <<tok, disk, diskErrs, crashes>>,
         \A t \in Tokens :
           /\ links[t] = NoLink => links'[t] = NoLink
           /\ links[t] # NoLink => links'[t] # NoLink /\ links'[t].uses = links[t].uses,
         \A u \in Uploads :
           /\ pc'[u] \in Charged => pc[u] \in Charged
           /\ pc'[u] \in Charged \ {"persist"} => pc[u] \in Charged \ {"persist"}
           /\ pc[u] \in Charged \cup {"cut"} => pc'[u] \in Charged \cup {"cut"}
  PROVE  Counts'
<1>1. ASSUME NEW t \in Tokens
      PROVE  /\ Cardinality(Paying(t)) <= Cardinality(Paying(t)')
             /\ Cardinality(Counted(t)') <= Cardinality(Counted(t))
             /\ Cardinality(Past(t)') <= Cardinality(Past(t))
  <2>1. Paying(t) \in SUBSET Paying(t)'
    BY DEF Paying, Through, TypeOK, Types
  <2>2. Counted(t)' \in SUBSET Counted(t) /\ Past(t)' \in SUBSET Past(t)
    BY DEF Counted, Past, Through, TypeOK, Types
  <2>3. IsFiniteSet(Counted(t)) /\ IsFiniteSet(Past(t)) /\ IsFiniteSet(Paying(t)')
    BY Sizes, FinitePrimed DEF Counts
  <2> QED
    BY <2>1, <2>2, <2>3, FS_Subset
<1>2. ASSUME NEW t \in Tokens
      PROVE  /\ Cardinality(Paying(t)) \in Nat /\ Cardinality(Counted(t)) \in Nat
             /\ Cardinality(Past(t)) \in Nat /\ Cardinality(Paying(t)') \in Nat
             /\ Cardinality(Counted(t)') \in Nat /\ Cardinality(Past(t)') \in Nat
  BY Sizes, FinitePrimed, FS_CardinalityType DEF Counts
<1>3. NotOvercounted'
  BY <1>1, <1>2, CountsAreNumbers DEF Counts, NotOvercounted
<1>4. NotUndercounted'
  BY <1>1, <1>2, CountsAreNumbers DEF Counts, NotUndercounted
<1> QED
  BY <1>3, <1>4 DEF Counts

-----------------------------------------------------------------------------
\* A fresh link: nothing went through its token yet.
LEMMA CreateStep ==
  ASSUME TypeOK, Counts, Arrivals', NEW a \in Admins, NEW t \in Tokens, NEW ttl \in Lifetimes,
         NEW n \in UseLimits, NEW r \in RateLimits, Create(a, t, ttl, n, r)
  PROVE  Counts'
<1> USE DEF TypeOK, Types
<1>1. \A s \in Tokens : /\ Paying(s)' = Paying(s)
                        /\ Counted(s)' = Counted(s)
                        /\ Past(s)' = Past(s)
  BY DEF Create, Paying, Counted, Past, Through
<1>2. Paying(t) = {} /\ Counted(t) = {}
  BY DEF Create, Paying, Counted, Through, Charged
<1>3. Cardinality(Paying(t)) = 0 /\ Cardinality(Counted(t)) = 0
  BY <1>2, FS_EmptySet
<1>4. links'[t].uses = 0 /\ disk'[t] = NoLink
  BY DEF Create
<1>5. \A s \in Tokens \ {t} : links'[s] = links[s]
  BY DEF Create
<1>6. UNCHANGED <<disk, diskErrs, crashes>>
  BY DEF Create
<1>7. NotOvercounted'
  BY <1>1, <1>3, <1>4, <1>5, <1>6 DEF Counts, NotOvercounted
<1>8. NotUndercounted'
  BY <1>1, <1>3, <1>4, <1>5, <1>6 DEF Counts, NotUndercounted
<1> QED
  BY <1>7, <1>8 DEF Counts

\* A use: one more upload has got so far, and the link's counter is one up.
LEMMA ConsumeStep ==
  ASSUME IInv, Counts, Arrivals', NEW u \in Uploads, Consume(u)
  PROVE  Counts'
<1> USE DEF IInv, TypeOK, Types
<1> DEFINE t == tok[u]
<1>1. /\ pc[u] = "consume" /\ pc' = [pc EXCEPT ![u] = "persist"]
      /\ UNCHANGED <<disk, tok, crashes, diskErrs>>
  BY DEF Consume, Goto
<1>2. links[t] # NoLink
  BY <1>1 DEF UseLeft, Alive
<1>3. links' = [links EXCEPT ![t] = [links[t] EXCEPT !.uses = links[t].uses + 1]]
  BY <1>2 DEF Consume, Alive
<1>4. links'[t] # NoLink /\ links'[t].uses = links[t].uses + 1 /\ links[t].uses \in Nat
  <2>1. links[t] \in Link
    BY <1>2
  <2>2. [links[t] EXCEPT !.uses = links[t].uses + 1].uses = links[t].uses + 1
    BY <2>1 DEF Link
  <2>3. [links[t] EXCEPT !.uses = links[t].uses + 1] \in Link
    BY <2>1, LinkUpdates, LinkAssumption
  <2> QED
    BY <1>3, <2>1, <2>2, <2>3, LinkAssumption DEF Link
<1>5. \A s \in Tokens \ {t} : links'[s] = links[s]
  BY <1>3
<1>6. /\ Paying(t)' = Paying(t) \cup {u} /\ u \notin Paying(t)
      /\ Counted(t)' = Counted(t) \cup {u} /\ u \notin Counted(t)
      /\ Past(t)' = Past(t)
  BY <1>1 DEF Paying, Counted, Past, Through, Charged
<1>7. \A s \in Tokens \ {t} :
        Paying(s)' = Paying(s) /\ Counted(s)' = Counted(s) /\ Past(s)' = Past(s)
  BY <1>1 DEF Paying, Counted, Past, Through
<1>8. /\ Cardinality(Paying(t)') = Cardinality(Paying(t)) + 1
      /\ Cardinality(Counted(t)') = Cardinality(Counted(t)) + 1
      /\ Cardinality(Paying(t)) \in Nat /\ Cardinality(Counted(t)) \in Nat
  BY <1>6, Sizes, FS_AddElement DEF Counts
<1>9. NotOvercounted'
  <2>1. ASSUME NEW s \in Tokens
        PROVE  /\ links'[s] # NoLink => links'[s].uses <= Cardinality(Paying(s)')
               /\ disk'[s] # NoLink => disk'[s].uses <= Cardinality(Paying(s)')
    <3>1. CASE s = t
      <4>1. disk[t] # NoLink => disk[t].uses \in Nat
        BY CountsAreNumbers
      <4> QED
        BY <3>1, <4>1, <1>1, <1>2, <1>4, <1>8 DEF Counts, NotOvercounted
    <3>2. CASE s # t
      BY <3>2, <1>1, <1>5, <1>7 DEF Counts, NotOvercounted
    <3> QED
      BY <3>1, <3>2
  <2> QED
    BY <2>1 DEF NotOvercounted
<1>10. NotUndercounted'
  <2>1. ASSUME NEW s \in Tokens
        PROVE  /\ (crashes = 0 \/ diskErrs = 0) =>
                    (links'[s] # NoLink => Cardinality(Counted(s)') <= links'[s].uses)
               /\ diskErrs = 0 => (disk'[s] # NoLink => Cardinality(Past(s)') <= disk'[s].uses)
    <3>1. CASE s = t
      BY <3>1, <1>1, <1>2, <1>4, <1>6, <1>8 DEF Counts, NotUndercounted
    <3>2. CASE s # t
      BY <3>2, <1>1, <1>5, <1>7 DEF Counts, NotUndercounted
    <3> QED
      BY <3>1, <3>2
  <2> QED
    BY <2>1, <1>1 DEF NotUndercounted
<1> QED
  BY <1>9, <1>10 DEF Counts

\* The registry is written, or is not: what was counted in memory is in the file
\* before the upload gets on.
LEMMA WriteStep ==
  ASSUME TypeOK, Counts, Arrivals', Persist, UNCHANGED <<links, tok, crashes>>,
         \/ UNCHANGED pc
         \/ \E u \in Uploads : pc[u] = "persist" /\ pc' = [pc EXCEPT ![u] = "parse"]
  PROVE  Counts'
<1> USE DEF TypeOK, Types
<1>1. ASSUME NEW t \in Tokens
      PROVE  /\ Paying(t)' = Paying(t)
             /\ Counted(t)' = Counted(t)
             /\ Past(t)' \in SUBSET Counted(t)
  BY DEF Paying, Counted, Past, Through, Charged
<1>2. ASSUME NEW t \in Tokens
      PROVE  /\ Cardinality(Past(t)') \in Nat /\ Cardinality(Counted(t)) \in Nat
             /\ Cardinality(Past(t)') <= Cardinality(Counted(t))
  <2>1. IsFiniteSet(Counted(t)) /\ Cardinality(Counted(t)) \in Nat
    BY Sizes DEF Counts
  <2> QED
    BY <2>1, <1>1, FS_Subset, FS_CardinalityType
<1>3. CASE disk' = links /\ UNCHANGED diskErrs
  <2>1. NotOvercounted'
    BY <1>3, <1>1 DEF Counts, NotOvercounted
  <2>2. NotUndercounted'
    BY <1>3, <1>1, <1>2, CountsAreNumbers DEF Counts, NotUndercounted
  <2> QED
    BY <2>1, <2>2 DEF Counts
<1>4. CASE diskErrs' = diskErrs + 1 /\ UNCHANGED disk
  <2>1. NotOvercounted'
    BY <1>4, <1>1 DEF Counts, NotOvercounted
  <2>2. diskErrs' # 0
    BY <1>4
  <2>3. NotUndercounted'
    BY <2>2, <1>4, <1>1 DEF Counts, NotUndercounted
  <2> QED
    BY <2>1, <2>3 DEF Counts
<1> QED
  BY <1>3, <1>4 DEF Persist

\* A crash: memory is what the file says, and what had not got past the write is
\* cut off.
LEMMA CrashStep ==
  ASSUME TypeOK, Counts, Arrivals', Crash
  PROVE  Counts'
<1> USE DEF TypeOK, Types
<1>1. /\ links' = disk /\ UNCHANGED <<disk, tok, diskErrs>>
      /\ crashes' = crashes + 1 /\ crashes \in Nat
      /\ pc' = [u \in Uploads |-> IF pc[u] \in Answers \cup {"idle"} THEN pc[u] ELSE "cut"]
  BY DEF Crash
<1>2. ASSUME NEW t \in Tokens
      PROVE  /\ Paying(t) \in SUBSET Paying(t)'
             /\ Counted(t)' \in SUBSET Past(t) /\ Past(t)' \in SUBSET Past(t)
  <2>1. ASSUME NEW u \in Uploads
        PROVE  /\ pc[u] \in Charged \cup {"cut"} => pc'[u] \in Charged \cup {"cut"}
               /\ pc'[u] \in Charged => pc[u] \in Charged \ {"persist"}
    BY <1>1 DEF Charged, Answers
  <2>2. tok' = tok
    BY <1>1
  <2>3. Counted(t)' \in SUBSET Past(t)
    BY <2>1, <2>2 DEF Counted, Past, Through
  <2>4. Paying(t) \in SUBSET Paying(t)' /\ Past(t)' \in SUBSET Counted(t)'
    BY <2>1, <2>2 DEF Paying, Counted, Past, Through
  <2> QED
    BY <2>3, <2>4
<1>3. ASSUME NEW t \in Tokens
      PROVE  /\ Cardinality(Counted(t)') \in Nat /\ Cardinality(Past(t)') \in Nat
             /\ Cardinality(Past(t)) \in Nat
             /\ Cardinality(Counted(t)') <= Cardinality(Past(t))
             /\ Cardinality(Past(t)') <= Cardinality(Past(t))
  <2>1. IsFiniteSet(Past(t)) /\ Cardinality(Past(t)) \in Nat
    BY Sizes DEF Counts
  <2> QED
    BY <2>1, <1>2, FS_Subset, FS_CardinalityType
<1>4. ASSUME NEW t \in Tokens
      PROVE  /\ Cardinality(Paying(t)) \in Nat /\ Cardinality(Paying(t)') \in Nat
             /\ Cardinality(Paying(t)) <= Cardinality(Paying(t)')
  BY <1>2, Sizes, FinitePrimed, FS_Subset, FS_CardinalityType DEF Counts
<1>5. NotOvercounted'
  BY <1>1, <1>4, CountsAreNumbers DEF Counts, NotOvercounted
<1>6. NotUndercounted'
  BY <1>1, <1>3, CountsAreNumbers DEF Counts, NotUndercounted
<1> QED
  BY <1>5, <1>6 DEF Counts

-----------------------------------------------------------------------------
\* Every step keeps the counts.
LEMMA CountStep == IInv /\ Counts /\ [Next]_vars => Counts'
<1> SUFFICES ASSUME IInv, Counts, [Next]_vars PROVE Counts'
  OBVIOUS
<1>1. TypeOK /\ Arrivals'
  BY ArrivalStep DEF IInv, Counts
<1>2. ASSUME NEW a \in Admins, NEW t \in Tokens, NEW ttl \in Lifetimes,
             NEW n \in UseLimits, NEW r \in RateLimits, Create(a, t, ttl, n, r)
      PROVE  Counts'
  BY <1>1, <1>2, CreateStep
<1>3. ASSUME NEW a \in Admins, NEW t \in Tokens,
             Revoke(a, t) \/ \E d \in Dirs \cup {NoDir} : SetAutoSaveDir(a, t, d)
      PROVE  Counts'
  <2>1. \A s \in Tokens : links[s] # NoLink =>
          links'[s] # NoLink /\ links'[s].uses = links[s].uses
    BY <1>1, <1>3, EditsKeepUses DEF Alive
  <2>2. \A s \in Tokens : links[s] = NoLink => links'[s] = NoLink
    BY <1>1, <1>3 DEF Revoke, SetAutoSaveDir, Alive, TypeOK, Types
  <2>3. UNCHANGED <<tok, disk, diskErrs, crashes, pc, landed>>
    BY <1>3 DEF Revoke, SetAutoSaveDir
  <2> QED
    BY <1>1, <2>1, <2>2, <2>3, QuietStep
<1>4. ASSUME NEW a \in Admins, Answer(a) PROVE Counts'
  BY <1>1, <1>4, WriteStep DEF Answer
<1>5. ASSUME NEW u \in Uploads, Arrive(u) \/ Admit(u) \/ CheckRate(u) \/ Parse(u) \/ Store(u)
      PROVE  Counts'
  <2>1. UNCHANGED <<links, tok, disk, diskErrs, crashes>>
    BY <1>5 DEF Arrive, Admit, CheckRate, Parse, Store
  <2>2. PICK label \in {"waiting", "rate", "gone", "consume", "limited", "store", "bad", "accepted"} :
          /\ pc' = [pc EXCEPT ![u] = label]
          /\ label \in {"store", "bad", "accepted"} => pc[u] \in {"parse", "store"}
          /\ label \notin {"store", "bad", "accepted"}
               => pc[u] \notin Charged \cup {"cut"}
    BY <1>5 DEF Arrive, Admit, CheckRate, Parse, Store, Goto, Charged
  <2>4. \A v \in Uploads :
          /\ pc'[v] \in Charged => pc[v] \in Charged
          /\ pc'[v] \in Charged \ {"persist"} => pc[v] \in Charged \ {"persist"}
          /\ pc[v] \in Charged \cup {"cut"} => pc'[v] \in Charged \cup {"cut"}
    BY <1>1, <2>2 DEF TypeOK, Types, Charged
  <2> QED
    BY <1>1, <2>1, <2>4, QuietStep
<1>6. ASSUME NEW u \in Uploads, Consume(u) PROVE Counts'
  BY <1>1, <1>6, ConsumeStep
<1>7. ASSUME NEW u \in Uploads, PersistUse(u) PROVE Counts'
  BY <1>1, <1>7, WriteStep DEF PersistUse, Goto
<1>8. CASE Crash
  BY <1>1, <1>8, CrashStep
<1>9. CASE Tick \/ UNCHANGED vars
  <2>1. UNCHANGED <<links, tok, disk, diskErrs, crashes, pc, landed>>
    BY <1>9 DEF Tick, vars
  <2> QED
    BY <1>1, <2>1, QuietStep
<1> QED
  BY <1>2, <1>3, <1>4, <1>5, <1>6, <1>7, <1>8, <1>9 DEF Next, Owner, Handler

\* The counts hold from the start.
LEMMA CountInv == Spec => [](IInv /\ Counts)
<1>1. Init => Counts
  <2> SUFFICES ASSUME Init PROVE Counts
    OBVIOUS
  <2>1. Arrivals
    <3>1. {u \in Uploads : pc[u] # "idle"} = {} /\ landed = {}
      BY DEF Init
    <3> QED
      BY <3>1, FS_EmptySet DEF Arrivals
  <2> QED
    BY <2>1 DEF Init, Counts, NotOvercounted, NotUndercounted
<1> QED
  BY <1>1, CountStep, Inductive, PTL DEF Spec

-----------------------------------------------------------------------------
\* drops.go:417: over all crashes and restarts no more uploads land than the link
\* allows, as long as droplinks.json could be written.
THEOREM LandedKept == Spec => []LandedWithinBudget
<1>1. IInv /\ Counts => LandedWithinBudget
  <2> SUFFICES ASSUME IInv, Counts, diskErrs = 0, NEW t \in Tokens, Alive(t), links[t].maxUses > 0
               PROVE  Cardinality({u \in landed : tok[u] = t}) <= links[t].maxUses
    BY DEF LandedWithinBudget
  <2>1. {u \in landed : tok[u] = t} \in SUBSET Counted(t)
    BY DEF Counts, Arrivals, Counted, Through, Charged, IInv, TypeOK, Types
  <2>2. IsFiniteSet(Counted(t)) /\ Cardinality(Counted(t)) \in Nat
    BY Sizes DEF Counts
  <2>3. /\ Cardinality({u \in landed : tok[u] = t}) \in Nat
        /\ Cardinality({u \in landed : tok[u] = t}) <= Cardinality(Counted(t))
    BY <2>1, <2>2, FS_Subset, FS_CardinalityType
  <2>4. Cardinality(Counted(t)) <= links[t].uses
    BY DEF Counts, NotUndercounted, Alive
  <2>5. links[t].uses <= links[t].maxUses
    BY DEF IInv, UseBudget, Alive
  <2>6. links[t].uses \in Nat /\ links[t].maxUses \in Int
    <3>1. links[t] \in Link
      BY DEF IInv, TypeOK, Types, Alive
    <3> QED
      BY <3>1, LinkAssumption DEF Link
  <2> QED
    BY <2>2, <2>3, <2>4, <2>5, <2>6
<1> QED
  BY <1>1, CountInv, PTL

\* drops.go:406-421: stored uploads and uploads that failed in their body cost one use
\* each, waiting and refused ones none, and a restart forgets none that was answered.
THEOREM UsesExact == Spec => []UsesAreUploads
<1>1. IInv /\ Counts => UsesAreUploads
  <2> SUFFICES ASSUME IInv, Counts, NEW t \in Tokens, Alive(t)
               PROVE  /\ links[t].uses <= Cardinality(Paying(t))
                      /\ (crashes = 0 \/ diskErrs = 0) =>
                           links[t].uses >= Cardinality(Counted(t))
    BY DEF UsesAreUploads, Paying, Counted
  <2>1. links[t].uses \in Nat /\ Cardinality(Counted(t)) \in Nat
    BY Sizes, CountsAreNumbers DEF Counts, IInv, Alive
  <2> QED
    BY <2>1 DEF Counts, NotOvercounted, NotUndercounted, Alive
<1> QED
  BY <1>1, CountInv, PTL

\* drops.go:168-180 (persist): when no change is between the registry and its file, they are equal.
THEOREM WrittenBack == Spec => []WrittenWhenQuiet
<1>1. Init => WrittenWhenQuiet
  BY DEF Init, WrittenWhenQuiet
<1>2. TypeOK /\ WrittenWhenQuiet /\ [Next]_vars => WrittenWhenQuiet'
  <2> SUFFICES ASSUME TypeOK, WrittenWhenQuiet, [Next]_vars PROVE WrittenWhenQuiet'
    OBVIOUS
  <2> USE DEF TypeOK, Types, WrittenWhenQuiet, Goto
  <2>1. ASSUME NEW a \in Admins, NEW t \in Tokens, NEW ttl \in Lifetimes,
               NEW n \in UseLimits, NEW r \in RateLimits, Create(a, t, ttl, n, r)
        PROVE  WrittenWhenQuiet'
    <3>1. admin'[a] # Idle
      BY <2>1 DEF Create, Idle
    <3> QED
      BY <3>1
  <2>2. ASSUME NEW a \in Admins, NEW t \in Tokens,
               Revoke(a, t) \/ \E d \in Dirs \cup {NoDir} : SetAutoSaveDir(a, t, d)
        PROVE  WrittenWhenQuiet'
    <3>1. admin'[a] # Idle
      BY <2>2 DEF Revoke, SetAutoSaveDir, Idle
    <3> QED
      BY <3>1
  <2>3. ASSUME Persist, UNCHANGED links PROVE WrittenWhenQuiet'
    BY <2>3 DEF Persist
  <2>4. ASSUME NEW a \in Admins, Answer(a) PROVE WrittenWhenQuiet'
    BY <2>3, <2>4 DEF Answer
  <2>5. ASSUME NEW u \in Uploads, Consume(u) PROVE WrittenWhenQuiet'
    BY <2>5 DEF Consume
  <2>6. ASSUME NEW u \in Uploads, PersistUse(u) PROVE WrittenWhenQuiet'
    BY <2>3, <2>6 DEF PersistUse
  <2>7. ASSUME NEW u \in Uploads, Arrive(u) \/ Admit(u) \/ CheckRate(u) \/ Parse(u) \/ Store(u)
        PROVE  WrittenWhenQuiet'
    <3>1. UNCHANGED <<links, disk, admin, diskErrs>> /\ pc[u] # "persist"
      BY <2>7 DEF Arrive, Admit, CheckRate, Parse, Store
    <3>2. \A v \in Uploads : v # u => pc'[v] = pc[v]
      BY <2>7 DEF Arrive, Admit, CheckRate, Parse, Store
    <3> QED
      BY <3>1, <3>2
  <2>8. CASE Crash
    BY <2>8 DEF Crash
  <2>9. CASE Tick \/ UNCHANGED vars
    BY <2>9 DEF Tick, vars
  <2> QED
    BY <2>1, <2>2, <2>4, <2>5, <2>6, <2>7, <2>8, <2>9 DEF Next, Owner, Handler
<1> QED
  BY <1>1, <1>2, TypeCorrect, PTL DEF Spec
=============================================================================
