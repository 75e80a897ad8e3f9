---------------------------- MODULE PartsProofs ----------------------------
(*****************************************************************************)
(* Theorems about the parts of the app that share no state, which MCParts    *)
(* runs together: the rate limiter, the listener, the updater, telemetry and *)
(* sending, each with a section and an invariant of its own (those about the *)
(* settings are in ConfigProofs); and at the end that what holds of a part   *)
(* holds of MCParts, which moves one of them and leaves the others.          *)
(*****************************************************************************)
EXTENDS MCParts, ConfigProofs, SequenceTheorems, FunctionTheorems, FiniteSetTheorems, TLAPS

-----------------------------------------------------------------------------
(*****************************************************************************)
(* The rate limiter.  The cap and the Retry-After answer of allow, for every *)
(* cap, every pause and every number of uploads.                             *)
(*                                                                           *)
(* The bucket remembers only a debt.  What it proves about the past is       *)
(* DebtCovers: since each grant the debt has grown by a unit for every token *)
(* given, less at most what came back.  The cap never forgives more, as a    *)
(* bucket that was capped owes nothing.                                      *)
(*****************************************************************************)
Kinds ==
  /\ bucket \in [debt : Nat, last : Nat] /\ bucket.last <= now
  /\ now \in Nat /\ promise \in Nat
  /\ grants \in Seq(Nat)
  /\ \A i \in DOMAIN grants : grants[i] <= bucket.last

\* What was given since grant i is owed, but for the refill since then.
DebtCovers ==
  \A i \in DOMAIN grants :
    Unit * (Len(grants) - i + 1) <= bucket.debt + RatePerMin * (bucket.last - grants[i])

\* A refusal stands until the bucket changes again.
PromiseKept ==
  promise > 0 =>
    /\ ~HasToken(bucket, RatePerMin)
    /\ promise = bucket.last + RetryAfter(bucket, RatePerMin)

LimiterInv == Kinds /\ DebtCovers /\ GrantsBounded /\ PromiseKept

-----------------------------------------------------------------------------
\* A refill over a longer time is a refill and a refill.
LEMMA Distributes ==
  ASSUME NEW r \in Nat, NEW a \in Int, NEW b \in Int, NEW c \in Int
  PROVE  r * (a - b) + r * (b - c) = r * (a - c)
OBVIOUS

\* What division by the cap rounds to.
LEMMA Rounds ==
  ASSUME NEW r \in Nat \ {0}, NEW m \in Nat
  PROVE  /\ (m + r - 1) \div r \in Nat
         /\ r * ((m + r - 1) \div r) >= m
         /\ r * ((m + r - 1) \div r) < m + r
OBVIOUS

\* A longer time gives back more.
LEMMA Grows ==
  ASSUME NEW r \in Nat, NEW a \in Int, NEW b \in Int, a <= b
  PROVE  r * a <= r * b
OBVIOUS

\* What was given before a refill is still covered after it.
LEMMA StillCovers ==
  ASSUME NEW given \in Int, NEW debt \in Int, NEW left \in Int, NEW before \in Int,
         NEW since \in Int, given <= debt + before, left >= debt - since
  PROVE  given <= left + (since + before)
OBVIOUS

\* The operator keeps the debt a number and forgives at most the refill.
LEMMA RefillOwes ==
  ASSUME Kinds, RatePerMin \in Nat, NEW t \in Nat, bucket.last <= t
  PROVE  /\ Refill(bucket, RatePerMin, t) \in [debt : Nat, last : Nat]
         /\ Refill(bucket, RatePerMin, t).last = t
         /\ Refill(bucket, RatePerMin, t).debt >= bucket.debt - RatePerMin * (t - bucket.last)
BY DEF Kinds, Refill

-----------------------------------------------------------------------------
\* A grant adds itself to what is owed, and the bucket had a token for it.
LEMMA AllowStep == LimiterInv /\ Allow => LimiterInv'
<1> SUFFICES ASSUME LimiterInv, Allow PROVE LimiterInv'
  OBVIOUS
<1> DEFINE b == Refill(bucket, RatePerMin, now)
<1> RatePerMin \in Nat
  BY RateAssumption
<1>1. /\ b \in [debt : Nat, last : Nat] /\ b.last = now
      /\ b.debt >= bucket.debt - RatePerMin * (now - bucket.last)
  BY RefillOwes DEF LimiterInv, Kinds
<1>2. /\ bucket' \in [debt : Nat, last : Nat] /\ bucket'.last = now
      /\ bucket'.debt = b.debt + Unit /\ bucket'.debt <= Capacity(RatePerMin)
  BY <1>1 DEF Allow, Take, HasToken, Unit, Capacity
<1> HIDE DEF b
<1>3. /\ now' = now /\ promise' = 0 /\ grants' = Append(grants, now)
      /\ grants \in Seq(Nat) /\ now \in Nat
  BY DEF Allow, LimiterInv, Kinds
<1>4. /\ Len(grants) \in Nat /\ Len(grants') = Len(grants) + 1
      /\ DOMAIN grants = 1..Len(grants) /\ DOMAIN grants' = 1..(Len(grants) + 1)
      /\ grants'[Len(grants) + 1] = now
      /\ \A i \in DOMAIN grants : grants'[i] = grants[i] /\ grants[i] \in Nat
  BY <1>3
<1>5. /\ bucket.last \in Nat /\ bucket.debt \in Nat /\ bucket.last <= now
      /\ \A i \in DOMAIN grants : grants[i] <= bucket.last
  BY DEF LimiterInv, Kinds
<1>6. Kinds'
  <2>1. grants' \in Seq(Nat)
    BY <1>3
  <2>2. \A i \in DOMAIN grants' : grants'[i] <= now
    BY <1>3, <1>4, <1>5
  <2> QED
    BY <1>2, <1>3, <2>1, <2>2 DEF Kinds
<1>7. ASSUME NEW i \in DOMAIN grants'
      PROVE  Unit * (Len(grants') - i + 1) <= bucket'.debt + RatePerMin * (now - grants'[i])
  <2>1. CASE i = Len(grants) + 1
    <3>1. RatePerMin * (now - grants'[i]) = 0
      BY <2>1, <1>3, <1>4
    <3> QED
      BY <2>1, <3>1, <1>1, <1>2, <1>4 DEF Unit
  <2>2. CASE i \in DOMAIN grants
    <3>1. Unit * (Len(grants) - i + 1) <= bucket.debt + RatePerMin * (bucket.last - grants[i])
      BY <2>2 DEF LimiterInv, DebtCovers
    <3>2. RatePerMin * (now - bucket.last) + RatePerMin * (bucket.last - grants[i])
            = RatePerMin * (now - grants[i])
      BY <2>2, <1>3, <1>4, Distributes DEF LimiterInv, Kinds
    <3>3. /\ RatePerMin * (now - bucket.last) \in Int
          /\ RatePerMin * (bucket.last - grants[i]) \in Int
          /\ bucket.debt \in Nat
      BY <2>2, <1>3, <1>4 DEF LimiterInv, Kinds
    <3>4. Unit * (Len(grants') - i + 1) = Unit * (Len(grants) - i + 1) + Unit
      BY <1>4, <2>2 DEF Unit
    <3>5. Unit * (Len(grants) - i + 1) \in Int /\ grants'[i] = grants[i]
      BY <1>4, <2>2 DEF Unit
    <3>6. RatePerMin * (now - grants[i]) \in Int
      BY <2>2, <1>3, <1>4
    <3> QED
      <4>1. Unit * (Len(grants) - i + 1) <= b.debt + RatePerMin * (now - grants[i])
        BY <3>1, <3>2, <3>3, <3>5, <1>1, StillCovers
      <4> DEFINE given == Unit * (Len(grants) - i + 1)
                 back  == RatePerMin * (now - grants[i])
      <4>2. given \in Int /\ back \in Int /\ b.debt \in Nat /\ given <= b.debt + back
        BY <4>1, <3>5, <3>6, <1>1
      <4>3. given + 60 <= (b.debt + 60) + back
        <5> HIDE DEF given, back
        <5> QED
          BY <4>2
      <4> QED
        BY <4>3, <3>4, <3>5, <1>2 DEF Unit
  <2> QED
    BY <2>1, <2>2, <1>4
<1>8. DebtCovers'
  BY <1>7, <1>2 DEF DebtCovers
<1>9. GrantsBounded'
  <2> SUFFICES ASSUME NEW i \in DOMAIN grants', NEW j \in DOMAIN grants', i <= j
               PROVE  Unit * (j - i + 1)
                        <= Capacity(RatePerMin) + RatePerMin * (grants'[j] - grants'[i])
    BY DEF GrantsBounded
  <2>1. CASE j = Len(grants) + 1
    <3>1. Unit * (j - i + 1) <= bucket'.debt + RatePerMin * (grants'[j] - grants'[i])
      BY <1>7, <1>4, <2>1
    <3>2. RatePerMin * (grants'[j] - grants'[i]) \in Int /\ Capacity(RatePerMin) \in Int
      BY <1>3, <1>4 DEF Capacity, Unit
    <3> QED
      BY <3>1, <3>2, <1>2, <1>4 DEF Unit
  <2>2. CASE j \in DOMAIN grants
    BY <2>2, <1>4 DEF LimiterInv, GrantsBounded
  <2> QED
    BY <2>1, <2>2, <1>4
<1>10. PromiseKept'
  BY <1>3 DEF PromiseKept
<1> QED
  BY <1>6, <1>8, <1>9, <1>10 DEF LimiterInv

\* A refusal refills the bucket too; what is owed stays covered.
LEMMA RefuseStep == LimiterInv /\ Refuse => LimiterInv'
<1> SUFFICES ASSUME LimiterInv, Refuse PROVE LimiterInv'
  OBVIOUS
<1> DEFINE b == Refill(bucket, RatePerMin, now)
<1> RatePerMin \in Nat \ {0}
  BY RateAssumption
<1>1. /\ b \in [debt : Nat, last : Nat] /\ b.last = now
      /\ b.debt >= bucket.debt - RatePerMin * (now - bucket.last)
  BY RefillOwes DEF LimiterInv, Kinds
<1>2. /\ bucket' = b /\ now' = now /\ grants' = grants
      /\ grants \in Seq(Nat) /\ now \in Nat /\ ~HasToken(b, RatePerMin)
      /\ promise' = now + RetryAfter(b, RatePerMin)
  BY DEF Refuse, LimiterInv, Kinds
<1> HIDE DEF b
<1>3. RetryAfter(b, RatePerMin) \in Nat
  <2>1. b.debt + Unit - Capacity(RatePerMin) \in Nat
    BY <1>1, <1>2 DEF HasToken, Unit, Capacity
  <2> QED
    BY <2>1, Rounds DEF RetryAfter
<1>4. Kinds'
  <2>1. /\ bucket.last \in Nat /\ bucket.last <= now
        /\ \A i \in DOMAIN grants : grants[i] \in Nat /\ grants[i] <= bucket.last
    BY DEF LimiterInv, Kinds
  <2> QED
    BY <2>1, <1>1, <1>2, <1>3 DEF Kinds
<1>5. DebtCovers'
  <2> SUFFICES ASSUME NEW i \in DOMAIN grants
               PROVE  Unit * (Len(grants) - i + 1) <= b.debt + RatePerMin * (now - grants[i])
    BY <1>1, <1>2 DEF DebtCovers
  <2>1. /\ Unit * (Len(grants) - i + 1) <= bucket.debt + RatePerMin * (bucket.last - grants[i])
        /\ Unit * (Len(grants) - i + 1) \in Int
    BY DEF LimiterInv, DebtCovers, Kinds, Unit
  <2>4. bucket.debt \in Nat /\ bucket.last \in Nat /\ grants[i] \in Nat /\ now \in Nat
    BY DEF LimiterInv, Kinds
  <2>2. RatePerMin * (now - bucket.last) + RatePerMin * (bucket.last - grants[i])
          = RatePerMin * (now - grants[i])
    BY <2>4, Distributes
  <2>3. /\ RatePerMin * (bucket.last - grants[i]) \in Int
        /\ RatePerMin * (now - bucket.last) \in Int /\ b.debt \in Int
    BY <2>4, <1>1
  <2>5. Unit * (Len(grants) - i + 1)
          <= b.debt + (RatePerMin * (now - bucket.last) + RatePerMin * (bucket.last - grants[i]))
    <3>1. b.debt >= bucket.debt - RatePerMin * (now - bucket.last) /\ bucket.debt \in Int
      BY <1>1, <2>4
    <3> QED
      BY <3>1, <2>1, <2>3, StillCovers, ZenonT(40)
  <2> QED
    BY <2>2, <2>5, Zenon
<1>6. GrantsBounded'
  BY <1>2 DEF LimiterInv, GrantsBounded
<1>7. PromiseKept'
  BY <1>1, <1>2 DEF PromiseKept
<1> QED
  BY <1>4, <1>5, <1>6, <1>7 DEF LimiterInv

\* The invariant, over the whole specification.
THEOREM LimiterInvariant == LimiterSpec => []LimiterInv
<1>1. LimiterInit => LimiterInv
  BY RateAssumption
     DEF LimiterInit, LimiterInv, Kinds, DebtCovers, GrantsBounded, PromiseKept, FreshBucket
<1>2. ASSUME NEW d \in Pauses, LimiterInv, Tick(d) PROVE LimiterInv'
  BY <1>2, LimiterBounds DEF Tick, LimiterInv, Kinds, DebtCovers, GrantsBounded, PromiseKept
<1>3. LimiterInv /\ UNCHANGED limiterVars => LimiterInv'
  BY DEF limiterVars, LimiterInv, Kinds, DebtCovers, GrantsBounded, PromiseKept
<1>4. LimiterInv /\ [LimiterNext]_limiterVars => LimiterInv'
  BY <1>2, <1>3, AllowStep, RefuseStep DEF LimiterNext
<1> QED
  BY <1>1, <1>4, PTL DEF LimiterSpec

\* allow: no stretch of time sees more than a full bucket and its refill.
THEOREM CapKept == LimiterSpec => []GrantsBounded
<1>1. LimiterInv => GrantsBounded
  BY DEF LimiterInv
<1> QED
  BY LimiterInvariant, <1>1, PTL

\* checkRate: the Retry-After of a refusal is neither too short nor too long.
THEOREM RetryExact == LimiterSpec => []RetryIsExact
<1>1. ASSUME LimiterInv, promise > 0
      PROVE  /\ now >= promise => HasToken(Refill(bucket, RatePerMin, now), RatePerMin)
             /\ promise > now + 1
                  => ~HasToken(Refill(bucket, RatePerMin, promise - 1), RatePerMin)
  <2> DEFINE missing == bucket.debt + Unit - Capacity(RatePerMin)
             secs    == (missing + RatePerMin - 1) \div RatePerMin
  <2>1. /\ RatePerMin \in Nat \ {0} /\ bucket.debt \in Nat /\ bucket.last \in Nat
        /\ now \in Nat /\ bucket.last <= now
    BY <1>1, RateAssumption DEF LimiterInv, Kinds
  <2>2. missing \in Nat \ {0} /\ Capacity(RatePerMin) = 60 * RatePerMin /\ Unit = 60
    BY <1>1, <2>1 DEF LimiterInv, PromiseKept, HasToken, Capacity, Unit
  <2>3. secs \in Nat /\ RatePerMin * secs >= missing /\ RatePerMin * secs < missing + RatePerMin
    <3> HIDE DEF missing
    <3> QED
      BY <2>1, <2>2, Rounds
  <2>4. secs >= 1
    <3>1. secs # 0
      <4> SUFFICES ASSUME secs = 0 PROVE FALSE
        OBVIOUS
      <4>1. RatePerMin * secs = 0
        BY <2>1
      <4> HIDE DEF missing, secs
      <4> QED
        BY <4>1, <2>2, <2>3
    <3> QED
      BY <3>1, <2>3
  <2>5. promise = bucket.last + secs
    BY <1>1, <2>3, <2>4 DEF LimiterInv, PromiseKept, RetryAfter
  <2> HIDE DEF secs
  <2>6. ASSUME now >= promise
        PROVE  HasToken(Refill(bucket, RatePerMin, now), RatePerMin)
    <3>1. RatePerMin * (now - bucket.last) >= RatePerMin * secs
      BY <2>1, <2>3, <2>5, <2>6, Grows
    <3>2. RatePerMin * (now - bucket.last) \in Int /\ RatePerMin * secs \in Int
      BY <2>1, <2>3
    <3> QED
      BY <2>1, <2>2, <2>3, <3>1, <3>2 DEF HasToken, Refill
  <2>7. ~HasToken(Refill(bucket, RatePerMin, promise - 1), RatePerMin)
    <3>1. RatePerMin * ((promise - 1) - bucket.last) = RatePerMin * secs - RatePerMin
      <4>1. (promise - 1) - bucket.last = secs - 1
        BY <2>1, <2>3, <2>5
      <4>2. RatePerMin * (secs - 1) = RatePerMin * secs - RatePerMin
        BY <2>1, <2>3
      <4> QED
        BY <4>1, <4>2
    <3>2. RatePerMin * secs \in Int
      BY <2>1, <2>3
    <3> QED
      BY <2>1, <2>2, <2>3, <3>1, <3>2 DEF HasToken, Refill
  <2> QED
    BY <2>6, <2>7
<1>2. LimiterInv => RetryIsExact
  BY <1>1 DEF RetryIsExact
<1> QED
  BY LimiterInvariant, <1>2, PTL

\* A refill never adds to the debt.
LEMMA RefillPays ==
  ASSUME bucket \in [debt : Nat, last : Nat], now \in Nat, bucket.last <= now
  PROVE  Refill(bucket, RatePerMin, now).debt <= bucket.debt
<1>1. RatePerMin * 0 <= RatePerMin * (now - bucket.last) /\ RatePerMin * 0 = 0
  BY RateAssumption, Grows
<1>2. RatePerMin * (now - bucket.last) \in Int
  BY RateAssumption
<1> QED
  BY <1>1, <1>2 DEF Refill

\* allow: the bucket owes at most a full one, and no grant is later than the clock.
THEOREM LimiterTypes == LimiterSpec => []LimiterTypeOK
<1>1. LimiterInit => LimiterTypeOK
  BY RateAssumption, LimiterBounds
     DEF LimiterInit, LimiterTypeOK, FreshBucket, Capacity, Unit
<1>2. ASSUME LimiterInv, LimiterTypeOK, [LimiterNext]_limiterVars PROVE LimiterTypeOK'
  <2> DEFINE b == Refill(bucket, RatePerMin, now)
  <2>1. /\ b \in [debt : Nat, last : Nat] /\ b.last = now /\ b.debt <= bucket.debt
        /\ bucket.debt \in 0..Capacity(RatePerMin) /\ RatePerMin \in Nat \ {0}
    BY <1>2, RefillOwes, RefillPays, RateAssumption DEF LimiterInv, Kinds, LimiterTypeOK
  <2>2. /\ Capacity(RatePerMin) \in Nat /\ now \in 0..MaxTime /\ grants \in Seq(0..MaxTime)
        /\ bucket.last \in 0..now
    BY <1>2, RateAssumption DEF LimiterTypeOK, Capacity, Unit
  <2>3. ASSUME NEW d \in Pauses, Tick(d) PROVE LimiterTypeOK'
    BY <1>2, <2>3, LimiterBounds DEF Tick, LimiterTypeOK
  <2>4. CASE Allow
    <3>1. /\ bucket'.debt = b.debt + Unit /\ bucket'.last = now
          /\ Capacity(RatePerMin) - b.debt >= Unit
      BY <2>1, <2>4 DEF Allow, Take, HasToken
    <3>2. grants' \in Seq(0..MaxTime) /\ now' = now /\ promise' = 0
      BY <2>2, <2>4 DEF Allow
    <3> HIDE DEF b
    <3> QED
      BY <2>1, <2>2, <3>1, <3>2 DEF LimiterTypeOK, Unit
  <2>5. CASE Refuse
    <3>1. bucket' = b /\ UNCHANGED <<now, grants>>
      BY <2>5 DEF Refuse
    <3>2. promise' \in Nat
      BY <1>2, <2>5, RefuseStep DEF LimiterInv, Kinds
    <3> HIDE DEF b
    <3> QED
      BY <2>1, <2>2, <3>1, <3>2 DEF LimiterTypeOK
  <2>6. CASE UNCHANGED limiterVars
    BY <1>2, <2>6 DEF limiterVars, LimiterTypeOK
  <2> QED
    BY <1>2, <2>3, <2>4, <2>5, <2>6 DEF LimiterNext
<1> QED
  BY <1>1, <1>2, LimiterInvariant, PTL DEF LimiterSpec

-----------------------------------------------------------------------------
(*****************************************************************************)
(* The listener.  For any number of rebinds and of failures: outside a rebind *)
(* the app has a listener, and once no rebind is due it is the one LAN mode  *)
(* asks for, but for the exceptions ListensAsAsked names.                    *)
(*                                                                           *)
(* The invariant follows the rebinds that are under way.  What counts is the *)
(* youngest: as long as one is asleep, or its switch is being saved, nothing *)
(* is promised; then the one that is awake has the host of the mode; and when *)
(* there is none, the one that holds listenerMu has it.  That there is one of *)
(* each at most is what excused and the mutex are for.                       *)
(*****************************************************************************)
At(t, places) == rebind[t].at \in places
Asleep == \E t \in Rebinds : At(t, {"saving", "asleep"})
Awake == \E t \in Rebinds : At(t, {"awake"})

\* listenerMu has one owner.
OneLocked ==
  \A s, t \in Rebinds :
    At(s, {"binding", "restoring"}) /\ At(t, {"binding", "restoring"}) => s = t

OneAwake == \A s, t \in Rebinds : At(s, {"awake"}) /\ At(t, {"awake"}) => s = t

\* The rebind that is awake has the host of the mode.
AwakeLeads == ~Asleep => \A t \in Rebinds : At(t, {"awake"}) => rebind[t].host = HostFor(lan)

\* When none is, the one that binds has it, or the listener.
LastLeads ==
  (~Asleep /\ ~Awake) =>
    /\ \A t \in Rebinds : ~At(t, {"restoring"})
    /\ \A t \in Rebinds : At(t, {"binding"}) => rebind[t].host = HostFor(lan)
    /\ ~Locked => bound = HostFor(lan) /\ ~deaf

Leads == (running /\ ~excused) => OneAwake /\ AwakeLeads /\ LastLeads

ListenerInv == ListenerTypeOK /\ OneLocked /\ KeepsServing /\ Leads

-----------------------------------------------------------------------------

\* Every step keeps the types.
LEMMA ListenerTypeStep == ListenerTypeOK /\ [ListenerNext]_listenerVars => ListenerTypeOK'
<1> SUFFICES ASSUME ListenerTypeOK, [ListenerNext]_listenerVars PROVE ListenerTypeOK'
  OBVIOUS
<1> USE ListenerAssumption DEF ListenerTypeOK, RebindSteps, Hosts, HostFor, NoRebind, Try, MoveTo
<1>1. ASSUME NEW t \in Rebinds, Toggle(t) PROVE ListenerTypeOK'
  BY <1>1 DEF Toggle
<1>2. ASSUME NEW t \in Rebinds, Wake(t) PROVE ListenerTypeOK'
  BY <1>2 DEF Wake, OthersAwake
<1>3. ASSUME NEW t \in Rebinds, CloseOld(t) PROVE ListenerTypeOK'
  BY <1>3 DEF CloseOld
<1>4. ASSUME NEW t \in Rebinds, Bind(t) PROVE ListenerTypeOK'
  BY <1>4 DEF Bind
<1>5. ASSUME NEW t \in Rebinds, BindFails(t) PROVE ListenerTypeOK'
  BY <1>5 DEF BindFails
<1>6. ASSUME NEW t \in Rebinds, Restore(t) PROVE ListenerTypeOK'
  BY <1>6 DEF Restore
<1>7. ASSUME NEW t \in Rebinds, RestoreFails(t) PROVE ListenerTypeOK'
  <2>1. tries' \in [DOMAIN ListenerLimits -> Nat]
    BY <1>7 DEF RestoreFails
  <2> QED
    BY <1>7, <2>1 DEF RestoreFails
<1>8. ASSUME NEW t \in Rebinds, ToggleUnsaved(t) PROVE ListenerTypeOK'
  <2>1. tries' \in [DOMAIN ListenerLimits -> Nat]
    BY <1>8 DEF ToggleUnsaved
  <2> QED
    BY <1>8, <2>1 DEF ToggleUnsaved
<1>9. CASE Quit
  BY <1>9 DEF Quit
<1>10. CASE MainReturns
  BY <1>10 DEF MainReturns
<1>11. ASSUME NEW t \in Rebinds, Schedule(t) PROVE ListenerTypeOK'
  BY <1>11 DEF Schedule
<1>12. CASE UNCHANGED listenerVars
  BY <1>12 DEF listenerVars
<1> QED
  BY <1>1, <1>2, <1>3, <1>4, <1>5, <1>6, <1>7, <1>8, <1>9, <1>10, <1>11, <1>12 DEF ListenerNext

\* The mutex keeps its one owner, and gives the listener back open or deaf.
LEMMA ListenerMutexStep ==
  ListenerTypeOK /\ OneLocked /\ KeepsServing /\ [ListenerNext]_listenerVars
    => OneLocked' /\ KeepsServing'
<1> SUFFICES ASSUME ListenerTypeOK, OneLocked, KeepsServing, [ListenerNext]_listenerVars
             PROVE  OneLocked' /\ KeepsServing'
  OBVIOUS
<1> USE DEF ListenerTypeOK, RebindSteps, OneLocked, KeepsServing, Locked, At, NoRebind, Try, MoveTo
<1>1. ASSUME NEW t \in Rebinds, Toggle(t) PROVE OneLocked' /\ KeepsServing'
  BY <1>1 DEF Toggle
<1>2. ASSUME NEW t \in Rebinds, Wake(t) PROVE OneLocked' /\ KeepsServing'
  BY <1>2 DEF Wake
<1>3. ASSUME NEW t \in Rebinds, CloseOld(t) PROVE OneLocked' /\ KeepsServing'
  BY <1>3 DEF CloseOld
<1>4. ASSUME NEW t \in Rebinds, Bind(t) PROVE OneLocked' /\ KeepsServing'
  BY <1>4 DEF Bind
<1>5. ASSUME NEW t \in Rebinds, BindFails(t) PROVE OneLocked' /\ KeepsServing'
  BY <1>5 DEF BindFails
<1>6. ASSUME NEW t \in Rebinds, Restore(t) PROVE OneLocked' /\ KeepsServing'
  BY <1>6 DEF Restore
<1>7. ASSUME NEW t \in Rebinds, RestoreFails(t) PROVE OneLocked' /\ KeepsServing'
  BY <1>7 DEF RestoreFails
<1>8. ASSUME NEW t \in Rebinds, ToggleUnsaved(t) PROVE OneLocked' /\ KeepsServing'
  BY <1>8 DEF ToggleUnsaved
<1>9. CASE Quit
  BY <1>9 DEF Quit
<1>10. CASE MainReturns
  BY <1>10 DEF MainReturns
<1>11. ASSUME NEW t \in Rebinds, Schedule(t) PROVE OneLocked' /\ KeepsServing'
  BY <1>11 DEF Schedule
<1>12. CASE UNCHANGED listenerVars
  BY <1>12 DEF listenerVars
<1> QED
  BY <1>1, <1>2, <1>3, <1>4, <1>5, <1>6, <1>7, <1>8, <1>9, <1>10, <1>11, <1>12 DEF ListenerNext

\* The youngest rebind goes on leading to the mode.
LEMMA LeadStep ==
  ListenerTypeOK /\ OneLocked /\ Leads /\ [ListenerNext]_listenerVars => Leads'
<1> SUFFICES ASSUME ListenerTypeOK, OneLocked, Leads, [ListenerNext]_listenerVars,
                    running', ~excused'
             PROVE  OneAwake' /\ AwakeLeads' /\ LastLeads'
  BY DEF Leads
<1> USE DEF ListenerTypeOK, RebindSteps, At, MoveTo, NoRebind
\* Nothing is promised while one is asleep.
<1>1. ASSUME NEW t \in Rebinds, Toggle(t) PROVE OneAwake' /\ AwakeLeads' /\ LastLeads'
  <2>1. OneAwake'
    BY <1>1 DEF Toggle, Leads, OneAwake
  <2>2. Asleep'
    BY <1>1 DEF Toggle, Asleep
  <2> QED
    BY <2>1, <2>2 DEF AwakeLeads, LastLeads
\* It reads the mode, and no other is awake.
<1>2. ASSUME NEW t \in Rebinds, Wake(t) PROVE OneAwake' /\ AwakeLeads' /\ LastLeads'
  <2>1. /\ At(t, {"awake"})' /\ rebind'[t].host = HostFor(lan')
        /\ \A s \in Rebinds \ {t} : ~At(s, {"awake"})'
    BY <1>2 DEF Wake, OthersAwake
  <2>2. Awake'
    BY <2>1 DEF Awake
  <2> QED
    BY <2>1, <2>2 DEF OneAwake, AwakeLeads, LastLeads
\* It was the one awake, so it has the host, and no other holds the mutex.
<1>3. ASSUME NEW t \in Rebinds, CloseOld(t) PROVE OneAwake' /\ AwakeLeads' /\ LastLeads'
  <2>1. OneAwake /\ AwakeLeads
    BY <1>3 DEF CloseOld, Leads
  <2>2. \A s \in Rebinds : ~At(s, {"awake"})'
    BY <1>3, <2>1 DEF CloseOld, OneAwake
  <2>3. Asleep' <=> Asleep
    BY <1>3 DEF CloseOld, Asleep
  <2>4. Locked'
    BY <1>3 DEF CloseOld, Locked
  <2>5. \A s \in Rebinds : ~At(s, {"restoring"})' /\ (At(s, {"binding"})' => s = t)
    BY <1>3 DEF CloseOld, Locked
  <2>6. ~Asleep' => rebind'[t].host = HostFor(lan')
    BY <1>3, <2>1, <2>3 DEF CloseOld, AwakeLeads
  <2> QED
    BY <2>2, <2>4, <2>5, <2>6 DEF OneAwake, AwakeLeads, LastLeads
\* The listener is bound to its host.
<1>4. ASSUME NEW t \in Rebinds, Bind(t) PROVE OneAwake' /\ AwakeLeads' /\ LastLeads'
  <2>1. OneAwake /\ AwakeLeads /\ LastLeads
    BY <1>4 DEF Bind, Leads
  <2>2. (Asleep' <=> Asleep) /\ (Awake' <=> Awake)
    BY <1>4 DEF Bind, Asleep, Awake
  <2>3. OneAwake' /\ AwakeLeads'
    BY <1>4, <2>1, <2>2 DEF Bind, OneAwake, AwakeLeads
  <2>4. LastLeads'
    BY <1>4, <2>1, <2>2 DEF Bind, LastLeads
  <2> QED
    BY <2>3, <2>4
<1>5. ASSUME NEW t \in Rebinds, BindFails(t) PROVE FALSE
  BY <1>5 DEF BindFails
\* A failed bind leaves its mark until a younger rebind wakes: one is under way.
<1>6. ASSUME NEW t \in Rebinds, Restore(t) \/ RestoreFails(t)
      PROVE  OneAwake' /\ AwakeLeads' /\ LastLeads'
  <2> /\ running /\ ~excused /\ lan' = lan /\ rebind[t].at = "restoring"
      /\ rebind' = [rebind EXCEPT ![t] = NoRebind]
    BY <1>6 DEF Restore, RestoreFails
  <2>1. OneAwake /\ AwakeLeads /\ LastLeads
    BY DEF Leads
  <2>2. (Asleep' <=> Asleep) /\ (Awake' <=> Awake)
    BY DEF Asleep, Awake
  <2>3. OneAwake' /\ AwakeLeads'
    BY <2>1, <2>2 DEF OneAwake, AwakeLeads
  <2>4. Asleep \/ Awake
    BY <2>1 DEF LastLeads
  <2> QED
    BY <2>2, <2>3, <2>4 DEF LastLeads
<1>7. ASSUME NEW t \in Rebinds, ToggleUnsaved(t) PROVE FALSE
  BY <1>7 DEF ToggleUnsaved
<1>8. CASE Quit \/ MainReturns
  BY <1>8 DEF Quit, MainReturns
<1>9. CASE UNCHANGED listenerVars
  BY <1>9 DEF listenerVars, Leads, OneAwake, AwakeLeads, LastLeads, Asleep, Awake, Locked
<1>10. ASSUME NEW t \in Rebinds, Schedule(t) PROVE OneAwake' /\ AwakeLeads' /\ LastLeads'
  <2>1. OneAwake'
    BY <1>10 DEF Schedule, Leads, OneAwake
  <2>2. Asleep'
    BY <1>10 DEF Schedule, Asleep
  <2> QED
    BY <2>1, <2>2 DEF AwakeLeads, LastLeads
<1> QED
  BY <1>1, <1>2, <1>3, <1>4, <1>5, <1>6, <1>7, <1>8, <1>9, <1>10 DEF ListenerNext

-----------------------------------------------------------------------------
\* Initially, no rebind is under way and the listener is that of the mode.
LEMMA ListenerInvInit == ListenerInit => ListenerInv
<1> SUFFICES ASSUME ListenerInit PROVE ListenerInv
  OBVIOUS
<1> USE ListenerAssumption DEF ListenerInit, NoRebind, At
<1>1. ListenerTypeOK
  BY DEF ListenerTypeOK, RebindSteps, Hosts, HostFor
<1>2. OneLocked /\ KeepsServing
  BY DEF OneLocked, KeepsServing
<1>3. Leads
  BY DEF Leads, OneAwake, AwakeLeads, LastLeads
<1> QED
  BY <1>1, <1>2, <1>3 DEF ListenerInv

\* ListenerInv in every state.
THEOREM ListenerInvariant == ListenerSpec => []ListenerInv
<1>1. ListenerInv /\ [ListenerNext]_listenerVars => ListenerInv'
  BY ListenerTypeStep, ListenerMutexStep, LeadStep DEF ListenerInv
<1> QED
  BY ListenerInvInit, <1>1, PTL DEF ListenerSpec

\* Every variable keeps its type (rebindHTTP, serveHTTP, handleConfig).
THEOREM ListenerTypes == ListenerSpec => []ListenerTypeOK
<1>1. ListenerInv => ListenerTypeOK
  BY DEF ListenerInv
<1> QED
  BY ListenerInvariant, <1>1, PTL

\* rebindHTTP and the goroutines of handleConfig leave the app listening, and where
\* LAN mode says, however many switches overlap, but for the exceptions it names.
THEOREM ListenerFollowsMode == ListenerSpec => []ListensAsAsked
<1>1. ListenerInv => ListensAsAsked
  <2> SUFFICES ASSUME ListenerInv, Settled, ~excused PROVE open /\ bound = HostFor(lan)
    BY DEF ListensAsAsked, ListenerInv
  <2>1. ~Asleep /\ ~Awake /\ ~Locked
    BY DEF Settled, Asleep, Awake, Locked, At
  <2>2. bound = HostFor(lan) /\ ~deaf
    BY <2>1 DEF Settled, ListenerInv, Leads, LastLeads
  <2> QED
    BY <2>1, <2>2 DEF Settled, ListenerInv, KeepsServing
<1> QED
  BY ListenerInvariant, <1>1, PTL

-----------------------------------------------------------------------------
(*****************************************************************************)
(* The updater.  For any releases, and any number of polls, checks and       *)
(* installs: what the page offers and what the app restarts into is newer than *)
(* the running release and was listed by the feed; and an install is told that *)
(* there is no update only if that is so or its check was raced.             *)
(*                                                                           *)
(* A version wanders from the feed through answers, events and jobs, each of *)
(* which may be overtaken by the others, to the state and the restart.  So the *)
(* invariant is that all that is on its way is newer, or nothing.            *)
(*****************************************************************************)
Newer(v) == v > Current /\ v \in listed

OnItsWay ==
  /\ feed \in listed
  /\ \A a \in Polls : polling[a] \in listed \cup {0}
  /\ poll.available => Newer(poll.latest)
  /\ found # 0 => Newer(found)
  /\ \A n \in notices : n.available => n.state = "available" /\ Newer(n.latest)
  /\ \A q \in Jobs :
       /\ job[q].release # 0 => Newer(job[q].release)
       /\ job[q].at \in {"downloading", "installed"} => job[q].release # 0

Arrived ==
  /\ state.available => Newer(state.latest)
  /\ installed # 0 => Newer(installed)

\* A job that nothing overlapped is the only one, and an install about to decide finds
\* what its own check was told.
Undisturbed(q) ==
  job[q].at # "none" =>
    /\ \A p \in Jobs \ {q} : job[p].at = "none"
    /\ job[q].at = "decide" /\ job[q].release # 0 => state.available

Unraced ==
  /\ spurious \subseteq shaky
  /\ \A q \in Jobs \ shaky : Undisturbed(q)

UpdatesInv == UpdatesTypeOK /\ OnItsWay /\ Arrived /\ Unraced

-----------------------------------------------------------------------------
\* What the operators build has its type.
LEMMA Telling ==
  ASSUME NEW kind \in {"idle", "checking", "available", "downloading", "installed", "error"},
         NEW v \in Releases
  PROVE  Told(kind, v) \in States
<1>1. (kind = "available") \in BOOLEAN
  OBVIOUS
<1> QED
  BY <1>1 DEF Told, States

LEMMA Retelling ==
  ASSUME NEW n \in States, NEW v \in Releases
  PROVE  [n EXCEPT !.latest = v] \in States /\ n.latest \in Releases
BY DEF States

LEMMA Working ==
  ASSUME NEW w \in Work, NEW v \in Releases, NEW install \in BOOLEAN,
         NEW at \in {"none", "checking", "told", "failing", "decide", "downloading", "installed"}
  PROVE  /\ [w EXCEPT !.at = at] \in Work
         /\ [w EXCEPT !.at = at, !.release = v] \in Work
         /\ [at |-> at, install |-> install, release |-> v] \in Work
         /\ w.release \in Releases
BY DEF Work

LEMMA Nothing == 0 \in Releases /\ NoJob \in Work /\ Versions \subseteq Releases
BY DEF Releases, NoJob, Work

\* Every step keeps the types.
LEMMA UpdatesTypeStep == UpdatesTypeOK /\ [UpdatesNext]_updatesVars => UpdatesTypeOK'
<1> SUFFICES ASSUME UpdatesTypeOK, [UpdatesNext]_updatesVars PROVE UpdatesTypeOK'
  OBVIOUS
<1> USE UpdatesAssumption DEF UpdatesTypeOK
<1> USE Nothing
<1>1. ASSUME NEW v \in Versions, Publish(v) PROVE UpdatesTypeOK'
  BY <1>1 DEF Publish
<1>2. ASSUME NEW a \in Polls, PollFeed(a) PROVE UpdatesTypeOK'
  BY <1>2 DEF PollFeed
<1>3. ASSUME NEW a \in Polls, Polled(a) PROVE UpdatesTypeOK'
  BY <1>3 DEF Polled
<1>4. ASSUME NEW q \in Jobs, NEW install \in BOOLEAN, BeginCheck(q, install)
      PROVE  UpdatesTypeOK'
  BY <1>4, Telling, Working DEF BeginCheck
<1>5. ASSUME NEW q \in Jobs, Answer(q) PROVE UpdatesTypeOK'
  <2> DEFINE release == IF feed > Current THEN feed ELSE 0
  <2>1. release \in Releases
    OBVIOUS
  <2>2. Told(IF release = 0 THEN "idle" ELSE "available", release) \in States
    BY <2>1, Telling
  <2>3. /\ job' = [job EXCEPT ![q].at = "told", ![q].release = release]
        /\ notices' = notices \cup {Told(IF release = 0 THEN "idle" ELSE "available", release)}
        /\ found' = release /\ checked' = TRUE
        /\ UNCHANGED <<feed, polling, poll, state, listed, shaky, spurious, installed>>
    BY <1>5 DEF Answer
  <2> HIDE DEF release
  <2>4. job' \in [Jobs -> Work]
    BY <2>1, <2>3, Working
  <2> QED
    BY <2>1, <2>2, <2>3, <2>4
<1>6. ASSUME NEW q \in Jobs, AnswerFails(q) PROVE UpdatesTypeOK'
  <2>1. job' \in [Jobs -> Work]
    BY <1>6, Working DEF AnswerFails
  <2>2. notices' \subseteq States
    BY <1>6, Telling DEF AnswerFails
  <2> QED
    BY <1>6, <2>1, <2>2 DEF AnswerFails
<1>7. ASSUME NEW q \in Jobs, SetChecked(q) PROVE UpdatesTypeOK'
  <2> DEFINE v == job[q].release
  <2>1. v \in Releases
    BY Working
  <2>2. Told(IF v = 0 THEN "idle" ELSE "available", v) \in States
    BY <2>1, Telling
  <2>3. job' \in [Jobs -> Work]
    BY <1>7, Working DEF SetChecked
  <2> QED
    BY <1>7, <2>2, <2>3 DEF SetChecked
<1>8. ASSUME NEW q \in Jobs, NotFound(q) PROVE UpdatesTypeOK'
  BY <1>8 DEF NotFound
<1>9. ASSUME NEW q \in Jobs, Download(q) PROVE UpdatesTypeOK'
  <2>1. job' \in [Jobs -> Work]
    BY <1>9, Working DEF Download
  <2>2. notices' \subseteq States
    BY <1>9, Telling DEF Download
  <2> QED
    BY <1>9, <2>1, <2>2 DEF Download
<1>10. ASSUME NEW q \in Jobs, DownloadFails(q) PROVE UpdatesTypeOK'
  BY <1>10, Telling DEF DownloadFails
<1>11. ASSUME NEW q \in Jobs, Swap(q) PROVE UpdatesTypeOK'
  <2>1. job' \in [Jobs -> Work]
    BY <1>11, Working DEF Swap
  <2>2. notices' \subseteq States
    BY <1>11, Telling DEF Swap
  <2> QED
    BY <1>11, <2>1, <2>2 DEF Swap
<1>12. ASSUME NEW q \in Jobs, Restart(q) PROVE UpdatesTypeOK'
  BY <1>12, Working DEF Restart
<1>13. ASSUME NEW n \in notices, Notice(n) PROVE UpdatesTypeOK'
  <2>1. state' \in States
    BY <1>13, Retelling DEF Notice
  <2> QED
    BY <1>13, <2>1 DEF Notice
<1>14. ASSUME NEW q \in Jobs, SetError(q) PROVE UpdatesTypeOK'
  BY <1>14, Telling DEF SetError
<1>15. ASSUME NEW q \in Jobs, RestartFails(q) PROVE UpdatesTypeOK'
  BY <1>15, Telling DEF RestartFails
<1>16. CASE UNCHANGED updatesVars
  BY <1>16 DEF updatesVars
<1> QED
  BY <1>1, <1>2, <1>3, <1>4, <1>5, <1>6, <1>7, <1>8, <1>9, <1>10, <1>11, <1>12, <1>13, <1>14,
     <1>15, <1>16
     DEF UpdatesNext

-----------------------------------------------------------------------------
\* What Told says.
LEMMA Says ==
  ASSUME NEW kind, NEW v
  PROVE  /\ Told(kind, v).available <=> kind = "available"
         /\ Told(kind, v).state = kind /\ Told(kind, v).latest = v
BY DEF Told

\* All that is on its way stays newer; a version is newer from the moment it is read.
LEMMA WayStep ==
  ASSUME UpdatesInv, [UpdatesNext]_updatesVars PROVE OnItsWay'
<1> USE UpdatesAssumption DEF UpdatesInv, OnItsWay, Newer
<1>1. job \in [Jobs -> Work] /\ polling \in [Polls -> Releases] /\ feed \in Nat \ {0}
  BY DEF UpdatesTypeOK
<1>2. \A q \in Jobs : job[q].at \in {"none", "checking", "told", "failing", "decide", "downloading",
                                "installed"}
  BY <1>1 DEF Work
<1>3. ASSUME NEW v \in Versions, Publish(v) PROVE OnItsWay'
  BY <1>3 DEF Publish
<1>4. ASSUME NEW a \in Polls, PollFeed(a) PROVE OnItsWay'
  BY <1>1, <1>4 DEF PollFeed
<1>5. ASSUME NEW a \in Polls, Polled(a) PROVE OnItsWay'
  BY <1>1, <1>5 DEF Polled
<1>6. ASSUME NEW q \in Jobs, NEW install \in BOOLEAN, BeginCheck(q, install) PROVE OnItsWay'
  BY <1>1, <1>6 DEF BeginCheck
<1>7. ASSUME NEW q \in Jobs, Answer(q) PROVE OnItsWay'
  <2> DEFINE release == IF feed > Current THEN feed ELSE 0
  <2>1. /\ job' = [job EXCEPT ![q].at = "told", ![q].release = release]
        /\ notices' = notices \cup {Told(IF release = 0 THEN "idle" ELSE "available", release)}
        /\ found' = release
        /\ UNCHANGED <<feed, polling, poll, listed>>
    BY <1>7 DEF Answer
  <2>2. release # 0 => Newer(release)
    OBVIOUS
  <2> HIDE DEF release
  <2>3. ASSUME NEW n \in notices', n.available PROVE n.state = "available" /\ Newer(n.latest)
    BY <2>1, <2>2, <2>3, Says
  <2>4. ASSUME NEW p \in Jobs
        PROVE  /\ job'[p].release # 0 => Newer(job'[p].release)
               /\ job'[p].at \in {"downloading", "installed"} => job'[p].release # 0
    <3>1. CASE p = q
      <4>1. job'[p].at = "told" /\ job'[p].release = release
        BY <1>1, <2>1, <3>1 DEF Work
      <4> QED
        BY <4>1, <2>2
    <3>2. CASE p # q
      <4>1. job'[p] = job[p]
        BY <1>1, <2>1, <3>2
      <4> QED
        BY <4>1
    <3> QED
      BY <3>1, <3>2
  <2> QED
    BY <2>1, <2>2, <2>3, <2>4
<1>8. ASSUME NEW q \in Jobs, AnswerFails(q) PROVE OnItsWay'
  <2>1. /\ job' = [job EXCEPT ![q].at = "failing"]
        /\ notices' = notices \cup {Told("error", 0)}
        /\ UNCHANGED <<feed, polling, poll, found, listed>>
    BY <1>8 DEF AnswerFails
  <2>2. ASSUME NEW n \in notices', n.available PROVE n \in notices
    BY <2>1, <2>2, Says
  <2>3. ASSUME NEW p \in Jobs
        PROVE  /\ job'[p].release = job[p].release
               /\ job'[p].at = job[p].at \/ job'[p].at = "failing"
    BY <1>1, <2>1 DEF Work
  <2> QED
    BY <2>1, <2>2, <2>3
<1>9. ASSUME NEW q \in Jobs, SetChecked(q) PROVE OnItsWay'
  BY <1>1, <1>9 DEF SetChecked, NoJob, Work
<1>10. ASSUME NEW q \in Jobs, NotFound(q) PROVE OnItsWay'
  BY <1>1, <1>10 DEF NotFound, NoJob
<1>11. ASSUME NEW q \in Jobs, Download(q) PROVE OnItsWay'
  <2>1. /\ job' = [job EXCEPT ![q].at = "downloading", ![q].release = found] /\ found # 0
        /\ notices' = notices \cup {Told("downloading", 0)}
        /\ UNCHANGED <<feed, polling, poll, found, listed>>
    BY <1>11 DEF Download
  <2>2. ASSUME NEW n \in notices', n.available PROVE n \in notices
    BY <2>1, <2>2, Says
  <2>3. ASSUME NEW p \in Jobs
        PROVE  job'[p] = job[p] \/ job'[p].release = found
    BY <1>1, <2>1 DEF Work
  <2>4. ASSUME NEW p \in Jobs
        PROVE  /\ job'[p].release # 0 => Newer(job'[p].release)
               /\ job'[p].at \in {"downloading", "installed"} => job'[p].release # 0
    <3>1. CASE job'[p] = job[p]
      BY <3>1
    <3>2. CASE job'[p].release = found
      BY <3>2, <2>1
    <3> QED
      BY <3>1, <3>2, <2>3
  <2>5. \A n \in notices' : n.available => n.state = "available" /\ Newer(n.latest)
    BY <2>2
  <2> QED
    BY <2>1, <2>4, <2>5
<1>12. ASSUME NEW q \in Jobs, DownloadFails(q) PROVE OnItsWay'
  <2>1. /\ job' = [job EXCEPT ![q] = NoJob]
        /\ notices' = notices \cup {Told("error", 0)}
        /\ UNCHANGED <<feed, polling, poll, found, listed>>
    BY <1>12 DEF DownloadFails
  <2> QED
    BY <1>1, <2>1, Says DEF NoJob
<1>13. ASSUME NEW q \in Jobs, Swap(q) PROVE OnItsWay'
  <2>1. /\ job' = [job EXCEPT ![q].at = "installed"] /\ job[q].at = "downloading"
        /\ notices' = notices \cup {Told("installed", 0)}
        /\ UNCHANGED <<feed, polling, poll, found, listed>>
    BY <1>13 DEF Swap
  <2>2. ASSUME NEW n \in notices', n.available PROVE n \in notices
    BY <2>1, <2>2, Says
  <2>3. ASSUME NEW p \in Jobs
        PROVE  job'[p].release = job[p].release /\ (p # q => job'[p] = job[p])
    BY <1>1, <2>1 DEF Work
  <2> QED
    BY <2>1, <2>2, <2>3
<1>14. ASSUME NEW q \in Jobs, Restart(q) PROVE OnItsWay'
  BY <1>14 DEF Restart
<1>15. ASSUME NEW n \in notices, Notice(n) PROVE OnItsWay'
  BY <1>15 DEF Notice
<1>16. ASSUME NEW q \in Jobs, SetError(q) PROVE OnItsWay'
  BY <1>1, <1>16 DEF SetError, NoJob
<1>17. ASSUME NEW q \in Jobs, RestartFails(q) PROVE OnItsWay'
  <2>1. /\ job' = [job EXCEPT ![q] = NoJob]
        /\ notices' = notices \/ notices' = notices \cup {Told("error", 0)}
        /\ UNCHANGED <<feed, polling, poll, found, listed>>
    BY <1>17 DEF RestartFails
  <2>2. ASSUME NEW n \in notices', n.available PROVE n \in notices
    BY <2>1, <2>2, Says
  <2> QED
    BY <1>1, <2>1, <2>2 DEF NoJob
<1>18. CASE UNCHANGED updatesVars
  BY <1>18 DEF updatesVars
<1> QED
  BY <1>3, <1>4, <1>5, <1>6, <1>7, <1>8, <1>9, <1>10, <1>11, <1>12, <1>13, <1>14, <1>15, <1>16,
     <1>17, <1>18
     DEF UpdatesNext

\* And so is what arrives at the page and at the restart.
LEMMA ArriveStep ==
  ASSUME UpdatesInv, [UpdatesNext]_updatesVars PROVE Arrived'
<1> USE DEF UpdatesInv, OnItsWay, Arrived, Newer
<1>1. ASSUME NEW v \in Versions, Publish(v) PROVE Arrived'
  BY <1>1 DEF Publish
<1>2. ASSUME NEW a \in Polls, PollFeed(a) \/ Polled(a) PROVE Arrived'
  BY <1>2 DEF PollFeed, Polled
<1>3. ASSUME NEW q \in Jobs, NEW install \in BOOLEAN, BeginCheck(q, install) PROVE Arrived'
  BY <1>3, Says DEF BeginCheck
<1>4. ASSUME NEW q \in Jobs, SetError(q) PROVE Arrived'
  BY <1>4, Says DEF SetError
<1>5. ASSUME NEW q \in Jobs, SetChecked(q) PROVE Arrived'
  BY <1>5, Says DEF SetChecked
<1>6. ASSUME NEW q \in Jobs,
             \/ Answer(q) \/ AnswerFails(q) \/ NotFound(q) \/ Download(q)
             \/ DownloadFails(q) \/ Swap(q) \/ RestartFails(q)
      PROVE  Arrived'
  BY <1>6 DEF Answer, AnswerFails, NotFound, Download, DownloadFails, Swap, RestartFails
<1>7. ASSUME NEW q \in Jobs, Restart(q) PROVE Arrived'
  BY <1>7 DEF Restart
\* An event without a release says that there is none; the others bring theirs.
<1>8. ASSUME NEW n \in notices, Notice(n) PROVE Arrived'
  <2>1. state'.available <=> n.available
    BY <1>8 DEF Notice, UpdatesTypeOK, States
  <2>2. n.available => state' = n
    BY <1>8 DEF Notice
  <2> QED
    BY <1>8, <2>1, <2>2 DEF Notice
<1>9. CASE UNCHANGED updatesVars
  BY <1>9 DEF updatesVars
<1> QED
  BY <1>1, <1>2, <1>3, <1>4, <1>5, <1>6, <1>7, <1>8, <1>9 DEF UpdatesNext

\* Whatever overlaps a job leaves a mark on it.
LEMMA UnracedStep ==
  ASSUME UpdatesInv, [UpdatesNext]_updatesVars PROVE Unraced'
<1> USE DEF UpdatesInv, Unraced, Undisturbed
<1>1. ASSUME UNCHANGED <<state, job, shaky, spurious>> PROVE Unraced'
  BY <1>1
<1>2. job \in [Jobs -> Work] /\ NoJob.at = "none"
  BY DEF UpdatesTypeOK, NoJob
<1>3. ASSUME NEW q \in Jobs, NEW install \in BOOLEAN, BeginCheck(q, install) PROVE Unraced'
  <2> DEFINE w == [at |-> "checking", install |-> install, release |-> 0]
  <2>1. /\ job[q].at = "none" /\ spurious' = spurious \ {q} /\ job' = [job EXCEPT ![q] = w]
        /\ w.at = "checking"
    BY <1>3 DEF BeginCheck
  <2>2. /\ \A p \in Jobs \ {q} : p \notin shaky' => p \notin shaky /\ job[p].at = "none"
        /\ q \notin shaky' => \A p \in Jobs \ {q} : job[p].at = "none"
        /\ shaky \ {q} \subseteq shaky'
    BY <1>3 DEF BeginCheck
  <2> HIDE DEF w
  <2>3. job'[q] = w /\ \A p \in Jobs \ {q} : job'[p] = job[p]
    BY <1>2, <2>1
  <2> QED
    BY <2>1, <2>2, <2>3
\* A job goes on: it is the only one, unless it has been overlapped.
<1>4. ASSUME NEW q \in Jobs, NEW w, job[q].at # "none", job' = [job EXCEPT ![q] = w],
             shaky' = shaky, spurious' = spurious,
             w.at = "decide" /\ w.release # 0 => state'.available
      PROVE  Unraced'
  <2>1. job'[q] = w /\ \A p \in Jobs \ {q} : job'[p] = job[p]
    BY <1>2, <1>4
  <2>2. \A p \in Jobs \ {q} : p \notin shaky => job[p].at = "none"
    BY <1>4
  <2> QED
    BY <1>4, <2>1, <2>2
<1>5. ASSUME NEW q \in Jobs, Answer(q) PROVE Unraced'
  <2>1. PICK v : job' = [job EXCEPT ![q] = [job[q] EXCEPT !.at = "told", !.release = v]]
    BY <1>5 DEF Answer
  <2>2. [job[q] EXCEPT !.at = "told", !.release = v].at = "told"
    BY <1>2 DEF Work
  <2> QED
    BY <1>4, <1>5, <2>1, <2>2 DEF Answer
<1>6. ASSUME NEW q \in Jobs, SetError(q) \/ DownloadFails(q) \/ RestartFails(q)
      PROVE  Unraced'
  <2>1. job' = [job EXCEPT ![q] = NoJob] /\ job[q].at # "none" /\ shaky' = shaky
        /\ spurious' = spurious
    BY <1>6 DEF SetError, DownloadFails, RestartFails
  <2> QED
    BY <1>2, <1>4, <2>1
<1>7. ASSUME NEW q \in Jobs, SetChecked(q) PROVE Unraced'
  <2>1. job[q].at # "none" /\ shaky' = shaky /\ spurious' = spurious
        /\ state' = Told(IF job[q].release = 0 THEN "idle" ELSE "available", job[q].release)
    BY <1>7 DEF SetChecked
  <2>2. CASE job[q].install
    <3>1. job' = [job EXCEPT ![q] = [job[q] EXCEPT !.at = "decide"]]
      BY <1>7, <2>2 DEF SetChecked
    <3>2. [job[q] EXCEPT !.at = "decide"].release = job[q].release
      BY <1>2 DEF Work
    <3>3. job[q].release # 0 => state'.available
      BY <2>1 DEF Told
    <3> QED
      BY <1>4, <2>1, <3>1, <3>2, <3>3
  <2>3. CASE ~job[q].install
    <3>1. job' = [job EXCEPT ![q] = NoJob]
      BY <1>7, <2>3 DEF SetChecked
    <3> QED
      BY <1>2, <1>4, <2>1, <3>1
  <2> QED
    BY <2>2, <2>3
<1>8. ASSUME NEW q \in Jobs, NotFound(q) PROVE Unraced'
  <2>1. /\ job[q].at = "decide" /\ ~state.available /\ shaky' = shaky
        /\ spurious' = (IF job[q].release = 0 THEN spurious ELSE spurious \cup {q})
        /\ job' = [job EXCEPT ![q] = NoJob] /\ state' = state
    BY <1>8 DEF NotFound
  <2>2. spurious' \subseteq shaky
    BY <2>1
  <2>3. job'[q] = NoJob /\ \A p \in Jobs \ {q} : job'[p] = job[p]
    BY <1>2, <2>1
  <2> QED
    BY <1>2, <2>1, <2>2, <2>3
<1>9. ASSUME NEW q \in Jobs, Download(q) PROVE Unraced'
  <2>1. job' = [job EXCEPT ![q] = [job[q] EXCEPT !.at = "downloading", !.release = found]]
        /\ job[q].at # "none" /\ shaky' = shaky /\ spurious' = spurious
    BY <1>9 DEF Download
  <2>2. [job[q] EXCEPT !.at = "downloading", !.release = found].at = "downloading"
    BY <1>2 DEF Work
  <2> QED
    BY <1>4, <2>1, <2>2
<1>10. ASSUME NEW q \in Jobs, Swap(q) PROVE Unraced'
  <2>1. job' = [job EXCEPT ![q] = [job[q] EXCEPT !.at = "installed"]]
        /\ job[q].at # "none" /\ shaky' = shaky /\ spurious' = spurious
    BY <1>10 DEF Swap
  <2>2. [job[q] EXCEPT !.at = "installed"].at = "installed"
    BY <1>2 DEF Work
  <2> QED
    BY <1>4, <2>1, <2>2
\* An event marks every job under way.
<1>11. ASSUME NEW n \in notices, Notice(n) PROVE Unraced'
  BY <1>11 DEF Notice
<1>12. ASSUME NEW v \in Versions, Publish(v) PROVE Unraced'
  BY <1>1, <1>12 DEF Publish
<1>13. ASSUME NEW a \in Polls, PollFeed(a) \/ Polled(a) PROVE Unraced'
  BY <1>1, <1>13 DEF PollFeed, Polled
<1>14. ASSUME NEW q \in Jobs, Restart(q) PROVE Unraced'
  BY <1>1, <1>14 DEF Restart
<1>15. ASSUME NEW q \in Jobs, AnswerFails(q) PROVE Unraced'
  <2>1. job' = [job EXCEPT ![q] = [job[q] EXCEPT !.at = "failing"]]
        /\ job[q].at # "none" /\ shaky' = shaky /\ spurious' = spurious
    BY <1>15 DEF AnswerFails
  <2>2. [job[q] EXCEPT !.at = "failing"].at = "failing"
    BY <1>2 DEF Work
  <2> QED
    BY <1>4, <2>1, <2>2
<1>16. CASE UNCHANGED updatesVars
  BY <1>1, <1>16 DEF updatesVars
<1> QED
  BY <1>3, <1>5, <1>6, <1>7, <1>8, <1>9, <1>10, <1>11, <1>12, <1>13, <1>14, <1>15, <1>16
     DEF UpdatesNext

-----------------------------------------------------------------------------
\* The invariant, over the whole specification.
THEOREM UpdatesInvariant == UpdatesSpec => []UpdatesInv
<1>1. UpdatesInit => UpdatesInv
  <2> SUFFICES ASSUME UpdatesInit PROVE UpdatesInv
    OBVIOUS
  <2>1. Told("idle", 0) \in States
    BY Nothing, Telling
  <2>2. UpdatesTypeOK
    BY <2>1, Nothing, UpdatesAssumption DEF UpdatesInit, UpdatesTypeOK
  <2>3. OnItsWay /\ Arrived
    BY Says DEF UpdatesInit, OnItsWay, Arrived, NoJob
  <2>4. Unraced
    BY DEF UpdatesInit, Unraced, Undisturbed, NoJob
  <2> QED
    BY <2>2, <2>3, <2>4 DEF UpdatesInv
<1>2. UpdatesInv /\ [UpdatesNext]_updatesVars => UpdatesInv'
  BY UpdatesTypeStep, WayStep, ArriveStep, UnracedStep DEF UpdatesInv
<1> QED
  BY <1>1, <1>2, PTL DEF UpdatesSpec

\* updater.go, updater_shared.go: every variable keeps its type.
THEOREM UpdatesTypes == UpdatesSpec => []UpdatesTypeOK
<1>1. UpdatesInv => UpdatesTypeOK
  BY DEF UpdatesInv
<1> QED
  BY UpdatesInvariant, <1>1, PTL

\* withPolledAvailability, install: no older release is offered or installed.
THEOREM NeverOlder == UpdatesSpec => []OffersOnlyNewer
<1>1. UpdatesInv => OffersOnlyNewer
  BY Says DEF UpdatesInv, OnItsWay, Arrived, Newer, OffersOnlyNewer, Shown, Running
<1> QED
  BY UpdatesInvariant, <1>1, PTL

\* errUpdateNotFound is true, unless another check or an event of the updater overlapped.
THEOREM NotFoundIsTrueUnlessRaced == UpdatesSpec => []NotFoundUnlessRaced
<1>1. UpdatesInv => NotFoundUnlessRaced
  BY DEF UpdatesInv, Unraced, NotFoundUnlessRaced
<1> QED
  BY UpdatesInvariant, <1>1, PTL

-----------------------------------------------------------------------------
(*****************************************************************************)
(* What sequences hold: the queues, batches and lists of peers below.        *)
(*****************************************************************************)
Within(s, e) == \E i \in DOMAIN s : s[i] = e
NoRepeats(s) == \A i, j \in DOMAIN s : s[i] = s[j] => i = j
Disjoint(s, t) == \A e : ~(Within(s, e) /\ Within(t, e))

\* An element more at the end of a sequence.
LEMMA Appended ==
  ASSUME NEW S, NEW s \in Seq(S), NEW e \in S
  PROVE  /\ Append(s, e) \in Seq(S)
         /\ \A x : Within(Append(s, e), x) <=> Within(s, x) \/ x = e
         /\ NoRepeats(s) /\ ~Within(s, e) => NoRepeats(Append(s, e))
BY AppendProperties, LenProperties DEF Within, NoRepeats

\* Sequence s is a, of length n, and then b, of length m.
InParts(s, a, b, n, m) ==
  /\ n \in Nat /\ m \in Nat
  /\ DOMAIN a = 1..n /\ DOMAIN b = 1..m /\ DOMAIN s = 1..(n + m)
  /\ \A i \in 1..n : s[i] = a[i]
  /\ \A i \in 1..m : s[n + i] = b[i]

\* What is in a sequence is in one part of it.
LEMMA TwoParts ==
  ASSUME NEW s, NEW a, NEW b, NEW n, NEW m, InParts(s, a, b, n, m)
  PROVE  /\ \A x : Within(s, x) <=> Within(a, x) \/ Within(b, x)
         /\ NoRepeats(s) <=> NoRepeats(a) /\ NoRepeats(b) /\ Disjoint(a, b)
<1> USE DEF InParts
<1>1. \A i \in 1..(n + m) : i \in 1..n \/ (i - n \in 1..m /\ n + (i - n) = i)
  OBVIOUS
<1>2. \A i \in 1..n : i \in 1..(n + m)
  OBVIOUS
<1>3. \A i \in 1..m : n + i \in 1..(n + m) /\ n + i \notin 1..n
  OBVIOUS
<1>4. ASSUME NEW x PROVE Within(s, x) <=> Within(a, x) \/ Within(b, x)
  <2>1. ASSUME NEW i \in 1..(n + m), s[i] = x PROVE Within(a, x) \/ Within(b, x)
    BY <1>1, <2>1 DEF Within
  <2>2. ASSUME NEW i \in 1..n, a[i] = x PROVE Within(s, x)
    BY <1>2, <2>2 DEF Within
  <2>3. ASSUME NEW i \in 1..m, b[i] = x PROVE Within(s, x)
    BY <1>3, <2>3 DEF Within
  <2> QED
    BY <2>1, <2>2, <2>3 DEF Within
<1>5. ASSUME NoRepeats(s) PROVE NoRepeats(a) /\ NoRepeats(b) /\ Disjoint(a, b)
  <2>1. \A i, j \in 1..(n + m) : s[i] = s[j] => i = j
    BY <1>5 DEF NoRepeats
  <2>2. NoRepeats(a)
    BY <1>2, <2>1 DEF NoRepeats
  <2>3. NoRepeats(b)
    <3>1. ASSUME NEW i \in 1..m, NEW j \in 1..m, b[i] = b[j] PROVE i = j
      <4>1. n + i = n + j
        BY <1>3, <2>1, <3>1
      <4> QED
        BY <4>1
    <3> QED
      BY <3>1 DEF NoRepeats
  <2>4. ASSUME NEW i \in 1..n, NEW j \in 1..m, a[i] = b[j] PROVE FALSE
    <3>1. i = n + j
      BY <1>2, <1>3, <2>1, <2>4
    <3> QED
      BY <1>3, <3>1
  <2> QED
    BY <2>2, <2>3, <2>4 DEF Disjoint, Within
<1>6. ASSUME NoRepeats(a), NoRepeats(b), Disjoint(a, b) PROVE NoRepeats(s)
  <2>1. \A i, j \in 1..n : a[i] = a[j] => i = j
    BY <1>6 DEF NoRepeats
  <2>2. \A i, j \in 1..m : b[i] = b[j] => i = j
    BY <1>6 DEF NoRepeats
  <2>3. \A i \in 1..n, j \in 1..m : a[i] # b[j]
    BY <1>6 DEF Disjoint, Within
  <2>4. ASSUME NEW i \in 1..(n + m), NEW j \in 1..(n + m), s[i] = s[j] PROVE i = j
    <3>1. CASE i \in 1..n /\ j \in 1..n
      BY <2>1, <2>4, <3>1
    <3>2. CASE i \in 1..n /\ j \notin 1..n
      <4>1. s[i] = a[i] /\ s[j] = b[j - n] /\ j - n \in 1..m
        BY <1>1, <3>2
      <4> QED
        BY <2>3, <2>4, <3>2, <4>1
    <3>3. CASE i \notin 1..n /\ j \in 1..n
      <4>1. s[j] = a[j] /\ s[i] = b[i - n] /\ i - n \in 1..m
        BY <1>1, <3>3
      <4> QED
        BY <2>3, <2>4, <3>3, <4>1
    <3>4. CASE i \notin 1..n /\ j \notin 1..n
      <4>1. /\ s[i] = b[i - n] /\ i - n \in 1..m
            /\ s[j] = b[j - n] /\ j - n \in 1..m
        BY <1>1, <3>4
      <4>2. i - n = j - n
        BY <2>2, <2>4, <4>1
      <4> QED
        BY <4>2
    <3> QED
      BY <3>1, <3>2, <3>3, <3>4
  <2> QED
    BY <2>4 DEF NoRepeats
<1> QED
  BY <1>4, <1>5, <1>6

\* The front of a sequence and the rest.
LEMMA CutInTwo ==
  ASSUME NEW S, NEW s \in Seq(S), NEW n \in 0..Len(s)
  PROVE  /\ SubSeq(s, 1, n) \in Seq(S) /\ SubSeq(s, n + 1, Len(s)) \in Seq(S)
         /\ Len(SubSeq(s, 1, n)) = n
         /\ \A x : Within(s, x) <=> \/ Within(SubSeq(s, 1, n), x)
                                    \/ Within(SubSeq(s, n + 1, Len(s)), x)
         /\ NoRepeats(s) => /\ NoRepeats(SubSeq(s, 1, n)) /\ NoRepeats(SubSeq(s, n + 1, Len(s)))
                            /\ Disjoint(SubSeq(s, 1, n), SubSeq(s, n + 1, Len(s)))
<1> DEFINE a == SubSeq(s, 1, n)
           b == SubSeq(s, n + 1, Len(s))
           m == Len(s) - n
<1>1. Len(s) \in Nat /\ DOMAIN s = 1..Len(s) /\ m \in Nat /\ n \in Nat /\ Len(s) = n + m
  BY LenProperties
<1>2. a \in Seq(S) /\ Len(a) = n /\ \A i \in 1..n : s[i] = a[i]
  <2>1. \A i \in 1..n : s[i] \in S
    BY <1>1, ElementOfSeq
  <2>2. /\ a \in Seq(S) /\ Len(a) = IF 1 <= n THEN n - 1 + 1 ELSE 0
        /\ \A i \in 1..(n - 1 + 1) : a[i] = s[1 + i - 1]
    BY <1>1, <2>1, SubSeqProperties
  <2> HIDE DEF a
  <2> QED
    BY <1>1, <2>2
<1>3. b \in Seq(S) /\ Len(b) = m /\ \A i \in 1..m : s[n + i] = b[i]
  <2>1. /\ b \in Seq(S)
        /\ Len(b) = IF n + 1 <= Len(s) THEN Len(s) - (n + 1) + 1 ELSE 0
        /\ \A i \in 1..(Len(s) - (n + 1) + 1) : b[i] = s[n + 1 + i - 1]
    <3>1. n + 1 \in Int /\ Len(s) \in Int /\ \A i \in (n + 1)..Len(s) : i \in 1..Len(s)
      BY <1>1
    <3>2. \A i \in (n + 1)..Len(s) : s[i] \in S
      BY <1>1, <3>1, ElementOfSeq
    <3> QED
      BY <3>1, <3>2, SubSeqProperties
  <2> HIDE DEF b, m
  <2>2. /\ Len(b) = IF n + 1 <= n + m THEN n + m - (n + 1) + 1 ELSE 0
        /\ \A i \in 1..(n + m - (n + 1) + 1) : b[i] = s[n + 1 + i - 1]
    BY <1>1, <2>1
  <2>3. n + m - (n + 1) + 1 = m /\ (n + 1 <= n + m \/ m = 0)
    BY <1>1
  <2>4. \A i \in 1..m : n + 1 + i - 1 = n + i
    BY <1>1
  <2>5. Len(b) = m
    BY <1>1, <2>2, <2>3
  <2>6. \A i \in 1..m : s[n + i] = b[i]
    BY <2>2, <2>3, <2>4
  <2> QED
    BY <2>1, <2>5, <2>6
<1> HIDE DEF a, b, m
<1>4. DOMAIN a = 1..n /\ DOMAIN b = 1..m
  BY <1>2, <1>3, LenProperties
<1>5. DOMAIN s = 1..(n + m)
  BY <1>1
<1>6. /\ \A x : Within(s, x) <=> Within(a, x) \/ Within(b, x)
      /\ NoRepeats(s) <=> NoRepeats(a) /\ NoRepeats(b) /\ Disjoint(a, b)
  <2>1. InParts(s, a, b, n, m)
    BY <1>1, <1>2, <1>3, <1>4, <1>5 DEF InParts
  <2> QED
    BY <2>1, TwoParts
<1> QED
  BY <1>2, <1>3, <1>6 DEF a, b

\* A batch behind what was posted.
LEMMA Joined ==
  ASSUME NEW S, NEW s \in Seq(S), NEW t \in Seq(S)
  PROVE  /\ s \o t \in Seq(S)
         /\ \A x : Within(s \o t, x) <=> Within(s, x) \/ Within(t, x)
         /\ NoRepeats(s) /\ NoRepeats(t) /\ Disjoint(s, t) => NoRepeats(s \o t)
<1>1. PICK n, m, j : n = Len(s) /\ m = Len(t) /\ j = s \o t
  OBVIOUS
<1>2. /\ n \in Nat /\ m \in Nat /\ DOMAIN s = 1..n /\ DOMAIN t = 1..m
  BY <1>1, LenProperties
<1>3. /\ j \in Seq(S) /\ Len(j) = n + m
      /\ \A i \in 1..(n + m) : j[i] = IF i <= n THEN s[i] ELSE t[i - n]
  BY <1>1, ConcatProperties
<1>4. DOMAIN j = 1..(n + m)
  BY <1>3, LenProperties
<1>5. \A i \in 1..n : j[i] = s[i]
  BY <1>2, <1>3
<1>6. \A i \in 1..m : j[n + i] = t[i]
  <2> SUFFICES ASSUME NEW i \in 1..m PROVE j[n + i] = t[i]
    OBVIOUS
  <2>1. n + i \in 1..(n + m) /\ ~(n + i <= n) /\ n + i - n = i
    BY <1>2
  <2>2. j[n + i] = IF n + i <= n THEN s[n + i] ELSE t[n + i - n]
    BY <1>2, <1>3, <2>1
  <2> QED
    BY <2>1, <2>2
<1>7. /\ \A x : Within(j, x) <=> Within(s, x) \/ Within(t, x)
      /\ NoRepeats(j) <=> NoRepeats(s) /\ NoRepeats(t) /\ Disjoint(s, t)
  <2>1. InParts(j, s, t, n, m)
    BY <1>2, <1>4, <1>5, <1>6 DEF InParts
  <2> QED
    BY <2>1, TwoParts
<1> QED
  BY <1>1, <1>3, <1>7

\* What is empty holds nothing.
LEMMA EmptyHolds ==
  /\ \A S : <<>> \in Seq(S)
  /\ Len(<<>>) = 0
  /\ \A x : ~Within(<<>>, x)
  /\ NoRepeats(<<>>)
BY DEF Within, NoRepeats


\* The first of a sequence and the others.
LEMMA HeadAndTail ==
  ASSUME NEW S, NEW s \in Seq(S), s # <<>>
  PROVE  /\ Head(s) \in S /\ Tail(s) \in Seq(S)
         /\ Within(s, Head(s))
         /\ \A x : Within(s, x) <=> x = Head(s) \/ Within(Tail(s), x)
         /\ NoRepeats(s) => NoRepeats(Tail(s)) /\ ~Within(Tail(s), Head(s))
<1>1. PICK h, t, o : h = Head(s) /\ t = Tail(s) /\ o = <<Head(s)>>
  OBVIOUS
<1>2. PICK m : m = Len(s) - 1 /\ m \in Nat /\ Len(s) = 1 + m
  <2>1. Len(s) \in Nat \ {0}
    BY EmptySeq
  <2> QED
    BY <2>1
<1>3. /\ h \in S /\ t \in Seq(S) /\ DOMAIN t = 1..m
      /\ \A i \in 1..m : t[i] = s[i + 1]
  BY <1>1, <1>2, HeadTailProperties, LenProperties
<1>4. DOMAIN o = 1..1 /\ o[1] = h /\ s[1] = h
  BY <1>1
<1>5. InParts(s, o, t, 1, m)
  <2>1. DOMAIN s = 1..(1 + m)
    BY <1>2, LenProperties
  <2>2. \A i \in 1..m : s[1 + i] = t[i]
    <3>1. \A i \in 1..m : 1 + i = i + 1
      BY <1>2
    <3> QED
      BY <1>3, <3>1
  <2> QED
    BY <1>2, <1>3, <1>4, <2>1, <2>2 DEF InParts
<1>6. \A x : Within(o, x) <=> x = h
  BY <1>4 DEF Within
<1> QED
  BY <1>1, <1>3, <1>5, <1>6, TwoParts DEF Disjoint

\* A sequence without one of its elements.
LEMMA OneTaken ==
  ASSUME NEW S, NEW s \in Seq(S), NoRepeats(s), NEW i \in DOMAIN s
  PROVE  /\ RemoveAt(s, i) \in Seq(S)
         /\ NoRepeats(RemoveAt(s, i))
         /\ \A x : Within(RemoveAt(s, i), x) <=> Within(s, x) /\ x # s[i]
<1>1. i \in 1..Len(s) /\ Len(s) \in Nat
  BY LenProperties
<1>2. PICK a, c, b : /\ a = SubSeq(s, 1, i - 1) /\ c = SubSeq(s, i, Len(s))
                     /\ b = SubSeq(s, i + 1, Len(s))
  OBVIOUS
<1>3. /\ a \in Seq(S) /\ c \in Seq(S) /\ NoRepeats(a) /\ NoRepeats(c) /\ Disjoint(a, c)
      /\ \A x : Within(s, x) <=> Within(a, x) \/ Within(c, x)
  <2>1. i - 1 \in 0..Len(s) /\ i - 1 + 1 = i
    BY <1>1
  <2> QED
    BY <1>2, <2>1, CutInTwo
<1>4. c # <<>> /\ Head(c) = s[i] /\ Tail(c) = b
  <2>1. i \in 1..Len(s) /\ Len(s) \in i..Len(s)
    BY <1>1
  <2>2. Head(c) = s[i] /\ Tail(c) = b
    BY <1>2, <2>1, HeadTailOfSubSeq
  <2>3. c = <<s[i]>> \o b
    BY <1>2, <2>1, SubSeqRecursiveFirst
  <2>4. b \in Seq(S)
    <3>1. i \in 0..Len(s)
      BY <1>1
    <3> QED
      BY <1>2, <3>1, CutInTwo
  <2>5. Len(c) = 1 + Len(b) /\ Len(b) \in Nat
    <3>1. s[i] \in S
      BY <1>1, ElementOfSeq
    <3>2. <<s[i]>> \in Seq(S) /\ Len(<<s[i]>>) = 1
      BY <3>1
    <3> QED
      BY <2>3, <2>4, <3>2, ConcatProperties, LenProperties
  <2> QED
    BY <2>2, <2>5
<1>5. /\ b \in Seq(S) /\ NoRepeats(b) /\ ~Within(b, s[i])
      /\ \A x : Within(c, x) <=> x = s[i] \/ Within(b, x)
  BY <1>3, <1>4, HeadAndTail
<1>6. Disjoint(a, b) /\ ~Within(a, s[i])
  BY <1>3, <1>5 DEF Disjoint
<1>7. /\ a \o b \in Seq(S) /\ NoRepeats(a \o b)
      /\ \A x : Within(a \o b, x) <=> Within(a, x) \/ Within(b, x)
  BY <1>3, <1>5, <1>6, Joined
<1> QED
  BY <1>2, <1>3, <1>5, <1>6, <1>7 DEF RemoveAt

\* How often an element is in a sequence without repeats.
LEMMA CountedOnce ==
  ASSUME NEW s, NoRepeats(s), NEW e
  PROVE  Cardinality({i \in DOMAIN s : s[i] = e}) = IF Within(s, e) THEN 1 ELSE 0
<1>1. CASE Within(s, e)
  <2>1. PICK i \in DOMAIN s : s[i] = e
    BY <1>1 DEF Within
  <2>2. {j \in DOMAIN s : s[j] = e} = {i}
    BY <2>1 DEF NoRepeats
  <2> QED
    BY <1>1, <2>2, FS_Singleton
<1>2. CASE ~Within(s, e)
  <2>1. {j \in DOMAIN s : s[j] = e} = {}
    BY <1>2 DEF Within
  <2> QED
    BY <1>2, <2>1, FS_EmptySet
<1> QED
  BY <1>1, <1>2

-----------------------------------------------------------------------------
(*****************************************************************************)
(* Telemetry.  Every event recorded is in one place, once: the buffer, the   *)
(* batch of one flush, or what was posted.  flush cuts the buffer in two     *)
(* under the mutex, so the invariant speaks of what sequences have in common, *)
(* and needs to know what a cut and a join keep of it.                       *)
(*****************************************************************************)
Recorded == made["event"]

Numbered ==
  \A e : Within(events, e) \/ Within(posted, e) \/ (\E f \in Flushes : Within(batch[f], e))
           <=> e \in 1..Recorded

NoneTwice ==
  /\ NoRepeats(events) /\ NoRepeats(posted) /\ \A f \in Flushes : NoRepeats(batch[f])
  /\ Disjoint(events, posted)
  /\ \A f \in Flushes : Disjoint(events, batch[f]) /\ Disjoint(posted, batch[f])
  /\ \A f, g \in Flushes : f # g => Disjoint(batch[f], batch[g])

BatchesFit == \A f \in Flushes : Len(batch[f]) <= BatchMax

TelemetryInv == TelemetryTypeOK /\ Numbered /\ NoneTwice /\ BatchesFit

-----------------------------------------------------------------------------
\* One more event, tick or switch.
LEMMA Counted ==
  ASSUME made \in [DOMAIN TelemetryLimits -> Nat], NEW k \in {"event", "tick", "switch"}, Count(k)
  PROVE  /\ made' \in [DOMAIN TelemetryLimits -> Nat]
         /\ made[k] \in Nat /\ made'[k] = made[k] + 1
         /\ \A l \in {"event", "tick", "switch"} : l # k => made'[l] = made[l]
<1>1. DOMAIN TelemetryLimits = {"event", "tick", "switch"}
  BY TelemetryAssumption
<1>2. made' = [made EXCEPT ![k] = @ + 1] /\ made[k] \in Nat
  BY <1>1 DEF Count
<1> QED
  BY <1>1, <1>2

\* event: its number is new.
LEMMA EventStep ==
  ASSUME TelemetryInv, UsageEvent PROVE TelemetryInv'
<1> USE DEF TelemetryInv
<1> DEFINE new == Recorded + 1
<1>1. /\ Recorded \in Nat /\ new \in Nat /\ Recorded' = new
      /\ made' \in [DOMAIN TelemetryLimits -> Nat]
  <2>1. Count("event")
    BY DEF UsageEvent
  <2> QED
    BY <2>1, Counted DEF TelemetryTypeOK, Recorded
<1>2. events' = Append(events, new) /\ UNCHANGED <<enabled, batch, posted>>
  BY DEF UsageEvent, Recorded
<1> HIDE DEF new
<1>3. /\ events' \in Seq(Nat)
      /\ \A x : Within(events', x) <=> Within(events, x) \/ x = new
      /\ NoRepeats(events) /\ ~Within(events, new) => NoRepeats(events')
  BY <1>1, <1>2, Appended DEF TelemetryTypeOK
<1>4. /\ ~Within(events, new) /\ ~Within(posted, new)
      /\ \A f \in Flushes : ~Within(batch[f], new)
  <2>1. new \notin 1..Recorded
    BY <1>1 DEF new
  <2> QED
    BY <2>1 DEF Numbered
<1>5. TelemetryTypeOK'
  <2>1. due' \in Nat
    BY DEF UsageEvent, TelemetryTypeOK
  <2> QED
    BY <1>1, <1>2, <1>3, <2>1 DEF TelemetryTypeOK
<1>6. Numbered'
  <2>1. \A e : e \in 1..new <=> e \in 1..Recorded \/ e = new
    BY <1>1 DEF new
  <2>2. Within(events', new)
    BY <1>3
  <2> QED
    BY <1>1, <1>2, <1>3, <2>1, <2>2 DEF Numbered
<1>7. NoneTwice'
  BY <1>2, <1>3, <1>4 DEF NoneTwice, Disjoint
<1>8. BatchesFit'
  BY <1>2 DEF BatchesFit
<1> QED
  BY <1>5, <1>6, <1>7, <1>8

\* flush: a batch leaves the buffer.
LEMMA FlushStep ==
  ASSUME TelemetryInv, NEW f \in Flushes, Flush(f) PROVE TelemetryInv'
<1> USE DEF TelemetryInv
<1>1. PICK n, a, b : /\ n = IF Len(events) < BatchMax THEN Len(events) ELSE BatchMax
                     /\ a = SubSeq(events, 1, n) /\ b = SubSeq(events, n + 1, Len(events))
  OBVIOUS
<1>2. /\ due > 0 /\ batch[f] = <<>> /\ due' = due - 1
      /\ batch' = [batch EXCEPT ![f] = a] /\ events' = b
      /\ UNCHANGED <<enabled, posted, made>>
  BY <1>1 DEF Flush
<1>3. n \in 0..Len(events) /\ n <= BatchMax
  BY <1>1, LenProperties, TelemetryAssumption DEF TelemetryTypeOK
<1>4. /\ a \in Seq(Nat) /\ b \in Seq(Nat) /\ Len(a) = n
      /\ \A x : Within(events, x) <=> Within(a, x) \/ Within(b, x)
      /\ NoRepeats(events) => NoRepeats(a) /\ NoRepeats(b) /\ Disjoint(a, b)
  BY <1>1, <1>3, CutInTwo DEF TelemetryTypeOK
<1>5. TelemetryTypeOK'
  BY <1>2, <1>4 DEF TelemetryTypeOK
<1>6. \A g \in Flushes : batch'[g] = IF g = f THEN a ELSE batch[g]
  BY <1>2 DEF TelemetryTypeOK
<1>7. \A x : ~Within(batch[f], x)
  BY <1>2, EmptyHolds
<1>8. Numbered'
  <2>1. Recorded' = Recorded
    BY <1>2 DEF Recorded
  <2>2. \A e : (\E g \in Flushes : Within(batch'[g], e))
                 <=> Within(a, e) \/ \E g \in Flushes : Within(batch[g], e)
    BY <1>6, <1>7
  <2> QED
    BY <1>2, <1>4, <2>1, <2>2 DEF Numbered
<1>9. NoneTwice'
  BY <1>2, <1>4, <1>6 DEF NoneTwice, Disjoint
<1>10. BatchesFit'
  BY <1>3, <1>4, <1>6 DEF BatchesFit
<1> QED
  BY <1>5, <1>8, <1>9, <1>10

\* The POST.
LEMMA PostStep ==
  ASSUME TelemetryInv, NEW f \in Flushes, Post(f) PROVE TelemetryInv'
<1> USE DEF TelemetryInv
<1>1. PICK s : s = posted \o batch[f]
  OBVIOUS
<1>2. /\ posted' = s /\ batch' = [batch EXCEPT ![f] = <<>>]
      /\ UNCHANGED <<enabled, events, due, made>>
  BY <1>1 DEF Post
<1>3. /\ s \in Seq(Nat)
      /\ \A x : Within(s, x) <=> Within(posted, x) \/ Within(batch[f], x)
      /\ NoRepeats(posted) /\ NoRepeats(batch[f]) /\ Disjoint(posted, batch[f]) => NoRepeats(s)
  BY <1>1, Joined DEF TelemetryTypeOK
<1>4. TelemetryTypeOK'
  BY <1>2, <1>3, EmptyHolds DEF TelemetryTypeOK
<1>5. \A g \in Flushes : batch'[g] = IF g = f THEN <<>> ELSE batch[g]
  BY <1>2 DEF TelemetryTypeOK
<1>6. Numbered'
  <2>1. Recorded' = Recorded
    BY <1>2 DEF Recorded
  <2>2. \A e : (\E g \in Flushes : Within(batch'[g], e)) \/ Within(batch[f], e)
                 <=> \E g \in Flushes : Within(batch[g], e)
    BY <1>5, EmptyHolds
  <2> QED
    BY <1>2, <1>3, <2>1, <2>2 DEF Numbered
<1>7. NoneTwice'
  BY <1>2, <1>3, <1>5, EmptyHolds DEF NoneTwice, Disjoint
<1>8. BatchesFit'
  BY <1>5, EmptyHolds, TelemetryAssumption DEF BatchesFit
<1> QED
  BY <1>4, <1>6, <1>7, <1>8

\* The invariant, over the whole specification.
THEOREM TelemetryInvariant == TelemetrySpec => []TelemetryInv
<1>1. TelemetryInit => TelemetryInv
  <2> SUFFICES ASSUME TelemetryInit PROVE TelemetryInv
    OBVIOUS
  <2>1. TelemetryTypeOK /\ Recorded = 0
    BY EmptyHolds, TelemetryAssumption DEF TelemetryInit, TelemetryTypeOK, Recorded
  <2>2. events = <<>> /\ posted = <<>> /\ \A f \in Flushes : batch[f] = <<>>
    BY DEF TelemetryInit
  <2>3. Numbered /\ NoneTwice /\ BatchesFit
    BY <2>1, <2>2, EmptyHolds, TelemetryAssumption
       DEF Numbered, NoneTwice, BatchesFit, Disjoint
  <2> QED
    BY <2>1, <2>3 DEF TelemetryInv
<1>2. TelemetryInv /\ [TelemetryNext]_telemetryVars => TelemetryInv'
  <2> SUFFICES ASSUME TelemetryInv, [TelemetryNext]_telemetryVars PROVE TelemetryInv'
    OBVIOUS
  <2>1. ASSUME /\ UNCHANGED <<events, batch, posted>> /\ Recorded' = Recorded
               /\ enabled' \in BOOLEAN /\ due' \in Nat
               /\ made' \in [DOMAIN TelemetryLimits -> Nat]
        PROVE  TelemetryInv'
    BY <2>1 DEF TelemetryInv, TelemetryTypeOK, Numbered, NoneTwice, BatchesFit
  <2>2. CASE FlushTick
    <3>1. Count("tick") /\ due' = due + 1 /\ UNCHANGED <<enabled, events, batch, posted>>
      BY <2>2 DEF FlushTick
    <3> QED
      BY <2>1, <3>1, Counted DEF TelemetryInv, TelemetryTypeOK, Recorded
  <2>3. CASE SwitchTelemetry
    <3>1. /\ Count("switch") /\ enabled' = ~enabled
          /\ UNCHANGED <<events, due, batch, posted>>
      BY <2>3 DEF SwitchTelemetry
    <3> QED
      BY <2>1, <3>1, Counted DEF TelemetryInv, TelemetryTypeOK, Recorded
  <2>4. CASE UNCHANGED telemetryVars
    BY <2>1, <2>4 DEF telemetryVars, TelemetryInv, TelemetryTypeOK, Recorded
  <2> QED
    BY <2>2, <2>3, <2>4, EventStep, FlushStep, PostStep DEF TelemetryNext
<1> QED
  BY <1>1, <1>2, PTL DEF TelemetrySpec

-----------------------------------------------------------------------------
\* event, flush: however many flushes run, no event is posted twice and none is lost
\* before its POST; no request is larger than it may be.
THEOREM EventsOnce == TelemetrySpec => []EachEventOnce
<1>1. ASSUME TelemetryInv PROVE EachEventOnce
  <2> USE <1>1 DEF TelemetryInv
  <2>1. ASSUME NEW e \in 1..made["event"]
        PROVE  LET inBatches == {f \in Flushes : Occurrences(batch[f], e) > 0}
               IN  /\ Occurrences(events, e) + Occurrences(posted, e)
                        + Cardinality(inBatches) = 1
                   /\ \A f \in inBatches : Occurrences(batch[f], e) = 1
    <3> DEFINE inBatches == {f \in Flushes : Occurrences(batch[f], e) > 0}
    <3>1. /\ Occurrences(events, e) = IF Within(events, e) THEN 1 ELSE 0
          /\ Occurrences(posted, e) = IF Within(posted, e) THEN 1 ELSE 0
          /\ \A f \in Flushes :
               Occurrences(batch[f], e) = IF Within(batch[f], e) THEN 1 ELSE 0
      BY CountedOnce DEF NoneTwice, Occurrences
    <3>2. /\ Within(events, e) \/ Within(posted, e) \/ \E f \in Flushes : Within(batch[f], e)
          /\ e \in Nat
      BY <2>1 DEF Numbered, Recorded
    <3>3. inBatches = {f \in Flushes : Within(batch[f], e)}
      BY <3>1
    <3>4. CASE \E f \in Flushes : Within(batch[f], e)
      <4>1. PICK f \in Flushes : Within(batch[f], e)
        BY <3>4
      <4>2. inBatches = {f} /\ ~Within(events, e) /\ ~Within(posted, e)
        BY <3>2, <3>3, <4>1 DEF NoneTwice, Disjoint
      <4>3. Cardinality(inBatches) = 1
        BY <4>2, FS_Singleton
      <4> QED
        BY <3>1, <4>2, <4>3
    <3>5. CASE ~\E f \in Flushes : Within(batch[f], e)
      <4>1. inBatches = {}
        BY <3>3, <3>5
      <4>2. Cardinality(inBatches) = 0
        BY <4>1, FS_EmptySet
      <4>3. ~(Within(events, e) /\ Within(posted, e))
        BY <3>2 DEF NoneTwice, Disjoint
      <4> QED
        BY <3>1, <3>2, <3>5, <4>1, <4>2, <4>3
    <3> QED
      BY <3>4, <3>5
  <2> QED
    BY <2>1 DEF EachEventOnce, BatchesFit
<1> QED
  BY <1>1, TelemetryInvariant, PTL

-----------------------------------------------------------------------------
(*****************************************************************************)
(* Sending.  A shared file has one place: fresh, in the queue, or with the   *)
(* request that sends it.  A peer has as many chances to get it as requests  *)
(* named the two: delivered to it, under way in a push nobody waits for, and *)
(* still to come from the request that has the file, together are no more.   *)
(*****************************************************************************)
SenderRecords == [at : {"idle", "next", "pushing"}, file : Files \cup {Own},
                  to : Seq(Peers), left : Seq(Peers)]

SendingKinds ==
  /\ shares \in Seq(Files) /\ fresh \subseteq Files /\ gone \subseteq Files
  /\ sender \in [Senders -> SenderRecords]
  /\ push \in [Senders -> {"none", "going", "ok", "failed"}]
  /\ ended \subseteq Senders
  /\ orphans \in [Sends -> Nat] /\ logged \in [Sends -> Nat] /\ delivered \in [Sends -> Nat]
  /\ answered \subseteq Sends /\ missed \subseteq Sends
  /\ asked \in [Sends -> Nat]

\* The request of sender r sends file f.
HasFile(r, f) == r \in Senders /\ sender[r].file = f

\* A request pushes to the first of the peers that are left.
Course ==
  \A r \in Senders :
    /\ sender[r].at = "pushing" <=> push[r] # "none"
    /\ sender[r].at = "idle" => sender[r].file = Own
    /\ sender[r].at # "idle" => sender[r].to # <<>>
    /\ sender[r].at = "pushing" => sender[r].left # <<>>

\* A peer that is not left any more has the file.
Served ==
  /\ \A r \in Senders : \A p : Within(sender[r].to, p) =>
       \/ Within(sender[r].left, p)
       \/ <<sender[r].file, p>> \in Sends /\ delivered[<<sender[r].file, p>>] > 0
  /\ \A s \in answered : delivered[s] > 0

\* A shared file is in one place.
OnePlace ==
  /\ NoRepeats(shares)
  /\ \A f \in Files :
       /\ \A r, q \in Senders : HasFile(r, f) /\ HasFile(q, f) => r = q
       /\ Within(shares, f) => \A r \in Senders : ~HasFile(r, f)
       /\ f \in fresh => ~Within(shares, f) /\ \A r \in Senders : ~HasFile(r, f)
       /\ f \notin fresh \cup gone =>
            \/ Within(shares, f)
            \/ \E r \in Senders : HasFile(r, f)
            \/ \E p \in Peers : <<f, p>> \in answered

\* A push nobody waits for is one that was given up.
GivenUp == \A s \in Sends : orphans[s] > 0 => s \in missed

\* Deliveries nobody has read the result of.
Readers(s) == {r \in Senders : sender[r].at = "pushing" /\ push[r] = "ok" /\ Target(r) = s}
Tallied ==
  \A s \in Sends :
    /\ logged[s] + Cardinality(Readers(s)) <= delivered[s]
    /\ s \notin missed => logged[s] + Cardinality(Readers(s)) = delivered[s]

\* How often request r may still deliver to peer p.
PushedTo(r, p) == push[r] \in {"ok", "failed"} /\ Head(sender[r].left) = p
ToCome(r, p) == Times(sender[r].left, p) - (IF PushedTo(r, p) THEN 1 ELSE 0)

ChanceOf(f, p) ==
  /\ delivered[<<f, p>>] + orphans[<<f, p>>] <= asked[<<f, p>>]
  /\ \A r \in Senders : HasFile(r, f) =>
       delivered[<<f, p>>] + orphans[<<f, p>>] + ToCome(r, p) <= asked[<<f, p>>]
Chances == \A f \in Files, p \in Peers : ChanceOf(f, p)

SendingInv ==
  SendingKinds /\ Course /\ Served /\ OnePlace /\ GivenUp /\ Tallied /\ Chances

-----------------------------------------------------------------------------
\* The fields of a request.
LEMMA RequestFields ==
  ASSUME SendingKinds, NEW r \in Senders
  PROVE  /\ sender[r].at \in {"idle", "next", "pushing"}
         /\ sender[r].file \in Files \cup {Own}
         /\ sender[r].to \in Seq(Peers) /\ sender[r].left \in Seq(Peers)
         /\ push[r] \in {"none", "going", "ok", "failed"}
         /\ sender[r].file \in Files => HasFile(r, sender[r].file)
BY DEF SendingKinds, SenderRecords, HasFile

\* Request r takes the values given, and the others stay as they are.
Becomes(r, at, file, to, left, result) ==
  /\ sender' \in [Senders -> SenderRecords]
  /\ push' \in [Senders -> {"none", "going", "ok", "failed"}]
  /\ sender'[r].at = at /\ sender'[r].file = file
  /\ sender'[r].to = to /\ sender'[r].left = left /\ push'[r] = result
  /\ \A q \in Senders : q # r => sender'[q] = sender[q] /\ push'[q] = push[q]

LEMMA NoSenderIs ==
  /\ NoSender \in SenderRecords /\ <<>> \in Seq(Peers)
  /\ NoSender.at = "idle" /\ NoSender.file = Own
  /\ NoSender.to = <<>> /\ NoSender.left = <<>>
BY DEF NoSender, SenderRecords

\* The request is over.
LEMMA LeaveEffect ==
  ASSUME SendingKinds, NEW r \in Senders, Leave(r)
  PROVE  Becomes(r, "idle", Own, <<>>, <<>>, "none") /\ ended' \subseteq Senders
BY NoSenderIs DEF SendingKinds, Leave, Becomes

\* A request with a file and its peers.
LEMMA AskEffect ==
  ASSUME SendingKinds, Course, NEW r \in Senders, NEW f \in Files \cup {Own},
         NEW ps \in Seq(Peers), Begin(r, f, ps)
  PROVE  Becomes(r, "next", f, ps, ps, push[r]) /\ push[r] = "none"
<1>1. [at |-> "next", file |-> f, to |-> ps, left |-> ps] \in SenderRecords
  BY DEF SenderRecords
<1>2. sender[r].at = "idle" /\ push' = push
  BY DEF Begin
<1>3. push[r] = "none"
  BY <1>2 DEF Course, SendingKinds
<1>4. sender' = [sender EXCEPT ![r] = [at |-> "next", file |-> f, to |-> ps, left |-> ps]]
  BY DEF Begin
<1> QED
  BY <1>1, <1>2, <1>3, <1>4 DEF SendingKinds, Becomes

\* The push starts.
LEMMA StartEffect ==
  ASSUME SendingKinds, NEW r \in Senders, StartPush(r)
  PROVE  Becomes(r, "pushing", sender[r].file, sender[r].to, sender[r].left, "going")
<1>1. \A x \in SenderRecords : LET y == [x EXCEPT !.at = "pushing"] IN
        /\ y \in SenderRecords /\ y.at = "pushing"
        /\ y.file = x.file /\ y.to = x.to /\ y.left = x.left
  BY DEF SenderRecords
<1>2. /\ sender' = [sender EXCEPT ![r] = [sender[r] EXCEPT !.at = "pushing"]]
      /\ push' = [push EXCEPT ![r] = "going"]
  BY DEF StartPush, SendingKinds
<1> QED
  BY <1>1, <1>2 DEF SendingKinds, Becomes

\* The push to one peer is done.
LEMMA PushedEffect ==
  ASSUME SendingKinds, NEW r \in Senders, sender[r].left # <<>>, Pushed(r)
  PROVE  Becomes(r, "next", sender[r].file, sender[r].to, Tail(sender[r].left), "none")
<1>1. sender[r] \in SenderRecords /\ Tail(sender[r].left) \in Seq(Peers)
  BY HeadAndTail DEF SendingKinds, SenderRecords
<1>2. \A x \in SenderRecords, t \in Seq(Peers) :
        LET y == [x EXCEPT !.at = "next", !.left = t] IN
        /\ y \in SenderRecords /\ y.at = "next"
        /\ y.file = x.file /\ y.to = x.to /\ y.left = t
  BY DEF SenderRecords
<1>3. /\ sender' = [sender EXCEPT ![r] = [sender[r] EXCEPT !.at = "next",
                                                           !.left = Tail(sender[r].left)]]
      /\ push' = [push EXCEPT ![r] = "none"]
  BY DEF Pushed, SendingKinds
<1> QED
  BY <1>1, <1>2, <1>3 DEF SendingKinds, Becomes

\* takeShare.
LEMMA TakeEffect ==
  ASSUME SendingKinds, OnePlace, NEW f, TakeFirst(f)
  PROVE  /\ shares' \in Seq(Files) /\ NoRepeats(shares') /\ Within(shares, f)
         /\ \A g : Within(shares', g) <=> Within(shares, g) /\ g # f
<1>1. PICK i \in DOMAIN shares : shares[i] = f /\ shares' = RemoveAt(shares, i)
  BY DEF TakeFirst
<1>2. shares \in Seq(Files) /\ NoRepeats(shares)
  BY DEF SendingKinds, OnePlace
<1>3. /\ RemoveAt(shares, i) \in Seq(Files) /\ NoRepeats(RemoveAt(shares, i))
      /\ \A g : Within(RemoveAt(shares, i), g) <=> Within(shares, g) /\ g # f
  BY <1>1, <1>2, OneTaken
<1>4. Within(shares, f)
  BY <1>1 DEF Within
<1> QED
  BY <1>1, <1>3, <1>4

\* A number more in a function.
LEMMA Bumped ==
  ASSUME NEW D, NEW f \in [D -> Nat], NEW x \in D
  PROVE  /\ Bump(f, x) \in [D -> Nat]
         /\ \A y \in D : Bump(f, x)[y] = IF y = x THEN f[y] + 1 ELSE f[y]
BY DEF Bump

\* What a request pushes, and to whom.
LEMMA TargetIs ==
  ASSUME SendingKinds, NEW r \in Senders, sender[r].left # <<>>
  PROVE  /\ Target(r) = <<sender[r].file, Head(sender[r].left)>>
         /\ Target(r) \in Sends /\ Head(sender[r].left) \in Peers
         /\ Within(sender[r].left, Head(sender[r].left))
<1>1. Head(sender[r].left) \in Peers /\ Within(sender[r].left, Head(sender[r].left))
  BY RequestFields, HeadAndTail
<1> QED
  BY <1>1, RequestFields DEF Target, Sends

\* Readers are requests, of which there are finitely many.
LEMMA ReadersCount ==
  ASSUME NEW s
  PROVE  IsFiniteSet(Readers(s)) /\ Cardinality(Readers(s)) \in Nat
<1>1. IsFiniteSet(Readers(s))
  BY FS_Subset, SendingAssumption DEF Readers
<1> QED
  BY <1>1, FS_CardinalityType

-----------------------------------------------------------------------------
\* A failed send puts its file back: the request is over.
LEMMA GiveUpEffect ==
  ASSUME SendingKinds, NEW r \in Senders, GiveUp(r)
  PROVE  /\ Becomes(r, "idle", Own, <<>>, <<>>, "none") /\ ended' \subseteq Senders
         /\ shares' \in Seq(Files)
         /\ \A f : Within(shares', f) <=>
              Within(shares, f) \/ (f = sender[r].file /\ f \in Files)
         /\ NoRepeats(shares) /\ ~Within(shares, sender[r].file) => NoRepeats(shares')
<1>1. Leave(r)
  BY DEF GiveUp
<1>2. CASE sender[r].file \in Files
  <2>1. shares' = Append(shares, sender[r].file)
    BY <1>2 DEF GiveUp
  <2> QED
    BY <1>1, <1>2, <2>1, LeaveEffect, Appended DEF SendingKinds
<1>3. CASE sender[r].file \notin Files
  <2>1. shares' = shares
    BY <1>3 DEF GiveUp
  <2> QED
    BY <1>1, <1>3, <2>1, LeaveEffect DEF SendingKinds
<1> QED
  BY <1>2, <1>3

-----------------------------------------------------------------------------
\* What a step of one request does to each part of the invariant.
LEMMA CourseKept ==
  ASSUME Course, NEW r \in Senders, NEW at, NEW file, NEW to, NEW left, NEW result,
         Becomes(r, at, file, to, left, result),
         at = "pushing" <=> result # "none", at = "idle" => file = Own,
         at # "idle" => to # <<>>, at = "pushing" => left # <<>>
  PROVE  Course'
BY DEF Course, Becomes

LEMMA ServedKept ==
  ASSUME Served, NEW r \in Senders, NEW at, NEW file, NEW to, NEW left, NEW result,
         Becomes(r, at, file, to, left, result),
         \A p : Within(to, p) =>
           Within(left, p) \/ (<<file, p>> \in Sends /\ delivered'[<<file, p>>] > 0),
         \A s \in Sends : delivered[s] > 0 => delivered'[s] > 0,
         answered \subseteq Sends,
         \A s \in answered' : s \in answered \/ delivered'[s] > 0
  PROVE  Served'
BY DEF Served, Becomes

LEMMA HasFileThen ==
  ASSUME NEW r \in Senders, NEW at, NEW file, NEW to, NEW left, NEW result,
         Becomes(r, at, file, to, left, result), NEW q \in Senders, NEW f
  PROVE  HasFile(q, f)' <=> IF q = r THEN f = file ELSE HasFile(q, f)
BY DEF HasFile, Becomes

LEMMA ReadersThen ==
  ASSUME NEW r \in Senders, NEW at, NEW file, NEW to, NEW left, NEW result,
         Becomes(r, at, file, to, left, result), NEW s
  PROVE  Readers(s)' = IF at = "pushing" /\ result = "ok" /\ <<file, Head(left)>> = s
                       THEN Readers(s) \cup {r} ELSE Readers(s) \ {r}
BY DEF Readers, Target, Becomes

\* A request that does not wait for a result it could read.
LEMMA ReadersKept ==
  ASSUME NEW r \in Senders, NEW at, NEW file, NEW to, NEW left, NEW result,
         Becomes(r, at, file, to, left, result), sender[r].at # "pushing" \/ push[r] # "ok",
         at # "pushing" \/ result # "ok", NEW s
  PROVE  Readers(s)' = Readers(s)
BY ReadersThen DEF Readers

\* How often a list names a peer.
LEMMA TimesCount ==
  ASSUME NEW ps \in Seq(Peers), NEW p
  PROVE  Times(ps, p) \in Nat
<1>1. DOMAIN ps = 1..Len(ps) /\ Len(ps) \in Nat
  BY LenProperties
<1>2. IsFiniteSet({i \in DOMAIN ps : ps[i] = p})
  <2>1. IsFiniteSet(1..Len(ps))
    BY <1>1, FS_Interval
  <2> QED
    BY <1>1, <2>1, FS_Subset
<1> QED
  BY <1>2, FS_CardinalityType DEF Times

\* It names its first one once more than the rest of it does.
LEMMA TimesTail ==
  ASSUME NEW ps \in Seq(Peers), ps # <<>>, NEW p
  PROVE  Times(ps, p) = Times(Tail(ps), p) + (IF Head(ps) = p THEN 1 ELSE 0)
<1>1. PICK h, t, m : h = Head(ps) /\ t = Tail(ps) /\ m = Len(ps) - 1
  OBVIOUS
<1>2. /\ m \in Nat /\ DOMAIN ps = 1..(m + 1) /\ DOMAIN t = 1..m /\ t \in Seq(Peers)
      /\ h = ps[1] /\ \A i \in 1..m : t[i] = ps[i + 1]
  <2>1. Len(ps) \in Nat \ {0}
    BY EmptySeq
  <2> QED
    BY <1>1, <2>1, HeadTailProperties, LenProperties
<1> DEFINE inRest == {i \in DOMAIN t : t[i] = p}
           inAll == {i \in DOMAIN ps : ps[i] = p}
           shift == [i \in inRest |-> i + 1]
<1>3. IsFiniteSet(inAll) /\ IsFiniteSet(inAll \ {1})
  <2>1. IsFiniteSet(1..(m + 1))
    BY <1>2, FS_Interval
  <2>2. IsFiniteSet(inAll)
    BY <1>2, <2>1, FS_Subset
  <2> QED
    BY <2>2, FS_RemoveElement
<1>4. IsFiniteSet(inRest)
  <2>1. IsFiniteSet(1..m)
    BY <1>2, FS_Interval
  <2> QED
    BY <1>2, <2>1, FS_Subset
<1>5. Cardinality(inRest) = Cardinality(inAll \ {1})
  <2>1. shift \in [inRest -> inAll \ {1}]
    BY <1>2
  <2>2. \A i, j \in inRest : shift[i] = shift[j] => i = j
    BY <1>2
  <2>3. \A k \in inAll \ {1} : \E i \in inRest : shift[i] = k
    <3> SUFFICES ASSUME NEW k \in inAll \ {1} PROVE \E i \in inRest : shift[i] = k
      OBVIOUS
    <3>1. k - 1 \in 1..m /\ k - 1 + 1 = k
      BY <1>2
    <3>2. k - 1 \in inRest
      BY <1>2, <3>1
    <3> QED
      BY <3>1, <3>2
  <2>4. shift \in Bijection(inRest, inAll \ {1})
    <3> HIDE DEF inRest, inAll, shift
    <3> QED
      BY <2>1, <2>2, <2>3, Fun_IsBij
  <2>5. ExistsBijection(inRest, inAll \ {1})
    BY <2>4 DEF ExistsBijection
  <2> HIDE DEF inRest, inAll, shift
  <2> QED
    BY <1>3, <1>4, <2>5, FS_Bijection
<1>6. 1 \in inAll <=> h = p
  BY <1>2
<1>7. /\ Cardinality(inAll) \in Nat
      /\ Cardinality(inAll \ {1})
           = IF 1 \in inAll THEN Cardinality(inAll) - 1 ELSE Cardinality(inAll)
  BY <1>3, FS_RemoveElement, FS_CardinalityType
<1>8. Times(ps, p) = Cardinality(inAll) /\ Times(t, p) = Cardinality(inRest)
  BY DEF Times
<1> HIDE DEF inRest, inAll, shift
<1> QED
  BY <1>1, <1>5, <1>6, <1>7, <1>8

\* What a request may still deliver; a push that is done is one less.
LEMMA ToComeCounts ==
  ASSUME SendingKinds, Course, NEW r \in Senders, NEW p
  PROVE  /\ ToCome(r, p) \in Nat
         /\ push[r] = "going" /\ Head(sender[r].left) = p => ToCome(r, p) > 0
<1>1. sender[r].left \in Seq(Peers) /\ Times(sender[r].left, p) \in Nat
  BY RequestFields, TimesCount
<1>2. ASSUME push[r] # "none", Head(sender[r].left) = p
      PROVE  Times(sender[r].left, p) > 0
  <2>1. sender[r].left # <<>>
    BY <1>2 DEF Course
  <2>2. Tail(sender[r].left) \in Seq(Peers)
    BY <1>1, <2>1, HeadTailProperties
  <2>3. Times(Tail(sender[r].left), p) \in Nat
    BY <2>2, TimesCount
  <2>4. Times(sender[r].left, p) = Times(Tail(sender[r].left), p) + 1
    BY <1>1, <1>2, <2>1, TimesTail
  <2> QED
    BY <2>3, <2>4
<1> QED
  BY <1>1, <1>2 DEF ToCome, PushedTo

\* After a request has got to where it is.
LEMMA ToComeThen ==
  ASSUME NEW r \in Senders, NEW at, NEW file, NEW to, NEW left, NEW result,
         Becomes(r, at, file, to, left, result), NEW p
  PROVE  /\ ToCome(r, p)' =
              Times(left, p) - (IF result \in {"ok", "failed"} /\ Head(left) = p THEN 1 ELSE 0)
         /\ \A q \in Senders : q # r => ToCome(q, p)' = ToCome(q, p)
BY DEF ToCome, PushedTo, Times, Becomes

\* Chances stay what they are where nothing changes.
LEMMA ChanceKept ==
  ASSUME NEW f, NEW p, ChanceOf(f, p),
         delivered'[<<f, p>>] = delivered[<<f, p>>], orphans'[<<f, p>>] = orphans[<<f, p>>],
         asked'[<<f, p>>] = asked[<<f, p>>],
         \A q \in Senders : HasFile(q, f)' => HasFile(q, f) /\ ToCome(q, p)' = ToCome(q, p)
  PROVE  ChanceOf(f, p)'
BY DEF ChanceOf

\* The numbers a chance is made of.
LEMMA ChanceNumbers ==
  ASSUME SendingKinds, Chances, NEW f \in Files, NEW p \in Peers
  PROVE  /\ <<f, p>> \in Sends /\ ChanceOf(f, p)
         /\ delivered[<<f, p>>] \in Nat /\ orphans[<<f, p>>] \in Nat
         /\ asked[<<f, p>>] \in Nat
BY DEF SendingKinds, Sends, Chances

-----------------------------------------------------------------------------
\* enqueueShare: a fresh file comes into the queue.
LEMMA EnqueueStep ==
  ASSUME SendingInv, NEW f \in Files, EnqueueShare(f) PROVE SendingInv'
<1> USE DEF SendingInv
<1>1. /\ f \in fresh /\ fresh' = fresh \ {f} /\ shares' = Append(shares, f)
      /\ UNCHANGED <<sender, push, ended, orphans, logged, delivered, gone, answered,
                     missed, asked, spent>>
  BY DEF EnqueueShare
<1>2. ~Within(shares, f)
  BY <1>1 DEF OnePlace
<1>3. /\ shares' \in Seq(Files) /\ NoRepeats(shares')
      /\ \A g : Within(shares', g) <=> Within(shares, g) \/ g = f
  BY <1>1, <1>2, Appended DEF SendingKinds, OnePlace
<1>4. SendingKinds' /\ Course' /\ Served' /\ GivenUp'
  BY <1>1, <1>3 DEF SendingKinds, Course, Served, GivenUp
<1>5. OnePlace'
  <2>1. \A r \in Senders, g \in Files : HasFile(r, g)' <=> HasFile(r, g)
    BY <1>1 DEF HasFile
  <2> QED
    BY <1>1, <1>3, <2>1 DEF OnePlace
<1>6. Tallied'
  BY <1>1 DEF Tallied, Readers, Target
<1>7. Chances'
  <2>1. \A q, p : ToCome(q, p)' = ToCome(q, p)
    BY <1>1 DEF ToCome, PushedTo
  <2> QED
    BY <1>1, <2>1, ChanceKept DEF Chances, HasFile
<1> QED
  BY <1>4, <1>5, <1>6, <1>7

\* DELETE: what was in the queue is gone.
LEMMA ClearStep ==
  ASSUME SendingInv, ClearShares PROVE SendingInv'
<1> USE DEF SendingInv
<1>1. /\ gone' = gone \cup ToSet(shares) /\ shares' = <<>>
      /\ UNCHANGED <<sender, push, ended, orphans, fresh, logged, delivered, answered,
                     missed, asked>>
  BY DEF ClearShares
<1>2. ToSet(shares) \subseteq Files /\ \A f : f \in ToSet(shares) <=> Within(shares, f)
  BY LenProperties DEF SendingKinds, ToSet, Within
<1>3. shares' \in Seq(Files) /\ NoRepeats(shares') /\ \A f : ~Within(shares', f)
  BY <1>1, EmptyHolds
<1>4. SendingKinds' /\ Course' /\ Served' /\ GivenUp'
  BY <1>1, <1>2, <1>3 DEF SendingKinds, Course, Served, GivenUp
<1>5. OnePlace'
  <2>1. \A r \in Senders, g \in Files : HasFile(r, g)' <=> HasFile(r, g)
    BY <1>1 DEF HasFile
  <2> QED
    BY <1>1, <1>2, <1>3, <2>1 DEF OnePlace
<1>6. Tallied'
  BY <1>1 DEF Tallied, Readers, Target
<1>7. Chances'
  <2>1. \A q, p : ToCome(q, p)' = ToCome(q, p)
    BY <1>1 DEF ToCome, PushedTo
  <2> QED
    BY <1>1, <2>1, ChanceKept DEF Chances, HasFile
<1> QED
  BY <1>4, <1>5, <1>6, <1>7

\* os.Open fails: the file has left the queue.
LEMMA OpenFailsStep ==
  ASSUME SendingInv, NEW r \in Senders, NEW f \in Files, NEW ps, OpenFails(r, f, ps)
  PROVE  SendingInv'
<1> USE DEF SendingInv
<1>1. /\ TakeFirst(f) /\ gone' = gone \cup {f}
      /\ UNCHANGED <<sender, push, ended, orphans, fresh, logged, delivered, answered,
                     missed, asked>>
  BY DEF OpenFails
<1>2. /\ shares' \in Seq(Files) /\ NoRepeats(shares') /\ Within(shares, f)
      /\ \A g : Within(shares', g) <=> Within(shares, g) /\ g # f
  BY <1>1, TakeEffect
<1>3. SendingKinds' /\ Course' /\ Served' /\ GivenUp'
  BY <1>1, <1>2 DEF SendingKinds, Course, Served, GivenUp
<1>4. OnePlace'
  <2>1. \A q \in Senders, g \in Files : HasFile(q, g)' <=> HasFile(q, g)
    BY <1>1 DEF HasFile
  <2> QED
    BY <1>1, <1>2, <2>1 DEF OnePlace
<1>5. Tallied'
  BY <1>1 DEF Tallied, Readers, Target
<1>6. Chances'
  <2>1. \A q, p : ToCome(q, p)' = ToCome(q, p)
    BY <1>1 DEF ToCome, PushedTo
  <2> QED
    BY <1>1, <2>1, ChanceKept DEF Chances, HasFile
<1> QED
  BY <1>3, <1>4, <1>5, <1>6

-----------------------------------------------------------------------------
\* The peers of a request.
SomePeers(ps) == ps \in Seq(Peers) /\ ps # <<>>

\* A request begins: its file was in the queue or is its own.
LEMMA AskStep ==
  ASSUME SendingInv, NEW r \in Senders, NEW f \in Files \cup {Own}, NEW ps, SomePeers(ps),
         Begin(r, f, ps), gone' = gone,
         \/ f = Own /\ shares' = shares
         \/ f \in Files /\ TakeFirst(f)
  PROVE  SendingInv'
<1> USE DEF SendingInv
<1>1. /\ Becomes(r, "next", f, ps, ps, push[r]) /\ push[r] = "none"
      /\ sender[r].at = "idle" /\ sender[r].file = Own
      /\ asked' = [s \in Sends |-> asked[s] + IF s[1] = f THEN Times(ps, s[2]) ELSE 0]
      /\ UNCHANGED <<push, ended, orphans, fresh, logged, delivered, answered, missed>>
  <2>1. /\ sender[r].at = "idle"
        /\ asked' = [s \in Sends |-> asked[s] + IF s[1] = f THEN Times(ps, s[2]) ELSE 0]
        /\ UNCHANGED <<push, ended, orphans, fresh, logged, delivered, answered, missed>>
    BY DEF Begin
  <2> QED
    BY <2>1, AskEffect DEF SomePeers, Course
<1>2. /\ shares' \in Seq(Files) /\ NoRepeats(shares')
      /\ \A g \in Files : Within(shares', g) <=> Within(shares, g) /\ g # f
      /\ f \in Files => Within(shares, f)
  <2>1. CASE f = Own /\ shares' = shares
    BY <2>1, SendingAssumption DEF SendingKinds, OnePlace
  <2>2. CASE f \in Files /\ TakeFirst(f)
    BY <2>2, TakeEffect
  <2> QED
    BY <2>1, <2>2
<1>0. /\ asked' \in [Sends -> Nat]
      /\ \A g \in Files \cup {Own}, p \in Peers :
           /\ asked'[<<g, p>>] = IF g = f THEN asked[<<g, p>>] + Times(ps, p)
                                         ELSE asked[<<g, p>>]
           /\ asked[<<g, p>>] \in Nat /\ Times(ps, p) \in Nat
  <2>1. ps \in Seq(Peers)
    BY DEF SomePeers
  <2>2. \A p : Times(ps, p) \in Nat
    BY <2>1, TimesCount
  <2>3. ASSUME NEW s \in Sends
        PROVE  /\ asked[s] \in Nat
               /\ asked'[s] = asked[s] + IF s[1] = f THEN Times(ps, s[2]) ELSE 0
    BY <1>1 DEF SendingKinds
  <2>4. ASSUME NEW g \in Files \cup {Own}, NEW p \in Peers
        PROVE  /\ asked'[<<g, p>>] = IF g = f THEN asked[<<g, p>>] + Times(ps, p)
                                              ELSE asked[<<g, p>>]
               /\ asked[<<g, p>>] \in Nat /\ Times(ps, p) \in Nat
    <3>1. <<g, p>> \in Sends /\ <<g, p>>[1] = g /\ <<g, p>>[2] = p
      BY DEF Sends
    <3> QED
      BY <2>2, <2>3, <3>1
  <2>5. \A s \in Sends : asked[s] + (IF s[1] = f THEN Times(ps, s[2]) ELSE 0) \in Nat
    BY <2>2, <2>3
  <2>6. asked' \in [Sends -> Nat]
    BY <1>1, <2>5
  <2> QED
    BY <2>4, <2>6
<1>3. SendingKinds'
  BY <1>0, <1>1, <1>2 DEF SendingKinds, Becomes
<1>4. Course'
  BY <1>1, CourseKept DEF SomePeers
<1>5. Served'
  BY <1>1, ServedKept DEF SendingKinds
<1>6. OnePlace'
  <2>1. \A q \in Senders, g \in Files :
          HasFile(q, g)' <=> IF q = r THEN g = f ELSE HasFile(q, g)
    BY <1>1, HasFileThen
  <2>2. \A g \in Files : ~HasFile(r, g)
    BY <1>1, SendingAssumption DEF HasFile
  <2> QED
    BY <1>1, <1>2, <2>1, <2>2 DEF OnePlace
<1>7. GivenUp'
  BY <1>1 DEF GivenUp
<1>8. Tallied'
  <2>1. \A s : Readers(s)' = Readers(s)
    BY <1>1, ReadersKept
  <2> QED
    BY <1>1, <2>1 DEF Tallied
<1>9. Chances'
  <2> SUFFICES ASSUME NEW g \in Files, NEW p \in Peers PROVE ChanceOf(g, p)'
    BY DEF Chances
  <2>1. \A q \in Senders : HasFile(q, g)' <=> IF q = r THEN g = f ELSE HasFile(q, g)
    BY <1>1, HasFileThen
  <2>2. /\ ToCome(r, p)' = Times(ps, p)
        /\ \A q \in Senders : q # r => ToCome(q, p)' = ToCome(q, p)
    <3>1. /\ ToCome(r, p)' = Times(ps, p) - 0
          /\ \A q \in Senders : q # r => ToCome(q, p)' = ToCome(q, p)
      <4>1. Becomes(r, "next", f, ps, ps, "none")
        BY <1>1
      <4> QED
        BY <4>1, ToComeThen
    <3>2. Times(ps, p) \in Nat
      BY <1>0
    <3> QED
      BY <3>1, <3>2
  <2>3. /\ <<g, p>> \in Sends /\ ChanceOf(g, p)
        /\ delivered[<<g, p>>] \in Nat /\ orphans[<<g, p>>] \in Nat
        /\ asked[<<g, p>>] \in Nat /\ Times(ps, p) \in Nat
    BY <1>0, ChanceNumbers
  <2>4. CASE g = f
    <3>1. \A q \in Senders : HasFile(q, g)' => q = r
      BY <1>2, <2>1, <2>4 DEF OnePlace
    <3>2. asked'[<<g, p>>] = asked[<<g, p>>] + Times(ps, p)
      BY <1>0, <2>4
    <3>3. delivered[<<g, p>>] + orphans[<<g, p>>] <= asked[<<g, p>>]
      BY <2>3 DEF ChanceOf
    <3>4. /\ delivered'[<<g, p>>] + orphans'[<<g, p>>] <= asked'[<<g, p>>]
          /\ delivered'[<<g, p>>] + orphans'[<<g, p>>] + Times(ps, p) <= asked'[<<g, p>>]
      BY <1>1, <2>3, <3>2, <3>3
    <3> QED
      BY <2>2, <3>1, <3>4 DEF ChanceOf
  <2>5. CASE g # f
    <3>1. asked'[<<g, p>>] = asked[<<g, p>>]
      BY <1>0, <2>5
    <3>2. \A q \in Senders : HasFile(q, g)' => HasFile(q, g) /\ ToCome(q, p)' = ToCome(q, p)
      BY <2>1, <2>2, <2>5
    <3> QED
      BY <1>1, <2>3, <3>1, <3>2, ChanceKept
  <2> QED
    BY <2>4, <2>5
<1> QED
  BY <1>3, <1>4, <1>5, <1>6, <1>7, <1>8, <1>9

\* sendOne starts the push.
LEMMA StartStep ==
  ASSUME SendingInv, NEW r \in Senders, StartPush(r) PROVE SendingInv'
<1> USE DEF SendingInv
<1>1. /\ Becomes(r, "pushing", sender[r].file, sender[r].to, sender[r].left, "going")
      /\ sender[r].at = "next" /\ sender[r].left # <<>> /\ push[r] = "none"
      /\ UNCHANGED <<shares, ended, orphans, fresh, logged, delivered, gone, answered,
                     missed, asked, spent>>
  <2>1. /\ sender[r].at = "next" /\ sender[r].left # <<>>
        /\ UNCHANGED <<shares, ended, orphans, fresh, logged, delivered, gone, answered,
                       missed, asked, spent>>
    BY DEF StartPush
  <2> QED
    BY <2>1, StartEffect, RequestFields DEF Course
<1>2. SendingKinds'
  BY <1>1 DEF SendingKinds, Becomes
<1>3. Course'
  BY <1>1, CourseKept DEF Course
<1>4. Served'
  BY <1>1, ServedKept DEF Served, SendingKinds
<1>5. \A q \in Senders, g \in Files : HasFile(q, g)' <=> HasFile(q, g)
  BY <1>1, HasFileThen DEF HasFile
<1>6. OnePlace'
  BY <1>1, <1>5 DEF OnePlace
<1>7. GivenUp'
  BY <1>1 DEF GivenUp
<1>8. Tallied'
  <2>1. \A s : Readers(s)' = Readers(s)
    BY <1>1, ReadersKept
  <2> QED
    BY <1>1, <2>1 DEF Tallied
<1>9. Chances'
  <2>1. ASSUME NEW q \in Senders, NEW p PROVE ToCome(q, p)' = ToCome(q, p)
    <3>1. CASE q = r
      BY <1>1, <3>1, ToComeThen DEF ToCome, PushedTo
    <3>2. CASE q # r
      BY <1>1, <3>2, ToComeThen
    <3> QED
      BY <3>1, <3>2
  <2> QED
    BY <1>1, <1>5, <2>1, ChanceKept DEF Chances
<1> QED
  BY <1>2, <1>3, <1>4, <1>6, <1>7, <1>8, <1>9

-----------------------------------------------------------------------------
\* A request that failed, or was given up: its file is put back, and what its push still
\* delivers, or has delivered without having been read, is among what was missed.
LEMMA GiveUpStep ==
  ASSUME SendingInv, NEW r \in Senders, GiveUp(r), sender[r].left # <<>>,
         UNCHANGED <<fresh, logged, delivered, gone, answered, asked>>,
         missed \subseteq missed', missed' \subseteq Sends,
         push[r] = "ok" => Target(r) \in missed',
         \/ orphans' = orphans
         \/ /\ push[r] = "going" /\ Target(r) \in missed'
            /\ orphans' = Bump(orphans, Target(r))
  PROVE  SendingInv'
<1> USE DEF SendingInv
<1> DEFINE f == sender[r].file
           p == Head(sender[r].left)
<1>1. /\ Target(r) = <<f, p>> /\ <<f, p>> \in Sends /\ p \in Peers /\ Within(sender[r].left, p)
      /\ f \in Files \cup {Own} /\ (f \in Files => HasFile(r, f))
  BY TargetIs, RequestFields
<1>2. /\ Becomes(r, "idle", Own, <<>>, <<>>, "none") /\ ended' \subseteq Senders
      /\ shares' \in Seq(Files)
      /\ \A g : Within(shares', g) <=> Within(shares, g) \/ (g = f /\ g \in Files)
      /\ NoRepeats(shares) /\ ~Within(shares, f) => NoRepeats(shares')
  BY GiveUpEffect
<1>3. /\ orphans' \in [Sends -> Nat]
      /\ \A s \in Sends : \/ orphans'[s] = orphans[s]
                          \/ /\ s = <<f, p>> /\ push[r] = "going" /\ s \in missed'
                             /\ orphans'[s] = orphans[s] + 1
  <2>1. orphans \in [Sends -> Nat]
    BY DEF SendingKinds
  <2>2. CASE orphans' = orphans
    BY <2>1, <2>2
  <2>3. CASE orphans' = Bump(orphans, Target(r)) /\ push[r] = "going" /\ Target(r) \in missed'
    <3>1. Target(r) \in Sends
      BY <1>1
    <3>2. Target(r) = <<f, p>>
      BY <1>1
    <3>3. /\ Bump(orphans, Target(r)) \in [Sends -> Nat]
          /\ \A s \in Sends : Bump(orphans, Target(r))[s]
               = IF s = Target(r) THEN orphans[s] + 1 ELSE orphans[s]
      BY <2>1, <3>1, Bumped
    <3> HIDE DEF f, p
    <3>4. ASSUME NEW s \in Sends, s # Target(r) PROVE orphans'[s] = orphans[s]
      BY <2>3, <3>3, <3>4
    <3>5. orphans'[Target(r)] = orphans[Target(r)] + 1
      BY <2>3, <3>1, <3>3
    <3> QED
      BY <2>3, <3>2, <3>3, <3>4, <3>5
  <2> QED
    BY <2>2, <2>3
<1> HIDE DEF f, p
<1>4. SendingKinds'
  BY <1>2, <1>3 DEF SendingKinds, Becomes
<1>5. Course'
  BY <1>2, CourseKept, EmptyHolds
<1>6. Served'
  <2>1. \A q : ~Within(<<>>, q)
    BY EmptyHolds
  <2> QED
    BY <1>2, <2>1, ServedKept DEF SendingKinds
<1>7. \A q \in Senders, g \in Files : HasFile(q, g)' <=> q # r /\ HasFile(q, g)
  BY <1>2, HasFileThen, SendingAssumption
<1>8. ~Within(shares, f)
  <2>1. CASE f \in Files
    BY <1>1, <2>1 DEF OnePlace
  <2>2. CASE f \notin Files
    BY <2>2, ElementOfSeq, LenProperties DEF SendingKinds, Within
  <2> QED
    BY <2>1, <2>2
<1>9. OnePlace'
  <2>1. NoRepeats(shares')
    BY <1>2, <1>8 DEF OnePlace
  <2>2. \A g \in Files : HasFile(r, g) <=> g = f
    BY DEF HasFile, f
  <2>3. ASSUME NEW g \in Files
        PROVE  /\ \A q, u \in Senders : HasFile(q, g)' /\ HasFile(u, g)' => q = u
               /\ Within(shares, g)' => \A q \in Senders : ~HasFile(q, g)'
               /\ (g \in fresh)' => ~Within(shares, g)' /\ \A q \in Senders : ~HasFile(q, g)'
               /\ (g \notin fresh \cup gone)' =>
                    \/ Within(shares, g)'
                    \/ \E q \in Senders : HasFile(q, g)'
                    \/ \E u \in Peers : (<<g, u>> \in answered)'
    BY <1>1, <1>2, <1>7, <2>2 DEF OnePlace
  <2> QED
    BY <2>1, <2>3 DEF OnePlace
<1>10. GivenUp'
  BY <1>3 DEF GivenUp, SendingKinds
<1>11. Tallied'
  <2>1. ASSUME NEW s \in Sends
        PROVE  /\ (logged[s] + Cardinality(Readers(s)) <= delivered[s])'
               /\ (s \notin missed)' => (logged[s] + Cardinality(Readers(s)) = delivered[s])'
    <3>1. Readers(s)' = Readers(s) \ {r}
      BY <1>2, ReadersThen
    <3>2. /\ IsFiniteSet(Readers(s)) /\ Cardinality(Readers(s)) \in Nat
          /\ logged[s] \in Nat /\ delivered[s] \in Nat
          /\ logged[s] + Cardinality(Readers(s)) <= delivered[s]
          /\ s \notin missed => logged[s] + Cardinality(Readers(s)) = delivered[s]
      BY ReadersCount DEF SendingKinds, Tallied
    <3>3. CASE r \in Readers(s)
      <4>1. Cardinality(Readers(s) \ {r}) = Cardinality(Readers(s)) - 1
        BY <3>2, <3>3, FS_RemoveElement
      <4>2. s \in missed'
        BY <3>3 DEF Readers
      <4> QED
        BY <3>1, <3>2, <4>1, <4>2
    <3>4. CASE r \notin Readers(s)
      <4>1. Readers(s)' = Readers(s)
        BY <3>1, <3>4
      <4> QED
        BY <3>2, <4>1
    <3> QED
      BY <3>3, <3>4
  <2> QED
    BY <2>1 DEF Tallied
<1>12. Chances'
  <2> SUFFICES ASSUME NEW g \in Files, NEW u \in Peers PROVE ChanceOf(g, u)'
    BY DEF Chances
  <2>1. /\ <<g, u>> \in Sends /\ ChanceOf(g, u)
        /\ delivered[<<g, u>>] \in Nat /\ orphans[<<g, u>>] \in Nat
        /\ asked[<<g, u>>] \in Nat
    BY ChanceNumbers
  <2>2. \A q \in Senders : q # r => ToCome(q, u)' = ToCome(q, u)
    BY <1>2, ToComeThen
  <2>3. CASE g = f
    <3>1. HasFile(r, g)
      BY <1>1, <2>3
    <3>2. \A q \in Senders : ~HasFile(q, g)'
      BY <1>7, <3>1 DEF OnePlace
    <3>3. /\ delivered[<<g, u>>] + orphans[<<g, u>>] <= asked[<<g, u>>]
          /\ delivered[<<g, u>>] + orphans[<<g, u>>] + ToCome(r, u) <= asked[<<g, u>>]
          /\ ToCome(r, u) \in Nat
      BY <2>1, <3>1, ToComeCounts DEF ChanceOf
    <3>4. delivered'[<<g, u>>] + orphans'[<<g, u>>] <= asked'[<<g, u>>]
      <4>1. CASE orphans'[<<g, u>>] = orphans[<<g, u>>]
        BY <3>3, <4>1
      <4>2. CASE /\ <<g, u>> = <<f, p>> /\ push[r] = "going"
                 /\ orphans'[<<g, u>>] = orphans[<<g, u>>] + 1
        <5>1. u = p
          BY <4>2
        <5>2. ToCome(r, u) > 0
          BY <4>2, <5>1, ToComeCounts DEF p
        <5> QED
          BY <2>1, <3>3, <4>2, <5>2
      <4> QED
        BY <1>3, <2>1, <4>1, <4>2
    <3> QED
      BY <3>2, <3>4 DEF ChanceOf
  <2>4. CASE g # f
    <3>1. orphans'[<<g, u>>] = orphans[<<g, u>>]
      BY <1>3, <2>1, <2>4
    <3> QED
      BY <1>7, <2>1, <2>2, <3>1, ChanceKept
  <2> QED
    BY <2>3, <2>4
<1> QED
  BY <1>4, <1>5, <1>6, <1>9, <1>10, <1>11, <1>12

\* Seek fails, the push fails, or the context ended.
LEMMA FailureStep ==
  ASSUME SendingInv, NEW r \in Senders, SeekFails(r) \/ PushFailed(r) \/ Abandon(r)
  PROVE  SendingInv'
<1>1. missed \subseteq Sends
  BY DEF SendingInv, SendingKinds
<1>2. CASE SeekFails(r)
  <2>1. /\ GiveUp(r) /\ sender[r].left # <<>> /\ sender[r].at = "next"
        /\ UNCHANGED <<orphans, fresh, logged, delivered, gone, answered, missed, asked>>
    BY <1>2 DEF SeekFails
  <2>2. push[r] = "none"
    BY <2>1 DEF SendingInv, Course
  <2> QED
    BY <1>1, <2>1, <2>2, GiveUpStep
<1>3. CASE PushFailed(r)
  <2>1. /\ GiveUp(r) /\ sender[r].at = "pushing" /\ push[r] = "failed"
        /\ UNCHANGED <<orphans, fresh, logged, delivered, gone, answered, missed, asked>>
    BY <1>3 DEF PushFailed
  <2>2. sender[r].left # <<>>
    BY <2>1 DEF SendingInv, Course
  <2> QED
    BY <1>1, <2>1, <2>2, GiveUpStep
<1>4. CASE Abandon(r)
  <2>1. /\ GiveUp(r) /\ sender[r].at = "pushing" /\ missed' = missed \cup {Target(r)}
        /\ orphans' = IF push[r] = "going" THEN Bump(orphans, Target(r)) ELSE orphans
        /\ UNCHANGED <<fresh, logged, delivered, gone, answered, asked>>
    BY <1>4 DEF Abandon
  <2>2. sender[r].left # <<>>
    BY <2>1 DEF SendingInv, Course
  <2>3. Target(r) \in Sends
    BY <2>2, TargetIs DEF SendingInv
  <2> QED
    BY <1>1, <2>1, <2>2, <2>3, GiveUpStep
<1> QED
  BY <1>2, <1>3, <1>4

-----------------------------------------------------------------------------
\* The result of a push: a delivery is one that is still to be read.
LEMMA PushEndsStep ==
  ASSUME SendingInv, NEW r \in Senders, NEW result \in {"ok", "failed"},
         NEW arrives \in BOOLEAN, PushEnds(r, result, arrives)
  PROVE  SendingInv'
<1> USE DEF SendingInv
<1> DEFINE f == sender[r].file
           p == Head(sender[r].left)
<1>1. /\ push[r] = "going" /\ push' = [push EXCEPT ![r] = result]
      /\ result = "ok" => arrives
      /\ delivered' = IF arrives THEN Bump(delivered, Target(r)) ELSE delivered
      /\ missed' = IF arrives /\ result = "failed" THEN missed \cup {Target(r)} ELSE missed
      /\ UNCHANGED <<shares, sender, ended, orphans, fresh, logged, gone, answered, asked>>
  BY DEF PushEnds
<1>2. sender[r].at = "pushing" /\ sender[r].left # <<>>
  BY <1>1 DEF Course
<1>3. /\ Target(r) = <<f, p>> /\ Target(r) \in Sends /\ p \in Peers
      /\ Within(sender[r].left, p) /\ (f \in Files => HasFile(r, f))
  BY <1>2, TargetIs, RequestFields
<1>4. Becomes(r, "pushing", f, sender[r].to, sender[r].left, result)
  BY <1>1, <1>2 DEF Becomes, SendingKinds
<1>5. /\ delivered' \in [Sends -> Nat]
      /\ \A s \in Sends : delivered'[s] =
           IF arrives /\ s = <<f, p>> THEN delivered[s] + 1 ELSE delivered[s]
  <2>1. Target(r) \in Sends /\ delivered \in [Sends -> Nat]
    BY <1>3 DEF SendingKinds
  <2>2. /\ Bump(delivered, Target(r)) \in [Sends -> Nat]
        /\ \A s \in Sends : Bump(delivered, Target(r))[s]
             = IF s = Target(r) THEN delivered[s] + 1 ELSE delivered[s]
    BY <2>1, Bumped
  <2>3. Target(r) = <<f, p>>
    BY <1>3
  <2> HIDE DEF f, p
  <2> QED
    BY <1>1, <2>1, <2>2, <2>3
<1>0. /\ missed' \subseteq Sends /\ missed \subseteq missed'
      /\ arrives /\ result = "failed" => <<f, p>> \in missed'
      /\ \A s : s \in missed' => s \in missed \/ (s = <<f, p>> /\ result = "failed")
  BY <1>1, <1>3 DEF SendingKinds
<1> HIDE DEF f, p
<1>6. SendingKinds'
  BY <1>0, <1>1, <1>4, <1>5 DEF SendingKinds, Becomes
<1>7. Course'
  BY <1>1, <1>2, <1>4, CourseKept DEF Course
<1>8. Served'
  <2>1. ASSUME NEW s \in Sends, delivered[s] > 0 PROVE delivered'[s] > 0
    <3>1. delivered[s] \in Nat
      BY DEF SendingKinds
    <3>2. delivered'[s] = delivered[s] \/ delivered'[s] = delivered[s] + 1
      BY <1>5
    <3> QED
      BY <2>1, <3>1, <3>2
  <2>2. answered \subseteq Sends /\ answered' = answered
    BY <1>1 DEF SendingKinds
  <2>3. \A u : Within(sender[r].to, u) =>
          \/ Within(sender[r].left, u)
          \/ <<f, u>> \in Sends /\ delivered'[<<f, u>>] > 0
    BY <2>1 DEF Served, f
  <2> QED
    BY <1>4, <2>1, <2>2, <2>3, ServedKept
<1>9. \A q \in Senders, g \in Files : HasFile(q, g)' <=> HasFile(q, g)
  BY <1>1 DEF HasFile
<1>10. OnePlace'
  BY <1>1, <1>9 DEF OnePlace
<1>11. GivenUp'
  BY <1>0, <1>1 DEF GivenUp
<1>12. Tallied'
  <2> SUFFICES ASSUME NEW s \in Sends
               PROVE  /\ (logged[s] + Cardinality(Readers(s)) <= delivered[s])'
                      /\ (s \notin missed)' =>
                           (logged[s] + Cardinality(Readers(s)) = delivered[s])'
    BY DEF Tallied
  <2>1. /\ IsFiniteSet(Readers(s)) /\ Cardinality(Readers(s)) \in Nat
        /\ logged[s] \in Nat /\ delivered[s] \in Nat
        /\ logged[s] + Cardinality(Readers(s)) <= delivered[s]
        /\ s \notin missed => logged[s] + Cardinality(Readers(s)) = delivered[s]
    BY ReadersCount DEF SendingKinds, Tallied
  <2>2. r \notin Readers(s)
    BY <1>1 DEF Readers
  <2>3. CASE result = "ok" /\ s = <<f, p>>
    <3>1. Readers(s)' = Readers(s) \cup {r}
      BY <1>4, <2>3, ReadersThen DEF p
    <3>2. Cardinality(Readers(s) \cup {r}) = Cardinality(Readers(s)) + 1
      BY <2>1, <2>2, FS_AddElement
    <3>3. delivered'[s] = delivered[s] + 1 /\ logged' = logged
      BY <1>1, <1>5, <2>3
    <3> QED
      BY <1>0, <2>1, <3>1, <3>2, <3>3
  <2>4. CASE ~(result = "ok" /\ s = <<f, p>>)
    <3>1. Readers(s)' = Readers(s)
      BY <1>4, <2>2, <2>4, ReadersThen DEF p
    <3>2. logged' = logged
      BY <1>1
    <3>3. CASE arrives /\ s = <<f, p>>
      <4>1. delivered'[s] = delivered[s] + 1 /\ s \in missed'
        BY <1>0, <1>5, <2>4, <3>3
      <4> QED
        BY <2>1, <3>1, <3>2, <4>1
    <3>4. CASE ~(arrives /\ s = <<f, p>>)
      <4>1. delivered'[s] = delivered[s]
        BY <1>5, <3>4
      <4> QED
        BY <1>0, <2>1, <3>1, <3>2, <4>1
    <3> QED
      BY <3>3, <3>4
  <2> QED
    BY <2>3, <2>4
<1>13. Chances'
  <2> SUFFICES ASSUME NEW g \in Files, NEW u \in Peers PROVE ChanceOf(g, u)'
    BY DEF Chances
  <2>1. /\ <<g, u>> \in Sends /\ ChanceOf(g, u)
        /\ delivered[<<g, u>>] \in Nat /\ orphans[<<g, u>>] \in Nat
        /\ asked[<<g, u>>] \in Nat
    BY ChanceNumbers
  <2>2. /\ ToCome(r, u)' = Times(sender[r].left, u) - (IF p = u THEN 1 ELSE 0)
        /\ \A q \in Senders : q # r => ToCome(q, u)' = ToCome(q, u)
    BY <1>4, ToComeThen DEF p
  <2>3. ToCome(r, u) = Times(sender[r].left, u) /\ ToCome(r, u) \in Nat
    <3>1. Times(sender[r].left, u) \in Nat
      BY RequestFields, TimesCount
    <3>2. ToCome(r, u) = Times(sender[r].left, u) - 0
      BY <1>1 DEF ToCome, PushedTo
    <3> QED
      BY <3>1, <3>2
  <2>4. p = u => ToCome(r, u) > 0
    BY <1>1, ToComeCounts DEF p
  <2>5. CASE g = f
    <3>1. HasFile(r, g) /\ \A q \in Senders : HasFile(q, g) => q = r
      BY <1>3, <2>5 DEF OnePlace
    <3>2. delivered[<<g, u>>] + orphans[<<g, u>>] + ToCome(r, u) <= asked[<<g, u>>]
      BY <2>1, <3>1 DEF ChanceOf
    <3>3. delivered'[<<g, u>>] = IF arrives /\ p = u THEN delivered[<<g, u>>] + 1
                                                     ELSE delivered[<<g, u>>]
      BY <1>5, <2>1, <2>5
    <3>4. PICK n : n = ToCome(r, u)' /\ n = ToCome(r, u) - (IF p = u THEN 1 ELSE 0)
      BY <2>2, <2>3
    <3>5. /\ delivered'[<<g, u>>] + orphans'[<<g, u>>] <= asked'[<<g, u>>]
          /\ delivered'[<<g, u>>] + orphans'[<<g, u>>] + n <= asked'[<<g, u>>]
      BY <1>1, <2>1, <2>3, <2>4, <3>2, <3>3, <3>4
    <3> QED
      BY <1>9, <3>1, <3>4, <3>5 DEF ChanceOf
  <2>6. CASE g # f
    <3>1. delivered'[<<g, u>>] = delivered[<<g, u>>]
      BY <1>5, <2>1, <2>6
    <3>2. \A q \in Senders : HasFile(q, g)' => HasFile(q, g) /\ q # r
      BY <1>9, <2>6 DEF HasFile, f
    <3> QED
      BY <1>1, <2>1, <2>2, <3>1, <3>2, ChanceKept
  <2> QED
    BY <2>5, <2>6
<1> QED
  BY <1>6, <1>7, <1>8, <1>10, <1>11, <1>12, <1>13

\* The result of a push nobody waits for.
LEMMA OrphanStep ==
  ASSUME SendingInv, NEW s \in Sends, NEW arrives \in BOOLEAN, OrphanEnds(s, arrives)
  PROVE  SendingInv'
<1> USE DEF SendingInv
<1>1. /\ orphans[s] > 0 /\ orphans' = [orphans EXCEPT ![s] = @ - 1]
      /\ delivered' = IF arrives THEN Bump(delivered, s) ELSE delivered
      /\ UNCHANGED <<shares, sender, push, ended, fresh, logged, gone, answered, missed,
                     asked>>
  BY DEF OrphanEnds
<1>2. /\ orphans' \in [Sends -> Nat]
      /\ \A t \in Sends : orphans'[t] = IF t = s THEN orphans[t] - 1 ELSE orphans[t]
  BY <1>1 DEF SendingKinds
<1>3. /\ delivered' \in [Sends -> Nat]
      /\ \A t \in Sends : \/ delivered'[t] = delivered[t]
                          \/ t = s /\ delivered'[t] = delivered[t] + 1
  <2>1. delivered \in [Sends -> Nat]
    BY DEF SendingKinds
  <2>2. /\ Bump(delivered, s) \in [Sends -> Nat]
        /\ \A t \in Sends : Bump(delivered, s)[t]
             = IF t = s THEN delivered[t] + 1 ELSE delivered[t]
    BY <2>1, Bumped
  <2> QED
    BY <1>1, <2>1, <2>2
<1>4. s \in missed
  BY <1>1 DEF GivenUp
<1>5. SendingKinds'
  BY <1>1, <1>2, <1>3 DEF SendingKinds
<1>6. Course'
  BY <1>1 DEF Course
<1>7. Served'
  <2>1. delivered \in [Sends -> Nat] /\ answered \subseteq Sends
    BY DEF SendingKinds
  <2>2. \A t \in Sends : delivered[t] > 0 => delivered'[t] > 0
    BY <1>3, <2>1
  <2> QED
    BY <1>1, <2>1, <2>2 DEF Served
<1>8. \A q \in Senders, g \in Files : HasFile(q, g)' <=> HasFile(q, g)
  BY <1>1 DEF HasFile
<1>9. OnePlace'
  BY <1>1, <1>8 DEF OnePlace
<1>10. GivenUp'
  BY <1>1, <1>2, <1>4 DEF GivenUp, SendingKinds
<1>11. Tallied'
  <2> SUFFICES ASSUME NEW t \in Sends
               PROVE  /\ (logged[t] + Cardinality(Readers(t)) <= delivered[t])'
                      /\ (t \notin missed)' =>
                           (logged[t] + Cardinality(Readers(t)) = delivered[t])'
    BY DEF Tallied
  <2>1. /\ Cardinality(Readers(t)) \in Nat /\ logged[t] \in Nat /\ delivered[t] \in Nat
        /\ logged[t] + Cardinality(Readers(t)) <= delivered[t]
        /\ t \notin missed => logged[t] + Cardinality(Readers(t)) = delivered[t]
    BY ReadersCount DEF SendingKinds, Tallied
  <2>2. Readers(t)' = Readers(t)
    BY <1>1 DEF Readers, Target
  <2> QED
    BY <1>1, <1>3, <1>4, <2>1, <2>2
<1>12. Chances'
  <2> SUFFICES ASSUME NEW g \in Files, NEW u \in Peers PROVE ChanceOf(g, u)'
    BY DEF Chances
  <2>1. /\ <<g, u>> \in Sends /\ ChanceOf(g, u)
        /\ delivered[<<g, u>>] \in Nat /\ orphans[<<g, u>>] \in Nat
        /\ asked[<<g, u>>] \in Nat
    BY ChanceNumbers
  <2>2. \A q : ToCome(q, u)' = ToCome(q, u)
    BY <1>1 DEF ToCome, PushedTo
  <2>3. delivered'[<<g, u>>] + orphans'[<<g, u>>]
          <= delivered[<<g, u>>] + orphans[<<g, u>>]
    BY <1>1, <1>2, <1>3, <2>1
  <2>4. delivered'[<<g, u>>] \in Nat /\ orphans'[<<g, u>>] \in Nat
    BY <1>2, <1>3, <2>1
  <2>5. \A q \in Senders : ToCome(q, u) \in Nat
    BY ToComeCounts
  <2> QED
    BY <1>1, <1>8, <2>1, <2>2, <2>3, <2>4, <2>5 DEF ChanceOf
<1> QED
  BY <1>5, <1>6, <1>7, <1>9, <1>10, <1>11, <1>12

\* sendOne reads the result: the delivery is logged.
LEMMA PushedStep ==
  ASSUME SendingInv, NEW r \in Senders, Pushed(r) PROVE SendingInv'
<1> USE DEF SendingInv
<1> DEFINE f == sender[r].file
           p == Head(sender[r].left)
           rest == Tail(sender[r].left)
<1>1. /\ sender[r].at = "pushing" /\ push[r] = "ok" /\ logged' = Bump(logged, Target(r))
      /\ UNCHANGED <<shares, ended, orphans, fresh, delivered, gone, answered, missed, asked>>
  BY DEF Pushed
<1>2. sender[r].left # <<>>
  BY <1>1 DEF Course
<1>3. /\ Target(r) = <<f, p>> /\ Target(r) \in Sends /\ p \in Peers
      /\ (f \in Files => HasFile(r, f))
  BY <1>2, TargetIs, RequestFields
<1>4. Becomes(r, "next", f, sender[r].to, rest, "none")
  BY <1>2, PushedEffect
<1>5. \A u : Within(sender[r].left, u) <=> u = p \/ Within(rest, u)
  BY <1>2, RequestFields, HeadAndTail
<1>6. /\ logged' \in [Sends -> Nat]
      /\ \A s \in Sends : logged'[s] = IF s = Target(r) THEN logged[s] + 1 ELSE logged[s]
  <2>1. Target(r) \in Sends /\ logged \in [Sends -> Nat]
    BY <1>3 DEF SendingKinds
  <2>2. /\ Bump(logged, Target(r)) \in [Sends -> Nat]
        /\ \A s \in Sends : Bump(logged, Target(r))[s]
             = IF s = Target(r) THEN logged[s] + 1 ELSE logged[s]
    BY <2>1, Bumped
  <2> QED
    BY <1>1, <2>2
<1> HIDE DEF f, p, rest
<1>7. SendingKinds'
  BY <1>1, <1>4, <1>6 DEF SendingKinds, Becomes
<1>8. Course'
  <2>1. sender[r].to # <<>>
    BY <1>1 DEF Course
  <2> QED
    BY <1>4, <2>1, CourseKept
<1>9. /\ r \in Readers(Target(r))
      /\ \A s : r \in Readers(s) => s = Target(r)
  BY <1>1 DEF Readers
<1>10. delivered[Target(r)] > 0
  <2>1. /\ IsFiniteSet(Readers(Target(r))) /\ Cardinality(Readers(Target(r))) \in Nat
        /\ logged[Target(r)] + Cardinality(Readers(Target(r))) <= delivered[Target(r)]
        /\ logged[Target(r)] \in Nat /\ delivered[Target(r)] \in Nat
    BY <1>3, ReadersCount DEF Tallied, SendingKinds
  <2>2. Cardinality(Readers(Target(r))) # 0
    BY <1>9, <2>1, FS_EmptySet
  <2> QED
    BY <2>1, <2>2
<1>11. Served'
  <2>1. \A u : Within(sender[r].to, u) =>
          \/ Within(rest, u)
          \/ <<f, u>> \in Sends /\ delivered'[<<f, u>>] > 0
    <3>1. <<f, p>> \in Sends /\ delivered'[<<f, p>>] > 0
      BY <1>1, <1>3, <1>10
    <3>2. \A u : Within(sender[r].to, u) =>
            Within(sender[r].left, u) \/ (<<f, u>> \in Sends /\ delivered[<<f, u>>] > 0)
      BY DEF Served, f
    <3> QED
      BY <1>1, <1>5, <3>1, <3>2
  <2>2. answered \subseteq Sends
    BY DEF SendingKinds
  <2> QED
    BY <1>1, <1>4, <2>1, <2>2, ServedKept
<1>12. \A q \in Senders, g \in Files : HasFile(q, g)' <=> HasFile(q, g)
  BY <1>4, HasFileThen DEF HasFile, f
<1>13. OnePlace'
  BY <1>1, <1>12 DEF OnePlace
<1>14. GivenUp'
  BY <1>1 DEF GivenUp
<1>15. Tallied'
  <2> SUFFICES ASSUME NEW s \in Sends
               PROVE  /\ (logged[s] + Cardinality(Readers(s)) <= delivered[s])'
                      /\ (s \notin missed)' =>
                           (logged[s] + Cardinality(Readers(s)) = delivered[s])'
    BY DEF Tallied
  <2>1. /\ IsFiniteSet(Readers(s)) /\ Cardinality(Readers(s)) \in Nat
        /\ logged[s] \in Nat /\ delivered[s] \in Nat
        /\ logged[s] + Cardinality(Readers(s)) <= delivered[s]
        /\ s \notin missed => logged[s] + Cardinality(Readers(s)) = delivered[s]
    BY ReadersCount DEF SendingKinds, Tallied
  <2>2. Readers(s)' = Readers(s) \ {r}
    BY <1>4, ReadersThen
  <2>3. Cardinality(Readers(s) \ {r})
          = IF s = Target(r) THEN Cardinality(Readers(s)) - 1 ELSE Cardinality(Readers(s))
    BY <1>9, <2>1, FS_RemoveElement
  <2> QED
    BY <1>1, <1>6, <2>1, <2>2, <2>3
<1>16. Chances'
  <2>1. ASSUME NEW u PROVE ToCome(r, u)' = ToCome(r, u)
    <3>1. Times(sender[r].left, u) = Times(rest, u) + (IF p = u THEN 1 ELSE 0)
      BY <1>2, RequestFields, TimesTail DEF p, rest
    <3>2. rest \in Seq(Peers)
      BY <1>2, RequestFields, HeadAndTail DEF rest
    <3>3. Times(rest, u) \in Nat
      BY <3>2, TimesCount
    <3>4. ToCome(r, u) = Times(sender[r].left, u) - (IF p = u THEN 1 ELSE 0)
      BY <1>1 DEF ToCome, PushedTo, p
    <3>5. ToCome(r, u)' = Times(rest, u) - 0
      BY <1>4, ToComeThen
    <3> QED
      BY <3>1, <3>3, <3>4, <3>5
  <2>2. \A u : \A q \in Senders : q # r => ToCome(q, u)' = ToCome(q, u)
    BY <1>4, ToComeThen
  <2> QED
    BY <1>1, <1>12, <2>1, <2>2, ChanceKept DEF Chances
<1> QED
  BY <1>7, <1>8, <1>11, <1>13, <1>14, <1>15, <1>16

\* The request is answered: all of its peers have the file.
LEMMA AnswerStep ==
  ASSUME SendingInv, NEW r \in Senders, AnswerSent(r) PROVE SendingInv'
<1> USE DEF SendingInv
<1> DEFINE f == sender[r].file
           to == sender[r].to
<1>1. /\ sender[r].at = "next" /\ sender[r].left = <<>>
      /\ answered' = answered \cup ({f} \X ToSet(to)) /\ Leave(r)
      /\ UNCHANGED <<shares, orphans, fresh, logged, delivered, gone, missed, asked, spent>>
  BY DEF AnswerSent
<1>2. Becomes(r, "idle", Own, <<>>, <<>>, "none") /\ ended' \subseteq Senders
  BY <1>1, LeaveEffect
<1>3. /\ to \in Seq(Peers) /\ to # <<>> /\ f \in Files \cup {Own} /\ push[r] = "none"
      /\ (f \in Files => HasFile(r, f))
  BY <1>1, RequestFields DEF Course
<1>4. ToSet(to) \subseteq Peers /\ ToSet(to) # {} /\ \A u : u \in ToSet(to) <=> Within(to, u)
  <2> HIDE DEF to
  <2>1. DOMAIN to = 1..Len(to) /\ \A i \in 1..Len(to) : to[i] \in Peers
    BY <1>3, LenProperties, ElementOfSeq
  <2>2. 1 \in 1..Len(to)
    <3>1. Len(to) \in Nat \ {0}
      BY <1>3, EmptySeq
    <3> QED
      BY <3>1
  <2>3. ToSet(to) \subseteq Peers /\ to[1] \in ToSet(to)
    BY <2>1, <2>2 DEF ToSet
  <2>4. \A u : u \in ToSet(to) <=> Within(to, u)
    BY DEF ToSet, Within
  <2> QED
    BY <2>3, <2>4
<1>5. \A u \in ToSet(to) : <<f, u>> \in Sends /\ delivered[<<f, u>>] > 0
  BY <1>1, <1>4, EmptyHolds DEF Served
<1> HIDE DEF f, to
<1>6. SendingKinds'
  <2>1. answered' \subseteq Sends
    BY <1>1, <1>5 DEF SendingKinds
  <2> QED
    BY <1>1, <1>2, <2>1 DEF SendingKinds, Becomes
<1>7. Course'
  BY <1>2, CourseKept, EmptyHolds
<1>8. Served'
  <2>1. \A u : ~Within(<<>>, u)
    BY EmptyHolds
  <2>2. \A s \in answered' : s \in answered \/ delivered'[s] > 0
    BY <1>1, <1>5
  <2>3. \A s \in Sends : delivered[s] > 0 => delivered'[s] > 0
    BY <1>1
  <2>4. answered \subseteq Sends
    BY DEF SendingKinds
  <2> QED
    BY <1>2, <2>1, <2>2, <2>3, <2>4, ServedKept
<1>9. \A q \in Senders, g \in Files : HasFile(q, g)' <=> q # r /\ HasFile(q, g)
  BY <1>2, HasFileThen, SendingAssumption
<1>10. OnePlace'
  <2>1. NoRepeats(shares')
    BY <1>1 DEF OnePlace
  <2>2. \A g \in Files : HasFile(r, g) <=> g = f
    BY DEF HasFile, f
  <2>3. f \in Files => \E u \in Peers : <<f, u>> \in answered'
    BY <1>1, <1>4
  <2>4. ASSUME NEW g \in Files
        PROVE  /\ \A q, u \in Senders : HasFile(q, g)' /\ HasFile(u, g)' => q = u
               /\ Within(shares, g)' => \A q \in Senders : ~HasFile(q, g)'
               /\ (g \in fresh)' => ~Within(shares, g)' /\ \A q \in Senders : ~HasFile(q, g)'
    BY <1>1, <1>9 DEF OnePlace
  <2>5. ASSUME NEW g \in Files, (g \notin fresh \cup gone)'
        PROVE  \/ Within(shares, g)'
               \/ \E q \in Senders : HasFile(q, g)'
               \/ \E u \in Peers : (<<g, u>> \in answered)'
    <3>1. \/ Within(shares, g)
          \/ \E q \in Senders : HasFile(q, g)
          \/ \E u \in Peers : <<g, u>> \in answered
      BY <1>1, <2>5 DEF OnePlace
    <3> QED
      BY <1>1, <1>9, <2>2, <2>3, <3>1
  <2> QED
    BY <2>1, <2>4, <2>5 DEF OnePlace
<1>11. GivenUp'
  BY <1>1 DEF GivenUp
<1>12. Tallied'
  <2>1. \A s : Readers(s)' = Readers(s)
    BY <1>1, <1>2, ReadersKept
  <2> QED
    BY <1>1, <2>1 DEF Tallied
<1>13. Chances'
  <2>1. \A u : \A q \in Senders : q # r => ToCome(q, u)' = ToCome(q, u)
    BY <1>2, ToComeThen
  <2> QED
    BY <1>1, <1>9, <2>1, ChanceKept DEF Chances
<1> QED
  BY <1>6, <1>7, <1>8, <1>10, <1>11, <1>12, <1>13

\* A request's context ends: nothing else changes.
LEMMA NothingElseStep ==
  ASSUME SendingInv, ended' \subseteq Senders,
         UNCHANGED <<shares, sender, push, orphans, fresh, logged, delivered, gone, answered,
                     missed, asked>>
  PROVE  SendingInv'
<1> USE DEF SendingInv
<1>1. \A q, g : HasFile(q, g)' <=> HasFile(q, g)
  BY DEF HasFile
<1>2. SendingKinds' /\ Course' /\ Served' /\ GivenUp'
  BY DEF SendingKinds, Course, Served, GivenUp
<1>3. OnePlace'
  BY <1>1 DEF OnePlace
<1>4. Tallied'
  BY DEF Tallied, Readers, Target
<1>5. Chances'
  <2>1. \A q, u : ToCome(q, u)' = ToCome(q, u)
    BY DEF ToCome, PushedTo
  <2> QED
    BY <1>1, <2>1, ChanceKept DEF Chances
<1> QED
  BY <1>2, <1>3, <1>4, <1>5

\* A request that sends: a shared file to a list of peers, or its own.
LEMMA BeginStep ==
  ASSUME SendingInv, NEW r \in Senders
  PROVE  /\ \A p \in Peers : HandleSend(r, p) \/ QuickSend(r, p) => SendingInv'
         /\ \A ps \in PeerLists : SendFile(r, ps) => SendingInv'
         /\ \A ps \in PeerLists, f \in Files : TakeShare(r, f, ps) => SendingInv'
<1>1. \A ps \in PeerLists : SomePeers(ps)
  BY SendingAssumption DEF SomePeers
<1>2. \A p \in Peers : SomePeers(<<p>>)
  BY DEF SomePeers
<1>3. ASSUME NEW ps, SomePeers(ps), SendOwn(r, ps) PROVE SendingInv'
  <2>1. Begin(r, Own, ps) /\ shares' = shares /\ gone' = gone /\ Own \in Files \cup {Own}
    BY <1>3 DEF SendOwn
  <2> QED
    BY <1>3, <2>1, AskStep
<1>4. ASSUME NEW ps \in PeerLists, NEW f \in Files, TakeShare(r, f, ps) PROVE SendingInv'
  <2>1. Begin(r, f, ps) /\ TakeFirst(f) /\ gone' = gone /\ f \in Files \cup {Own}
    BY <1>4 DEF TakeShare
  <2> QED
    BY <1>1, <2>1, AskStep
<1> QED
  BY <1>1, <1>2, <1>3, <1>4 DEF HandleSend, QuickSend, SendFile

-----------------------------------------------------------------------------
\* The invariant, over the whole specification.
THEOREM SendingInvariant == SendingSpec => []SendingInv
<1>1. SendingInit => SendingInv
  <2> SUFFICES ASSUME SendingInit PROVE SendingInv
    OBVIOUS
  <2>1. /\ shares = <<>> /\ sender = [r \in Senders |-> NoSender]
        /\ push = [r \in Senders |-> "none"] /\ ended = {} /\ fresh = Files
        /\ orphans = [s \in Sends |-> 0] /\ logged = [s \in Sends |-> 0]
        /\ delivered = [s \in Sends |-> 0] /\ asked = [s \in Sends |-> 0]
        /\ gone = {} /\ answered = {} /\ missed = {}
    BY DEF SendingInit
  <2>2. /\ \A r \in Senders : sender[r] = NoSender /\ push[r] = "none"
        /\ \A s \in Sends :
             orphans[s] = 0 /\ logged[s] = 0 /\ delivered[s] = 0 /\ asked[s] = 0
    BY <2>1
  <2>3. SendingKinds
    BY <2>1, NoSenderIs, EmptyHolds DEF SendingKinds
  <2>4. Course /\ Served
    BY <2>1, <2>2, NoSenderIs, EmptyHolds DEF Course, Served
  <2>5. \A r \in Senders, f \in Files : ~HasFile(r, f)
    BY <2>2, NoSenderIs, SendingAssumption DEF HasFile
  <2>6. OnePlace
    BY <2>1, <2>5, EmptyHolds DEF OnePlace
  <2>7. GivenUp
    BY <2>2 DEF GivenUp
  <2>8. Tallied
    <3>1. \A s : Readers(s) = {}
      BY <2>2 DEF Readers
    <3> QED
      BY <2>2, <3>1, FS_EmptySet DEF Tallied
  <2>9. Chances
    <3>1. ASSUME NEW f \in Files, NEW p \in Peers
          PROVE  delivered[<<f, p>>] = 0 /\ orphans[<<f, p>>] = 0 /\ asked[<<f, p>>] = 0
      BY <2>2 DEF Sends
    <3>2. ASSUME NEW f \in Files, NEW p \in Peers
          PROVE  delivered[<<f, p>>] + orphans[<<f, p>>] <= asked[<<f, p>>]
      <4>1. delivered[<<f, p>>] = 0 /\ orphans[<<f, p>>] = 0 /\ asked[<<f, p>>] = 0
        BY <3>1
      <4> QED
        BY <4>1
    <3> QED
      BY <2>5, <3>2 DEF Chances, ChanceOf
  <2> QED
    BY <2>3, <2>4, <2>6, <2>7, <2>8, <2>9 DEF SendingInv
<1>2. SendingInv /\ [SendingNext]_sendingVars => SendingInv'
  <2> SUFFICES ASSUME SendingInv, [SendingNext]_sendingVars PROVE SendingInv'
    OBVIOUS
  <2>1. ASSUME NEW r \in Senders, ContextEnds(r) PROVE SendingInv'
    BY <2>1, NothingElseStep DEF ContextEnds, SendingInv, SendingKinds
  <2>2. CASE UNCHANGED sendingVars
    BY <2>2, NothingElseStep DEF sendingVars, SendingInv, SendingKinds
  <2>3. ASSUME NEW r \in Senders, SenderStep(r) PROVE SendingInv'
    BY <2>3, StartStep, FailureStep, PushedStep, AnswerStep DEF SenderStep
  <2>4. ASSUME NEW r \in Senders,
               \/ \E p \in Peers : HandleSend(r, p) \/ QuickSend(r, p)
               \/ \E ps \in PeerLists :
                    SendFile(r, ps) \/ \E f \in Files : TakeShare(r, f, ps) \/ OpenFails(r, f, ps)
               \/ SenderStep(r) \/ ContextEnds(r)
               \/ \E result \in {"ok", "failed"} :
                    \E arrives \in BOOLEAN : PushEnds(r, result, arrives)
        PROVE  SendingInv'
    BY <2>1, <2>3, <2>4, BeginStep, OpenFailsStep, PushEndsStep
  <2> QED
    BY <2>2, <2>4, EnqueueStep, ClearStep, OrphanStep DEF SendingNext
<1> QED
  BY <1>1, <1>2, PTL DEF SendingSpec

\* enqueueShare, takeShare, handleShareSend: a shared file is in the queue or with one
\* request until its peers have it, the user cleared it or it cannot be opened.
THEOREM SharesKept == SendingSpec => []NoShareLost
<1>1. ASSUME SendingInv PROVE NoShareLost
  <2> USE <1>1 DEF SendingInv
  <2> SUFFICES ASSUME NEW f \in Files
               PROVE  /\ Copies(f) <= 1
                      /\ f \notin fresh \cup gone =>
                           Copies(f) = 1 \/ \E p \in Peers : <<f, p>> \in answered
    BY DEF NoShareLost
  <2>1. Cardinality({i \in DOMAIN shares : shares[i] = f}) = IF Within(shares, f) THEN 1 ELSE 0
    BY CountedOnce DEF OnePlace
  <2>2. \A r : r \in Holders(f) <=> r \in Senders /\ HasFile(r, f)
    BY DEF Holders, HasFile
  <2>3. CASE \E r \in Senders : HasFile(r, f)
    <3>1. PICK r \in Senders : HasFile(r, f)
      BY <2>3
    <3>2. Holders(f) = {r} /\ ~Within(shares, f)
      BY <2>2, <3>1 DEF OnePlace
    <3>3. Cardinality(Holders(f)) = 1
      BY <3>2, FS_Singleton
    <3>4. Copies(f) = 1
      BY <2>1, <3>2, <3>3 DEF Copies
    <3> QED
      BY <3>4
  <2>4. CASE ~\E r \in Senders : HasFile(r, f)
    <3>1. Holders(f) = {}
      BY <2>2, <2>4
    <3>2. Copies(f) = IF Within(shares, f) THEN 1 ELSE 0
      BY <2>1, <3>1, FS_EmptySet DEF Copies
    <3> QED
      BY <2>4, <3>2 DEF OnePlace
  <2> QED
    BY <2>3, <2>4
<1> QED
  BY <1>1, SendingInvariant, PTL

\* sendOne and its callers: "sent" is logged of what arrived, and of all that arrived but
\* for requests that were given up; who was answered "ok" has reached all peers; a peer
\* gets a shared file no more often than requests named the two.
THEOREM SendsAddUp == SendingSpec => []SendsAccounted
<1>1. ASSUME SendingInv PROVE SendsAccounted
  <2> USE <1>1 DEF SendingInv
  <2>1. \A s : Unread(s) = Cardinality(Readers(s))
    BY DEF Unread, Readers
  <2>2. ASSUME NEW s \in Files \X Peers PROVE delivered[s] + orphans[s] <= asked[s]
    <3>1. PICK f \in Files, p \in Peers : s = <<f, p>>
      OBVIOUS
    <3> QED
      BY <3>1 DEF Chances, ChanceOf
  <2> QED
    BY <2>1, <2>2 DEF SendsAccounted, Tallied, Served
<1> QED
  BY <1>1, SendingInvariant, PTL

-----------------------------------------------------------------------------
(*****************************************************************************)
(* The run of MCParts, where one part moves and the others stay.             *)
(*****************************************************************************)

\* Its specification is one of every part: what holds of a part holds there.
THEOREM PartsAreTheParts ==
  PartsSpec => /\ LimiterSpec /\ ConfigSpec /\ SendingSpec
               /\ ListenerSpec /\ TelemetrySpec /\ UpdatesSpec
<1> DEFINE partsVars == <<part, limiterVars, configVars, sendingVars, listenerVars,
                          telemetryVars, updatesVars>>
<1>1. PartsInit => /\ LimiterInit /\ ConfigInit /\ SendingInit
                   /\ ListenerInit /\ TelemetryInit /\ UpdatesInit
  BY DEF PartsInit
<1>2. [PartsNext]_partsVars =>
        /\ [LimiterNext]_limiterVars /\ [ConfigNext]_configVars /\ [SendingNext]_sendingVars
        /\ [ListenerNext]_listenerVars /\ [TelemetryNext]_telemetryVars
        /\ [UpdatesNext]_updatesVars
  BY DEF PartsNext
<1> QED
  BY <1>1, <1>2, PTL
     DEF PartsSpec, LimiterSpec, ConfigSpec, SendingSpec, ListenerSpec, TelemetrySpec, UpdatesSpec

\* sendOne: a request has a push exactly while it waits for one.
THEOREM SendingTypes == SendingSpec => []SendingTypeOK
<1>1. SendingInv => SendingTypeOK
  BY RequestFields DEF SendingInv, SendingKinds, Course, SendingTypeOK
<1> QED
  BY <1>1, SendingInvariant, PTL

\* event, flush: every variable keeps its type.
THEOREM TelemetryTypes == TelemetrySpec => []TelemetryTypeOK
<1>1. TelemetryInv => TelemetryTypeOK
  BY DEF TelemetryInv
<1> QED
  BY <1>1, TelemetryInvariant, PTL

\* Every variable of every part keeps its type, and a server that runs has a session token.
THEOREM PartsTypes == PartsSpec => []PartsTypeOK
<1>1. LimiterTypeOK /\ ConfigTypeOK /\ SendingTypeOK /\ ListenerTypeOK /\ TelemetryTypeOK
        /\ UpdatesTypeOK => PartsTypeOK
  BY DEF PartsTypeOK
<1> QED
  BY <1>1, PartsAreTheParts, LimiterTypes, SettingsTypes, SendingTypes, ListenerTypes,
     TelemetryTypes, UpdatesTypes, PTL
=============================================================================
