------------------------- MODULE ServeConfigProofs -------------------------
(***************************************************************************)
(* The serve cache, and what the toggles write, for any number of callers, *)
(* of changes by other tools and of failures.                              *)
(*                                                                         *)
(* A config that is on its way when a write ends would be stale; get and   *)
(* set keep m.mu while they wait for the daemon, and invalidate takes it.  *)
(* So the invariant is that only the one who holds m.mu has an answer on   *)
(* its way, and none is late.  What a toggle turns on it writes from an    *)
(* object of its own; what it turns off, from one that others may share,   *)
(* but all that they do to it is to turn something off.                    *)
(***************************************************************************)
EXTENDS ServeConfig, FiniteSetTheorems, TLAPS

Waiting == {"asked", "etagAsked"}
Places == Waiting \cup {"idle", "get", "got", "built", "panicked", "put", "written", "failed",
                        "handled"}

\* The fields of an object, whatever its identity.
IsObject(o) == o = [id |-> o.id, val |-> o.val, late |-> o.late]

Shapes ==
  /\ pc \in [Callers -> Places]
  /\ IsObject(cache)
  /\ DOMAIN reply = Callers
  /\ \A c \in Callers : IsObject(reply[c])

OneAsks == \A c \in Callers : pc[c] \in Waiting => mu = c

NoneLate == \A c \in Callers : ~reply[c].late /\ (reply[c] # NoObject => pc[c] \in Waiting)

Inv == Shapes /\ OneAsks /\ NoneLate /\ CacheCoversWrites

-----------------------------------------------------------------------------
\* An object made or edited has the fields of one, and its lateness.
LEMMA Objects ==
  /\ \A id, v : IsObject(Object(id, v)) /\ Object(id, v).late = FALSE
  /\ \A o, v : IsObject(o) => IsObject([o EXCEPT !.val = v]) /\ [o EXCEPT !.val = v].late = o.late
  /\ IsObject(NoObject) /\ NoObject.late = FALSE
BY DEF IsObject, Object, NoObject

\* A step of one caller, or of another tool.
LEMMA Step ==
  ASSUME Inv, [Next]_vars PROVE Inv'
<1> USE DEF Inv, Shapes, OneAsks, NoneLate, CacheCoversWrites, Places, Waiting, Goto, At
<1>1. ASSUME NEW c \in Callers, NEW w \in Wants, Begin(c, w) PROVE Inv'
  BY <1>1 DEF Begin
<1>2. ASSUME NEW c \in Callers, GetCached(c) \/ GetFails(c) PROVE Inv'
  BY <1>2 DEF GetCached, GetFails, Asks
<1>3. ASSUME NEW c \in Callers, GetAsk(c) PROVE Inv'
  BY <1>3, Objects, ServeAssumption DEF GetAsk, Asks
<1>4. ASSUME NEW c \in Callers, GetAnswer(c) PROVE Inv'
  BY <1>4, Objects DEF GetAnswer
<1>5. ASSUME NEW c \in Callers, ReadState(c) \/ Nameless(c) \/ Refuse(c) \/ Recover(c) PROVE Inv'
  BY <1>5 DEF ReadState, Nameless, Refuse, Recover, Return
<1>6. ASSUME NEW c \in Callers, BuildOn(c) PROVE Inv'
  BY <1>6 DEF BuildOn
<1>7. ASSUME NEW c \in Callers, BuildOff(c) PROVE Inv'
  <2>1. PICK v : cache' = IF cache.id = held[c].id THEN [cache EXCEPT !.val = v] ELSE cache
    BY <1>7 DEF BuildOff
  <2>2. IsObject(cache') /\ cache'.late = cache.late
    BY <2>1, Objects
  <2>3. pc' = [pc EXCEPT ![c] = "built"] /\ UNCHANGED <<mu, reply>> /\ pc[c] = "got"
    BY <1>7 DEF BuildOff
  <2> QED
    BY <2>2, <2>3
<1>8. ASSUME NEW c \in Callers, BuildOffPanics(c) PROVE Inv'
  BY <1>8, Objects DEF BuildOffPanics, EditHeld
<1>9. ASSUME NEW c \in Callers, EtagAsk(c) PROVE Inv'
  BY <1>9, Objects, ServeAssumption DEF EtagAsk
<1>10. ASSUME NEW c \in Callers, EtagAnswer(c) PROVE Inv'
  BY <1>10, Objects DEF EtagAnswer
<1>11. ASSUME NEW c \in Callers, EtagFails(c) PROVE Inv'
  BY <1>11, Objects DEF EtagFails, Return
<1>12. ASSUME NEW c \in Callers, Put(c) \/ PutFails(c) PROVE Inv'
  BY <1>12 DEF Put, PutFails, Sent
\* m.mu is free: nobody has an answer on its way that would be late.
<1>13. ASSUME NEW c \in Callers, Invalidate(c) PROVE Inv'
  <2>1. mu = Nobody /\ \A d \in Callers : pc[d] \notin Waiting /\ reply[d] = NoObject
    BY <1>13, ServeAssumption DEF Invalidate
  <2>2. reply' = [d \in Callers |-> NoObject]
    BY <1>13, <2>1 DEF Invalidate
  <2>3. pc' \in [Callers -> Places] /\ \A d \in Callers : pc'[d] \notin Waiting
    BY <1>13, <2>1 DEF Invalidate, Return
  <2> QED
    BY <1>13, <2>2, <2>3, Objects DEF Invalidate
<1>14. CASE Foreign
  BY <1>14 DEF Foreign
<1>15. CASE UNCHANGED vars
  BY <1>15 DEF vars
<1> QED
  BY <1>1, <1>2, <1>3, <1>4, <1>5, <1>6, <1>7, <1>8, <1>9, <1>10, <1>11, <1>12, <1>13, <1>14,
     <1>15 DEF Next, Caller

LEMMA Initially == Init => Inv
BY Objects DEF Init, Inv, Shapes, OneAsks, NoneLate, CacheCoversWrites, Places, Waiting

\* The invariant, over the whole specification.
THEOREM Inductive == Spec => []Inv
BY Initially, Step, PTL DEF Spec

\* invalidate and get: what was fetched before a write ended is not served from the cache.
THEOREM CacheCovers == Spec => []CacheCoversWrites
<1>1. Inv => CacheCoversWrites
  BY DEF Inv
<1> QED
  BY Inductive, <1>1, PTL

-----------------------------------------------------------------------------
(***************************************************************************)
(* The types of the variables.  The identity of a new object is chosen     *)
(* among those no object has: there is always one, as a caller holds at    *)
(* most two objects and the cache one more.                                *)
(***************************************************************************)
ObjectsOf == [id : Nat, val : Config, late : BOOLEAN]

\* The ids in use by a set of objects.
Ids(f) == {f[c].id : c \in Callers}

\* Callers have no more ids than there are callers.
LEMMA FewIds ==
  ASSUME NEW f
  PROVE  IsFiniteSet(Ids(f)) /\ Cardinality(Ids(f)) <= Cardinality(Callers)
<1> DEFINE g == [c \in Callers |-> f[c].id]
<1>1. g \in Surjection(Callers, Ids(f))
  BY DEF Surjection, Ids
<1> HIDE DEF g
<1> QED
  BY <1>1, FS_Surjection, ServeAssumption

\* NewId: there is an id that nobody uses.
LEMMA FreshId ==
  /\ NewId \in Nat \ {0}
  /\ cache.id # NewId /\ \A c \in Callers : held[c].id # NewId /\ reply[c].id # NewId
<1> DEFINE N == 2 * Cardinality(Callers) + 2
           inUse == Ids(held) \cup Ids(reply) \cup {cache.id}
<1>1. Cardinality(Callers) \in Nat
  BY FS_CardinalityType, ServeAssumption
<1>2. IsFiniteSet(inUse) /\ Cardinality(inUse) <= 2 * Cardinality(Callers) + 1
  <2>1. /\ IsFiniteSet(Ids(held)) /\ Cardinality(Ids(held)) <= Cardinality(Callers)
        /\ IsFiniteSet(Ids(reply)) /\ Cardinality(Ids(reply)) <= Cardinality(Callers)
    BY FewIds
  <2>2. /\ IsFiniteSet(Ids(held) \cup Ids(reply))
        /\ Cardinality(Ids(held) \cup Ids(reply)) <= 2 * Cardinality(Callers)
    <3>1. /\ IsFiniteSet(Ids(held) \cup Ids(reply))
          /\ Cardinality(Ids(held) \cup Ids(reply))
               = Cardinality(Ids(held)) + Cardinality(Ids(reply))
                 - Cardinality(Ids(held) \cap Ids(reply))
      BY <2>1, FS_Union
    <3>2. Cardinality(Ids(held) \cap Ids(reply)) \in Nat
      BY <2>1, FS_Intersection, FS_CardinalityType
    <3>3. Cardinality(Ids(held)) \in Nat /\ Cardinality(Ids(reply)) \in Nat
      BY <2>1, FS_CardinalityType
    <3> QED
      BY <1>1, <2>1, <3>1, <3>2, <3>3
  <2>3. Cardinality(Ids(held) \cup Ids(reply)) \in Nat
    BY <2>2, FS_CardinalityType
  <2>4. /\ IsFiniteSet(inUse)
        /\ Cardinality(inUse) = IF cache.id \in Ids(held) \cup Ids(reply)
                                THEN Cardinality(Ids(held) \cup Ids(reply))
                                ELSE Cardinality(Ids(held) \cup Ids(reply)) + 1
    BY <2>2, FS_AddElement
  <2> QED
    BY <1>1, <2>2, <2>3, <2>4
<1>3. \E i \in 1..N : i \notin inUse
  <2>1. SUFFICES ASSUME 1..N \subseteq inUse PROVE FALSE
    OBVIOUS
  <2>2. N \in Nat /\ N >= 1
    BY <1>1
  <2>3. Cardinality(1..N) = N
    BY <2>2, FS_Interval
  <2>4. Cardinality(1..N) <= Cardinality(inUse)
    BY <1>2, <2>1, FS_Subset
  <2>5. Cardinality(inUse) \in Nat
    BY <1>2, FS_CardinalityType
  <2> QED
    BY <1>1, <1>2, <2>3, <2>4, <2>5
<1>4. \E i \in 1..N : cache.id # i /\ \A c \in Callers : held[c].id # i /\ reply[c].id # i
  BY <1>3 DEF Ids
<1>5. /\ NewId \in 1..N
      /\ cache.id # NewId /\ \A c \in Callers : held[c].id # NewId /\ reply[c].id # NewId
  BY <1>4 DEF NewId
<1> QED
  BY <1>1, <1>5

-----------------------------------------------------------------------------
\* What the daemon can have: it never has an empty map.
Wired == {Wire(c) : c \in Config}

LEMMA WiredIs == Wired = {c \in Config : c.allow # "empty"}
<1>1. ASSUME NEW c \in Config PROVE Wire(c) \in Config /\ Wire(c).allow # "empty"
  BY DEF Wire, Config
<1>2. ASSUME NEW c \in Config, c.allow # "empty" PROVE c = Wire(c)
  BY <1>2 DEF Wire
<1> QED
  BY <1>1, <1>2 DEF Wired

\* An object of a config, and an edit of one.
LEMMA ObjectTypes ==
  /\ EmptyConfig \in Config /\ NoObject \in ObjectsOf
  /\ \A i \in Nat, v \in Config : Object(i, v) \in ObjectsOf
  /\ \A o \in ObjectsOf, v \in Config : [o EXCEPT !.val = v] \in ObjectsOf
  /\ \A o \in ObjectsOf : [o EXCEPT !.late = TRUE] \in ObjectsOf
<1>1. EmptyConfig \in Config
  BY DEF EmptyConfig, Config
<1>2. \A i \in Nat, v \in Config : Object(i, v) \in ObjectsOf
  BY DEF Object, ObjectsOf
<1>3. NoObject \in ObjectsOf
  BY <1>1, <1>2 DEF NoObject
<1> QED
  BY <1>1, <1>2, <1>3 DEF ObjectsOf

-----------------------------------------------------------------------------
\* The configs: the daemon's, the cached one, those that callers hold or wait for.
Configs ==
  /\ daemon \in Wired
  /\ cache \in ObjectsOf
  /\ held \in [Callers -> ObjectsOf] /\ reply \in [Callers -> ObjectsOf]
  /\ etag \in [Callers -> Config]

\* Who asks the daemon holds m.mu, and nobody else does.
Mutex == mu # Nobody => mu \in Callers /\ pc[mu] \in Waiting

\* What the callers were asked for, and what the history keeps.
Requests ==
  /\ want \in [Callers -> Wants]
  /\ began \in [Callers -> SUBSET {"root", "hosts"}]
  /\ named \in BOOLEAN

TypesInv == Inv /\ Configs /\ Mutex /\ Requests

\* What toggles and other tools make of a config is one.
LEMMA MadeConfigs ==
  /\ \A c \in Config : Wire(c) \in Wired
  /\ \A c \in Wired : c \in Config /\ [c EXCEPT !.hosts = ~@] \in Wired
  /\ \A c \in Wired, r \in {"none", "proxy", "path"} :
       [c EXCEPT !.root = r, !.tcp = (r # "none")] \in Wired
<1>1. \A c \in Config : Wire(c) \in Wired
  BY DEF Wired
<1>2. \A c \in Wired : c \in Config /\ [c EXCEPT !.hosts = ~@] \in Wired
  BY WiredIs DEF Config
<1>3. ASSUME NEW c \in Wired, NEW r \in {"none", "proxy", "path"}
      PROVE  [c EXCEPT !.root = r, !.tcp = (r # "none")] \in Wired
  BY WiredIs DEF Config
<1> QED
  BY <1>1, <1>2, <1>3

\* A new object of a config.
LEMMA NewObject ==
  ASSUME NEW v \in Config PROVE Object(NewId, v) \in ObjectsOf
BY FreshId, ObjectTypes

\* The caller's own config, edited to turn something off.
LEMMA Edited ==
  ASSUME NEW c \in Callers, Configs
  PROVE  /\ Cleared(c) \in Config
         /\ [Cleared(c) EXCEPT !.allow = IF named \/ @ # "on" THEN "off" ELSE @] \in Config
<1>1. held[c].val \in Config
  BY DEF Configs, ObjectsOf
<1>2. Cleared(c) \in Config
  BY <1>1 DEF Cleared, Config
<1> QED
  BY <1>2 DEF Config

\* The configs keep their types.
LEMMA ConfigsStep ==
  ASSUME Inv, Configs, [Next]_vars PROVE Configs'
<1> USE DEF Configs
<1>1. ASSUME NEW c \in Callers, NEW w \in Wants, Begin(c, w) PROVE Configs'
  BY <1>1 DEF Begin
<1>2. ASSUME NEW c \in Callers, GetCached(c) \/ GetFails(c) PROVE Configs'
  BY <1>2 DEF GetCached, GetFails, Asks
<1>3. ASSUME NEW c \in Callers, GetAsk(c) \/ EtagAsk(c) PROVE Configs'
  <2>1. Object(NewId, daemon) \in ObjectsOf
    BY NewObject, MadeConfigs
  <2> QED
    BY <1>3, <2>1 DEF GetAsk, Asks, EtagAsk
<1>4. ASSUME NEW c \in Callers, GetAnswer(c) \/ EtagAnswer(c) PROVE Configs'
  <2>1. reply[c] \in ObjectsOf /\ reply[c].val \in Config
    BY DEF ObjectsOf
  <2>2. [reply EXCEPT ![c] = NoObject] \in [Callers -> ObjectsOf]
    BY ObjectTypes
  <2>3. [held EXCEPT ![c] = reply[c]] \in [Callers -> ObjectsOf]
    BY <2>1
  <2>4. [etag EXCEPT ![c] = reply[c].val] \in [Callers -> Config]
    BY <2>1
  <2> QED
    BY <1>4, <2>1, <2>2, <2>3, <2>4 DEF GetAnswer, EtagAnswer
<1>5. ASSUME NEW c \in Callers, ReadState(c) \/ Nameless(c) \/ Refuse(c) \/ Recover(c) \/ EtagFails(c)
      PROVE  Configs'
  BY <1>5, ObjectTypes DEF ReadState, Nameless, Refuse, Recover, EtagFails, Return
<1>6. ASSUME NEW c \in Callers, BuildOn(c) PROVE Configs'
  <2> DEFINE v == [root |-> "ours", hosts |-> FALSE, tcp |-> TRUE,
                   allow |-> IF want[c] = "funnelOn" THEN "on" ELSE "empty"]
  <2>1. Object(NewId, v) \in ObjectsOf
    <3>1. v \in Config
      BY DEF Config
    <3> QED
      BY <3>1, NewObject
  <2> QED
    BY <1>6, <2>1 DEF BuildOn
<1>7. ASSUME NEW c \in Callers, BuildOff(c) PROVE Configs'
  <2> DEFINE edited == [Cleared(c) EXCEPT !.allow = IF named \/ @ # "on" THEN "off" ELSE @]
             edit(o) == IF o.id = held[c].id THEN [o EXCEPT !.val = edited] ELSE o
  <2>1. edited \in Config
    BY Edited
  <2>2. \A o \in ObjectsOf : edit(o) \in ObjectsOf
    BY <2>1, ObjectTypes
  <2>3. Object(NewId, EmptyConfig) \in ObjectsOf
    BY NewObject, ObjectTypes
  <2>4. cache' = edit(cache) /\ UNCHANGED <<daemon, reply, etag>>
    BY <1>7 DEF BuildOff
  <2>5. held' \in [Callers -> ObjectsOf]
    BY <1>7, <2>2, <2>3 DEF BuildOff
  <2> HIDE DEF edit
  <2> QED
    BY <2>2, <2>4, <2>5
<1>8. ASSUME NEW c \in Callers, BuildOffPanics(c) PROVE Configs'
  <2> DEFINE edit(o) == IF o.id # 0 /\ o.id = held[c].id
                        THEN [o EXCEPT !.val = Cleared(c)] ELSE o
  <2>1. \A o \in ObjectsOf : edit(o) \in ObjectsOf
    BY Edited, ObjectTypes
  <2>2. /\ cache' = edit(cache) /\ held' = [d \in Callers |-> edit(held[d])]
        /\ UNCHANGED <<daemon, reply, etag>>
    BY <1>8 DEF BuildOffPanics, EditHeld
  <2> HIDE DEF edit
  <2> QED
    BY <2>1, <2>2
<1>9. ASSUME NEW c \in Callers, Put(c) \/ PutFails(c) PROVE Configs'
  <2>1. Wire(held[c].val) \in Wired
    BY MadeConfigs DEF ObjectsOf
  <2> QED
    BY <1>9, <2>1, ObjectTypes DEF Put, PutFails, Sent, Write
<1>10. ASSUME NEW c \in Callers, Invalidate(c) PROVE Configs'
  <2>1. cache' \in ObjectsOf /\ daemon' \in Wired
    BY <1>10, ObjectTypes DEF Invalidate
  <2>2. reply' \in [Callers -> ObjectsOf]
    BY <1>10, ObjectTypes DEF Invalidate
  <2>3. held' \in [Callers -> ObjectsOf] /\ etag' \in [Callers -> Config]
    BY <1>10, ObjectTypes DEF Invalidate, Return
  <2> QED
    BY <2>1, <2>2, <2>3
<1>11. CASE Foreign
  BY <1>11, MadeConfigs DEF Foreign
<1>12. CASE UNCHANGED vars
  BY <1>12 DEF vars
<1> QED
  BY <1>1, <1>2, <1>3, <1>4, <1>5, <1>6, <1>7, <1>8, <1>9, <1>10, <1>11, <1>12 DEF Next, Caller

\* m.mu is taken by who begins to wait, and let go by who stops.
LEMMA MutexStep ==
  ASSUME Inv, Mutex, [Next]_vars PROVE Mutex'
<1> USE DEF Mutex, Inv, Shapes, OneAsks, Places, Waiting, Goto, At
<1>1. ASSUME NEW c \in Callers, NEW w \in Wants, Begin(c, w) PROVE Mutex'
  BY <1>1 DEF Begin
<1>2. ASSUME NEW c \in Callers, GetCached(c) \/ GetFails(c) \/ BuildOn(c) PROVE Mutex'
  BY <1>2 DEF GetCached, GetFails, Asks, BuildOn
<1>3. ASSUME NEW c \in Callers, GetAsk(c) \/ EtagAsk(c) PROVE Mutex'
  BY <1>3 DEF GetAsk, Asks, EtagAsk
<1>4. ASSUME NEW c \in Callers, GetAnswer(c) \/ EtagAnswer(c) \/ EtagFails(c) PROVE Mutex'
  BY <1>4 DEF GetAnswer, EtagAnswer, EtagFails
<1>5. ASSUME NEW c \in Callers, ReadState(c) \/ Nameless(c) \/ Refuse(c) \/ Recover(c) PROVE Mutex'
  BY <1>5 DEF ReadState, Nameless, Refuse, Recover, Return
<1>6. ASSUME NEW c \in Callers, BuildOff(c) \/ BuildOffPanics(c) PROVE Mutex'
  BY <1>6 DEF BuildOff, BuildOffPanics
<1>7. ASSUME NEW c \in Callers, Put(c) \/ PutFails(c) PROVE Mutex'
  BY <1>7 DEF Put, PutFails, Sent
<1>8. ASSUME NEW c \in Callers, Invalidate(c) PROVE Mutex'
  BY <1>8 DEF Invalidate
<1>9. CASE Foreign \/ UNCHANGED vars
  BY <1>9 DEF Foreign, vars
<1> QED
  BY <1>1, <1>2, <1>3, <1>4, <1>5, <1>6, <1>7, <1>8, <1>9 DEF Next, Caller

\* Requests and history keep their types.
LEMMA RequestsStep ==
  ASSUME Requests, [Next]_vars PROVE Requests'
<1> USE DEF Requests
<1>1. "state" \in Wants
  BY DEF Wants
<1>2. ASSUME NEW c \in Callers, NEW w \in Wants, Begin(c, w) PROVE Requests'
  <2>1. Others(daemon) \in SUBSET {"root", "hosts"}
    BY DEF Others
  <2> QED
    BY <1>2, <2>1 DEF Begin
<1>3. ASSUME NEW c \in Callers, GetCached(c) \/ GetAsk(c) \/ GetAnswer(c) \/ GetFails(c)
      PROVE  Requests'
  BY <1>3 DEF GetCached, GetAsk, GetAnswer, GetFails
<1>4. ASSUME NEW c \in Callers, ReadState(c) \/ Nameless(c) \/ Refuse(c) \/ Recover(c) \/ EtagFails(c)
      PROVE  Requests'
  BY <1>1, <1>4 DEF ReadState, Nameless, Refuse, Recover, EtagFails, Return
<1>5. ASSUME NEW c \in Callers, BuildOn(c) \/ BuildOff(c) \/ BuildOffPanics(c) PROVE Requests'
  BY <1>5 DEF BuildOn, BuildOff, BuildOffPanics
<1>6. ASSUME NEW c \in Callers, EtagAsk(c) \/ EtagAnswer(c) \/ Put(c) \/ PutFails(c)
      PROVE  Requests'
  BY <1>6 DEF EtagAsk, EtagAnswer, Put, PutFails, Sent
<1>7. ASSUME NEW c \in Callers, Invalidate(c) PROVE Requests'
  BY <1>1, <1>7 DEF Invalidate, Return
<1>8. CASE Foreign \/ UNCHANGED vars
  BY <1>8 DEF Foreign, vars
<1> QED
  BY <1>2, <1>3, <1>4, <1>5, <1>6, <1>7, <1>8 DEF Next, Caller

\* The types, over the whole specification.
LEMMA TypesInvariant == Spec => []TypesInv
<1>1. Init => TypesInv
  <2>1. Init => Inv
    BY Initially
  <2>2. Init => daemon \in Wired
    <3>1. \A c \in Config :
            [c EXCEPT !.root = "ours", !.tcp = TRUE, !.allow = "on"] \in Wired
      BY WiredIs DEF Config
    <3>2. EmptyConfig \in Wired
      BY WiredIs DEF EmptyConfig, Config
    <3>3. [EmptyConfig EXCEPT !.root = "ours", !.tcp = TRUE, !.allow = "on"] \in Wired
      BY <3>1, ObjectTypes
    <3>4. Init => daemon = EmptyConfig
                  \/ daemon = [EmptyConfig EXCEPT !.root = "ours", !.tcp = TRUE, !.allow = "on"]
      BY Zenon DEF Init
    <3> QED
      BY Zenon, <3>2, <3>3, <3>4
  <2>3. Init => Configs
    BY <2>2, ObjectTypes DEF Init, Configs
  <2>4. Init => Mutex /\ Requests
    BY DEF Init, Mutex, Requests, Wants
  <2> QED
    BY <2>1, <2>3, <2>4 DEF TypesInv
<1>2. TypesInv /\ [Next]_vars => TypesInv'
  BY Step, ConfigsStep, MutexStep, RequestsStep DEF TypesInv
<1> QED
  BY <1>1, <1>2, PTL DEF Spec

\* Every variable keeps its type: the daemon never has an empty AllowFunnel map, a caller
\* that waits for the daemon holds m.mu and no other does.
THEOREM ServeTypes == Spec => []TypeOK
<1>1. TypesInv => TypeOK
  BY DEF TypesInv, TypeOK, Inv, OneAsks, Waiting, Configs, Mutex, Requests, Wired, ObjectsOf
<1> QED
  BY <1>1, TypesInvariant, PTL

-----------------------------------------------------------------------------
(***************************************************************************)
(* What a toggle sends is what it was asked for.  Toggles that turn        *)
(* something off edit the object they got from get, and the cache and      *)
(* other callers may hold the same one.  So the invariant speaks of        *)
(* identities: equal ones mean equal values (Shared), an answer on its way *)
(* is nobody's yet (Apart), what a toggle built from nothing is its own (Own), *)
(* and an edit by anybody keeps what the    *)
(* others who hold the object have made of it (Made).                      *)
(***************************************************************************)
Sending == {"built", "etagAsked", "put"}
SameObj(x, y) == x.id = y.id /\ x.val = y.val

\* Equal identities are equal objects; a config with a map is no "nothing".
Agree(x, y) == (x.id = y.id /\ x.id # 0) => x.val = y.val
HasId(x) == x.id = 0 => x.val.allow = "nil"

Shared ==
  /\ HasId(cache) /\ \A c \in Callers : HasId(held[c]) /\ HasId(reply[c])
  /\ \A c \in Callers : Agree(cache, held[c])
  /\ \A c, d \in Callers : Agree(held[c], held[d])

Apart == \A d \in Callers : reply[d].id # 0 =>
  /\ cache.id # reply[d].id
  /\ \A c \in Callers : held[c].id # reply[d].id /\ (c # d => reply[c].id # reply[d].id)

\* Nobody else has the object that c holds.
Alone(c) ==
  /\ held[c].id # 0
  /\ cache.id # held[c].id
  /\ \A d \in Callers : reply[d].id # held[c].id /\ (d # c => held[d].id # held[c].id)

Own == \A c \in Callers :
  (pc[c] \in Sending /\ want[c] \in {"serveOn", "funnelOn"}) => Alone(c)

\* A config as its toggle was asked for.
AsAsked(w, v) ==
  /\ w = "funnelOn" => v.root = "ours" /\ v.allow = "on"
  /\ w = "serveOn" => v.root = "ours" /\ v.allow # "on"
  /\ w = "funnelOff" => v.allow # "on"
  /\ w = "serveOff" => v.root = "none" /\ v.allow # "on"

Made == \A c \in Callers :
  pc[c] \in Sending => want[c] \in Toggles /\ (named => AsAsked(want[c], held[c].val))

AskedInv == Shared /\ Apart /\ Own /\ Made

-----------------------------------------------------------------------------
\* Steps that hand objects on, or let go of them.
LEMMA HandOn ==
  ASSUME AskedInv, named' = named,
         SameObj(cache', cache) \/ SameObj(cache', NoObject)
           \/ \E e \in Callers : SameObj(cache', reply[e]) /\ reply'[e].id = 0,
         \A d \in Callers : SameObj(reply'[d], reply[d]) \/ SameObj(reply'[d], NoObject),
         \A d \in Callers :
           \/ SameObj(held'[d], held[d])
           \/ /\ pc'[d] \notin Sending
              /\ \/ SameObj(held'[d], cache) \/ SameObj(held'[d], NoObject)
                 \/ \E e \in Callers : SameObj(held'[d], reply[e]) /\ reply'[e].id = 0,
         \A d \in Callers : pc'[d] \in Sending =>
           pc[d] \in Sending /\ want'[d] = want[d] /\ SameObj(held'[d], held[d])
  PROVE  AskedInv'
<1> USE DEF AskedInv, SameObj, HasId, Agree
<1>0. NoObject.id = 0 /\ NoObject.val.allow = "nil"
  BY DEF NoObject, Object, EmptyConfig
<1>1. Shared'
  <2>1. HasId(cache)' /\ \A c \in Callers : HasId(held[c])' /\ HasId(reply[c])'
    BY <1>0 DEF Shared
  <2>2. \A c \in Callers : Agree(cache, held[c])'
    BY <1>0 DEF Shared, Apart
  <2>3. \A c, d \in Callers : Agree(held[c], held[d])'
    BY <1>0 DEF Shared, Apart
  <2> QED
    BY <2>1, <2>2, <2>3 DEF Shared
<1>4. Apart'
  BY <1>0 DEF Apart
<1>2. Own'
  <2> SUFFICES ASSUME NEW c \in Callers, pc'[c] \in Sending,
                      want'[c] \in {"serveOn", "funnelOn"}
               PROVE  Alone(c)'
    BY DEF Own
  <2>1. Alone(c) /\ held'[c].id = held[c].id
    BY DEF Own
  <2> QED
    BY <1>0, <2>1 DEF Alone
<1>3. Made'
  BY DEF Made
<1> QED
  BY <1>1, <1>2, <1>3, <1>4

\* An object with a new identity for who waits for the daemon.
LEMMA NewReply ==
  ASSUME AskedInv, NEW c \in Callers, NEW v,
         UNCHANGED <<named, cache, want, held>>,
         reply' = [reply EXCEPT ![c] = Object(NewId, v)], DOMAIN reply = Callers,
         \A d \in Callers : pc'[d] \in Sending => pc[d] \in Sending
  PROVE  AskedInv'
<1> USE DEF AskedInv, HasId, Agree
<1>1. Object(NewId, v).id = NewId /\ NewId # 0
  BY FreshId DEF Object
<1>2. \A d \in Callers : reply'[d] = IF d = c THEN Object(NewId, v) ELSE reply[d]
  OBVIOUS
<1>3. cache.id # NewId /\ \A d \in Callers : held[d].id # NewId /\ reply[d].id # NewId
  BY FreshId
<1>4. Shared' /\ Apart'
  BY <1>1, <1>2, <1>3 DEF Shared, Apart
<1>5. Own'
  BY <1>1, <1>2, <1>3 DEF Own, Alone
<1>6. Made'
  BY DEF Made
<1> QED
  BY <1>4, <1>5, <1>6

\* A config built from nothing has a new identity, and is as it was asked for.
LEMMA NewHeld ==
  ASSUME Inv, AskedInv, NEW c \in Callers, BuildOn(c), DOMAIN held = Callers
  PROVE  AskedInv'
<1> USE DEF AskedInv, HasId, Agree
<1>1. PICK v : /\ held' = [held EXCEPT ![c] = Object(NewId, v)]
               /\ AsAsked(want[c], v)
  <2> DEFINE v == [root |-> "ours", hosts |-> FALSE, tcp |-> TRUE,
                   allow |-> IF want[c] = "funnelOn" THEN "on" ELSE "empty"]
  <2>1. held' = [held EXCEPT ![c] = Object(NewId, v)] /\ want[c] \in {"serveOn", "funnelOn"}
    BY DEF BuildOn
  <2>2. AsAsked(want[c], v)
    BY <2>1 DEF AsAsked
  <2> HIDE DEF v
  <2> QED
    BY <2>1, <2>2
<1>2. /\ Object(NewId, v).id = NewId /\ Object(NewId, v).val = v /\ NewId # 0
  BY FreshId DEF Object
<1>3. /\ \A d \in Callers : held'[d] = IF d = c THEN Object(NewId, v) ELSE held[d]
      /\ want[c] \in {"serveOn", "funnelOn"} /\ UNCHANGED <<named, cache, reply, want>>
      /\ \A d \in Callers \ {c} : pc'[d] = pc[d]
  BY <1>1 DEF BuildOn, Goto, Inv, Shapes
<1>4. cache.id # NewId /\ \A d \in Callers : held[d].id # NewId /\ reply[d].id # NewId
  BY FreshId
<1>5. Shared' /\ Apart'
  BY <1>2, <1>3, <1>4 DEF Shared, Apart
<1>6. Own'
  BY <1>2, <1>3, <1>4 DEF Own, Alone
<1>7. Made'
  BY <1>1, <1>2, <1>3 DEF Made, Toggles
<1> QED
  BY <1>5, <1>6, <1>7

\* An edit in place of the object that c holds: it keeps what others made of it.
LEMMA InPlace ==
  ASSUME AskedInv, NEW c \in Callers, NEW v, held[c].id # 0, want[c] \in {"serveOff", "funnelOff"},
         pc[c] \notin Sending, UNCHANGED <<named, reply, want>>,
         named => /\ v.root \in {held[c].val.root, "none"}
                  /\ v.allow \in {held[c].val.allow, "off"},
         cache'.id = cache.id,
         cache'.val = IF cache.id = held[c].id THEN v ELSE cache.val,
         \A d \in Callers : held'[d].id = held[d].id,
         \A d \in Callers : held'[d].val = IF held[d].id = held[c].id THEN v ELSE held[d].val,
         \A d \in Callers \ {c} : pc'[d] = pc[d],
         pc'[c] \in Sending => (named => AsAsked(want[c], v))
  PROVE  AskedInv'
<1> USE DEF AskedInv, HasId, Agree
<1>1. Shared' /\ Apart'
  BY DEF Shared, Apart
<1>2. Own'
  BY DEF Own, Alone
<1>3. Made'
  <2> SUFFICES ASSUME NEW d \in Callers, pc'[d] \in Sending
               PROVE  want'[d] \in Toggles /\ (named' => AsAsked(want'[d], held'[d].val))
    BY DEF Made
  <2>1. CASE d = c
    BY <2>1 DEF Toggles
  <2>2. CASE d # c /\ held[d].id # held[c].id
    BY <2>2 DEF Made
  <2>3. CASE d # c /\ held[d].id = held[c].id
    <3>1. pc[d] \in Sending /\ held'[d].val = v /\ held[d].val = held[c].val
      BY <2>3 DEF Shared
    <3>2. want[d] \notin {"serveOn", "funnelOn"}
      BY <2>3, <3>1 DEF Own, Alone
    <3>3. want[d] \in Toggles /\ (named => AsAsked(want[d], held[c].val))
      BY <3>1 DEF Made
    <3> QED
      BY <3>1, <3>2, <3>3 DEF AsAsked
  <2> QED
    BY <2>1, <2>2, <2>3
<1> QED
  BY <1>1, <1>2, <1>3

\* The same, when the caller goes on with an empty config of its own.
LEMMA FromEmpty ==
  ASSUME AskedInv, NEW c \in Callers, NEW v, held[c].id # 0, want[c] \in {"serveOff", "funnelOff"},
         pc[c] \notin Sending, UNCHANGED <<named, reply, want>>,
         named => /\ v.root \in {held[c].val.root, "none"}
                  /\ v.allow \in {held[c].val.allow, "off"},
         cache'.id = cache.id,
         cache'.val = IF cache.id = held[c].id THEN v ELSE cache.val,
         \A d \in Callers :
           /\ d # c => held'[d].id = held[d].id
           /\ d # c => held'[d].val = IF held[d].id = held[c].id THEN v ELSE held[d].val
           /\ d = c => held'[d].id = NewId /\ held'[d].val = EmptyConfig,
         \A d \in Callers \ {c} : pc'[d] = pc[d]
  PROVE  AskedInv'
<1> USE DEF AskedInv, HasId, Agree
<1>1. /\ NewId # 0 /\ cache.id # NewId
      /\ \A d \in Callers : held[d].id # NewId /\ reply[d].id # NewId
  BY FreshId
<1>2. EmptyConfig.root = "none" /\ EmptyConfig.allow = "nil"
  BY DEF EmptyConfig
<1>3. Shared' /\ Apart'
  BY <1>1, <1>2 DEF Shared, Apart
<1>4. Own'
  BY <1>1 DEF Own, Alone
<1>5. Made'
  <2> SUFFICES ASSUME NEW d \in Callers, pc'[d] \in Sending
               PROVE  want'[d] \in Toggles /\ (named' => AsAsked(want'[d], held'[d].val))
    BY DEF Made
  <2>1. CASE d = c
    BY <2>1, <1>2 DEF Toggles, AsAsked
  <2>2. CASE d # c /\ held[d].id # held[c].id
    BY <2>2 DEF Made
  <2>3. CASE d # c /\ held[d].id = held[c].id
    <3>1. pc[d] \in Sending /\ held'[d].val = v /\ held[d].val = held[c].val
      BY <2>3 DEF Shared
    <3>2. want[d] \notin {"serveOn", "funnelOn"}
      BY <2>3, <3>1 DEF Own, Alone
    <3>3. want[d] \in Toggles /\ (named => AsAsked(want[d], held[c].val))
      BY <3>1 DEF Made
    <3> QED
      BY <3>1, <3>2, <3>3 DEF AsAsked
  <2> QED
    BY <2>1, <2>2, <2>3
<1> QED
  BY <1>3, <1>4, <1>5

\* The two toggles that turn something off edit what they hold, in place.
LEMMA Off ==
  ASSUME Inv, AskedInv, NEW c \in Callers, BuildOff(c) \/ BuildOffPanics(c),
         held \in [Callers -> ObjectsOf], cache \in ObjectsOf
  PROVE  AskedInv'
<1> USE DEF At
<1>1. /\ want[c] \in {"serveOff", "funnelOff"} /\ pc[c] = "got" /\ UNCHANGED <<named, reply, want>>
      /\ \A d \in Callers \ {c} : pc'[d] = pc[d]
  BY DEF BuildOff, BuildOffPanics, Goto, Inv, Shapes
<1>2. held[c].val \in Config
  BY DEF ObjectsOf
<1>3. /\ Cleared(c).allow = held[c].val.allow
      /\ named => Cleared(c).root = IF want[c] = "serveOff" THEN "none" ELSE held[c].val.root
  BY <1>1, <1>2 DEF Cleared, Config
<1>4. \A x, v : (x \in ObjectsOf) => [x EXCEPT !.val = v].id = x.id /\ [x EXCEPT !.val = v].val = v
  BY DEF ObjectsOf
<1>5. ASSUME BuildOffPanics(c) PROVE AskedInv'
  <2>1. CASE held[c].id = 0
    <3>1. cache' = cache /\ held' = held /\ pc'[c] \notin Sending
      BY <1>5, <2>1 DEF BuildOffPanics, EditHeld, Goto, Inv, Shapes, Sending
    <3>2. \A d \in Callers : pc'[d] \in Sending => pc[d] \in Sending
      BY <1>1, <3>1
    <3> QED
      BY <1>1, <3>1, <3>2, HandOn DEF SameObj
  <2>2. CASE held[c].id # 0
    <3> DEFINE v == Cleared(c)
    <3>1. /\ cache' = IF cache.id = held[c].id THEN [cache EXCEPT !.val = v] ELSE cache
          /\ \A d \in Callers : held'[d] = IF held[d].id = held[c].id
                                           THEN [held[d] EXCEPT !.val = v] ELSE held[d]
      BY <1>5, <2>2 DEF BuildOffPanics, EditHeld
    <3>2. pc'[c] \notin Sending /\ pc[c] \notin Sending
      BY <1>1, <1>5 DEF BuildOffPanics, Goto, Inv, Shapes, Sending
    <3>3. named => v.root \in {held[c].val.root, "none"} /\ v.allow = held[c].val.allow
      BY <1>3
    <3> HIDE DEF v
    <3>4. /\ cache'.id = cache.id
          /\ cache'.val = IF cache.id = held[c].id THEN v ELSE cache.val
      BY <3>1, <1>4
    <3>5. ASSUME NEW d \in Callers
          PROVE  /\ held'[d].id = held[d].id
                 /\ held'[d].val = IF held[d].id = held[c].id THEN v ELSE held[d].val
      <4>1. [held[d] EXCEPT !.val = v].id = held[d].id /\ [held[d] EXCEPT !.val = v].val = v
        BY <1>4
      <4>2. CASE held[d].id = held[c].id
        <5>1. held'[d] = [held[d] EXCEPT !.val = v]
          BY <3>1, <4>2
        <5> QED
          BY <4>1, <4>2, <5>1
      <4>3. CASE held[d].id # held[c].id
        <5>1. held'[d] = held[d]
          BY <3>1, <4>3
        <5> QED
          BY <4>3, <5>1
      <4> QED
        BY <4>2, <4>3
    <3>6. /\ \A d \in Callers : held'[d].id = held[d].id
          /\ \A d \in Callers :
               held'[d].val = IF held[d].id = held[c].id THEN v ELSE held[d].val
      BY <3>5
    <3>7. /\ named => /\ v.root \in {held[c].val.root, "none"}
                      /\ v.allow \in {held[c].val.allow, "off"}
          /\ pc'[c] \in Sending => (named => AsAsked(want[c], v))
      BY <3>2, <3>3
    <3> QED
      BY <1>1, <2>2, <3>2, <3>4, <3>6, <3>7, InPlace
  <2> QED
    BY <2>1, <2>2
<1>6. ASSUME BuildOff(c) PROVE AskedInv'
  <2>1. held[c].id # 0
    BY <1>6 DEF BuildOff, AskedInv, Shared, HasId
  <2> DEFINE v == [Cleared(c) EXCEPT !.allow = IF named \/ @ # "on" THEN "off" ELSE @]
  <2>2. /\ v.root = Cleared(c).root
        /\ named => v.allow = "off"
    <3>1. Cleared(c) \in Config
      BY <1>2 DEF Cleared, Config
    <3> QED
      BY <3>1 DEF Config
  <2>3. PICK emptied \in BOOLEAN :
          /\ cache' = IF cache.id = held[c].id THEN [cache EXCEPT !.val = v] ELSE cache
          /\ held' = [d \in Callers |->
               IF d = c /\ emptied THEN Object(NewId, EmptyConfig)
               ELSE IF held[d].id = held[c].id THEN [held[d] EXCEPT !.val = v] ELSE held[d]]
    BY <1>6 DEF BuildOff
  <2>4. named => /\ v.root \in {held[c].val.root, "none"}
                 /\ v.allow \in {held[c].val.allow, "off"}
                 /\ AsAsked(want[c], v)
    BY <1>1, <1>3, <2>2 DEF AsAsked
  <2>5. pc[c] \notin Sending
    BY <1>1 DEF Sending
  <2> HIDE DEF v
  <2>6. /\ cache'.id = cache.id
        /\ cache'.val = IF cache.id = held[c].id THEN v ELSE cache.val
    BY <2>3, <1>4
  <2>7. CASE ~emptied
    <3>1. \A d \in Callers : /\ held'[d].id = held[d].id
                             /\ held'[d].val = IF held[d].id = held[c].id THEN v ELSE held[d].val
      BY <2>3, <2>7, <1>4
    <3> QED
      BY <1>1, <2>1, <2>4, <2>5, <2>6, <3>1, InPlace
  <2>8. CASE emptied
    <3>1. \A d \in Callers :
            /\ d # c => held'[d].id = held[d].id
            /\ d # c => held'[d].val = IF held[d].id = held[c].id THEN v ELSE held[d].val
            /\ d = c => held'[d].id = NewId /\ held'[d].val = EmptyConfig
      BY <2>3, <2>8, <1>4 DEF Object
    <3>2. named => /\ v.root \in {held[c].val.root, "none"}
                   /\ v.allow \in {held[c].val.allow, "off"}
      BY <2>4
    <3> QED
      BY <1>1, <2>1, <2>5, <2>6, <3>1, <3>2, FromEmpty
  <2> QED
    BY <2>7, <2>8
<1> QED
  BY <1>5, <1>6

\* Every step keeps what toggles were asked for.
LEMMA AskedStep ==
  ASSUME TypesInv, AskedInv, [Next]_vars PROVE AskedInv'
<1> USE DEF At, Goto, SameObj, Sending
<1>0. /\ Inv /\ Shapes /\ Configs
      /\ held \in [Callers -> ObjectsOf] /\ reply \in [Callers -> ObjectsOf] /\ cache \in ObjectsOf
      /\ want \in [Callers -> Wants] /\ pc \in [Callers -> Places]
  BY DEF TypesInv, Inv, Shapes, Configs, Requests
<1>z. NoObject.id = 0
  BY DEF NoObject, Object
<1>1. ASSUME NEW c \in Callers, NEW w \in Wants, Begin(c, w) PROVE AskedInv'
  BY <1>0, <1>1, HandOn DEF Begin
<1>2. ASSUME NEW c \in Callers, GetCached(c) \/ GetFails(c) PROVE AskedInv'
  BY <1>0, <1>2, HandOn DEF GetCached, GetFails
<1>3. ASSUME NEW c \in Callers, GetAsk(c) \/ EtagAsk(c) PROVE AskedInv'
  <2>1. /\ UNCHANGED <<named, cache, want, held>> /\ DOMAIN reply = Callers
        /\ reply' = [reply EXCEPT ![c] = Object(NewId, daemon)]
        /\ \A d \in Callers : pc'[d] \in Sending => pc[d] \in Sending
    BY <1>0, <1>3 DEF GetAsk, EtagAsk
  <2> QED
    BY <2>1, NewReply
<1>4. ASSUME NEW c \in Callers, GetAnswer(c) \/ EtagAnswer(c) PROVE AskedInv'
  BY <1>0, <1>z, <1>4, HandOn DEF GetAnswer, EtagAnswer
<1>5. ASSUME NEW c \in Callers,
             ReadState(c) \/ Nameless(c) \/ Refuse(c) \/ Recover(c) \/ EtagFails(c)
      PROVE  AskedInv'
  BY <1>0, <1>5, HandOn DEF ReadState, Nameless, Refuse, Recover, EtagFails, Return
<1>6. ASSUME NEW c \in Callers, BuildOn(c) PROVE AskedInv'
  BY <1>0, <1>6, NewHeld
<1>7. ASSUME NEW c \in Callers, BuildOff(c) \/ BuildOffPanics(c) PROVE AskedInv'
  BY <1>0, <1>7, Off
<1>8. ASSUME NEW c \in Callers, Put(c) \/ PutFails(c) PROVE AskedInv'
  BY <1>0, <1>8, HandOn DEF Put, PutFails, Sent
<1>9. ASSUME NEW c \in Callers, Invalidate(c) PROVE AskedInv'
  <2>1. \A d \in Callers : SameObj(reply'[d], reply[d])
    <3>1. \A o \in ObjectsOf : [o EXCEPT !.late = TRUE].id = o.id /\ [o EXCEPT !.late = TRUE].val = o.val
      BY DEF ObjectsOf
    <3> QED
      BY <1>0, <1>9, <3>1 DEF Invalidate
  <2>2. \A d \in Callers : /\ \/ SameObj(held'[d], held[d])
                              \/ pc'[d] \notin Sending /\ SameObj(held'[d], NoObject)
                           /\ pc'[d] \in Sending => pc[d] \in Sending /\ want'[d] = want[d]
                                                    /\ SameObj(held'[d], held[d])
    <3>1. CASE pc[c] = "written"
      BY <1>0, <1>9, <3>1 DEF Invalidate
    <3>2. CASE pc[c] = "handled" /\ want[c] \in {"serveOn", "serveOff"}
      <4>1. /\ pc' = [pc EXCEPT ![c] = "get"] /\ want' = [want EXCEPT ![c] = "state"]
            /\ UNCHANGED held
        BY <1>9, <3>2 DEF Invalidate
      <4> QED
        BY <1>0, <4>1
    <3>3. CASE pc[c] # "written" /\ ~(pc[c] = "handled" /\ want[c] \in {"serveOn", "serveOff"})
      <4>1. /\ pc' = [pc EXCEPT ![c] = "idle"] /\ want' = [want EXCEPT ![c] = "state"]
            /\ held' = [held EXCEPT ![c] = NoObject]
        BY <1>9, <3>3 DEF Invalidate, Return
      <4> QED
        BY <1>0, <4>1
    <3> QED
      BY <3>1, <3>2, <3>3
  <2>3. cache' = NoObject /\ named' = named
    BY <1>9 DEF Invalidate
  <2> QED
    BY <2>1, <2>2, <2>3, HandOn
<1>10. CASE Foreign
  BY <1>10, HandOn DEF Foreign
<1>11. CASE UNCHANGED vars
  BY <1>11, HandOn DEF vars
<1> QED
  BY <1>1, <1>2, <1>3, <1>4, <1>5, <1>6, <1>7, <1>8, <1>9, <1>10, <1>11 DEF Next, Caller

\* setServe and setFunnel: the write that lands is the one its toggle was asked for.
THEOREM WritesAsAsked == Spec => WritesWhatWasAsked
<1>1. Init => AskedInv
  BY DEF Init, AskedInv, Shared, Apart, Own, Made, HasId, Agree, Sending, NoObject, Object,
     EmptyConfig
<1>2. TypesInv /\ AskedInv /\ [Next]_vars => AskedInv'
  BY AskedStep
<1>3. ASSUME TypesInv, AskedInv, [Next]_vars, NEW c \in Callers, named, Landed(c)
      PROVE  CASE want[c] = "funnelOn"  -> daemon'.root = "ours" /\ daemon'.allow = "on"
               [] want[c] = "serveOn"   -> daemon'.root = "ours" /\ daemon'.allow # "on"
               [] want[c] = "funnelOff" -> daemon'.allow # "on"
               [] want[c] = "serveOff"  -> daemon'.root = "none" /\ daemon'.allow # "on"
  <2>1. daemon' = Wire(held[c].val)
    <3>0. pc \in [Callers -> Places] /\ pc[c] = "put"
      BY <1>3 DEF TypesInv, Inv, Shapes, Landed
    <3>1. ASSUME NEW d \in Callers, Put(d) \/ PutFails(d) PROVE daemon' = Wire(held[c].val)
      BY <1>3, <3>0, <3>1 DEF Put, PutFails, Goto, Landed, Write
    <3>2. ASSUME NEW d \in Callers, Caller(d) PROVE daemon' = Wire(held[c].val)
      BY <1>3, <3>1, <3>2
         DEF Caller, Landed, GetCached, GetAsk, GetAnswer, GetFails, ReadState, Nameless, Refuse,
             BuildOn, BuildOff, BuildOffPanics, Recover, EtagAsk, EtagAnswer, EtagFails, Invalidate
    <3> QED
      BY <1>3, <3>2 DEF Next, Begin, Foreign, Landed, vars
  <2>2. want[c] \in Toggles /\ AsAsked(want[c], held[c].val)
    BY <1>3 DEF AskedInv, Made, Landed, Sending
  <2>3. held[c].val \in Config
    BY <1>3 DEF TypesInv, Configs, ObjectsOf
  <2>4. /\ daemon'.root = held[c].val.root
        /\ daemon'.allow = IF held[c].val.allow = "empty" THEN "nil" ELSE held[c].val.allow
    BY <2>1, <2>3 DEF Wire, Config
  <2> QED
    BY <2>2, <2>4 DEF Toggles, AsAsked
<1>4. TypesInv /\ AskedInv /\ [Next]_vars
        => [\A c \in Callers : named /\ Landed(c) =>
              CASE want[c] = "funnelOn"  -> daemon'.root = "ours" /\ daemon'.allow = "on"
                [] want[c] = "serveOn"   -> daemon'.root = "ours" /\ daemon'.allow # "on"
                [] want[c] = "funnelOff" -> daemon'.allow # "on"
                [] want[c] = "serveOff"  -> daemon'.root = "none" /\ daemon'.allow # "on"]_vars
  BY <1>3
<1> QED
  BY <1>1, <1>2, <1>4, TypesInvariant, PTL DEF Spec, WritesWhatWasAsked
=============================================================================
