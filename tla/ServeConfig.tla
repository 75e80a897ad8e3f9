---------------------------- MODULE ServeConfig ----------------------------
(***************************************************************************)
(* The serving manager (serving.go): the daemon's serve config, read       *)
(* through a cache, rewritten as a whole by the Serve and Funnel toggles   *)
(* under the daemon's optimistic concurrency token.  Other tools change    *)
(* the same config; the daemon's answers may fail or get lost.             *)
(*                                                                         *)
(* get hands out the cached object itself, and turning something off edits *)
(* it in place: an object is a record with an identity, and an edit        *)
(* reaches everybody who holds it.                                         *)
(***************************************************************************)
EXTENDS Integers, FiniteSets

CONSTANTS
  Callers,  \* requests in flight: toggles, and reads of the state
  Nobody,
  Limits    \* bound: how many calls, changes by other tools and failures

ASSUME ServeAssumption ==
  /\ Nobody \notin Callers /\ IsFiniteSet(Callers)
  /\ Limits \in [{"call", "foreign", "fail"} -> Nat]

VARIABLES
  named,    \* selfDNSName: the daemon told this machine's name when it was asked, once
  daemon,   \* the daemon's serve config
  cache,    \* m.cache
  mu,       \* m.mu
  pc,       \* where each caller stands
  want,     \* what it was asked for
  held,     \* the object it got from get, or built
  reply,    \* the daemon's answer on its way to it
  etag,     \* the etag it got: a hash of the config, here the config
  began,    \* history: what other tools had in the daemon's config when the
            \* toggle began
  used      \* how much of Limits is used up

vars == <<named, daemon, cache, mu, pc, want, held, reply, etag, began,
          used>>

\* root: the root handler of this machine's https port, another tool's being a proxy
\* or a path or text; hosts: another tool's entry under another name; tcp: the entry
\* of port 443; allow: what AllowFunnel says of this machine, or that the map is
\* empty or nil.
Config == [root : {"none", "ours", "proxy", "path"}, hosts : BOOLEAN, tcp : BOOLEAN,
           allow : {"nil", "empty", "off", "on"}]
EmptyConfig == [root |-> "none", hosts |-> FALSE, tcp |-> FALSE, allow |-> "nil"]

\* late is history: whether a write was finished while the answer was on its way.
Object(id, val) == [id |-> id, val |-> val, late |-> FALSE]
NoObject == Object(0, EmptyConfig)

\* omitempty: the daemon gets no map at all when it is empty.
Wire(c) == IF c.allow = "empty" THEN [c EXCEPT !.allow = "nil"] ELSE c

\* What other tools have in a config.
Others(config) == {x \in {"root", "hosts"} :
  (x = "root" /\ config.root \in {"proxy", "path"}) \/ (x = "hosts" /\ config.hosts)}

Toggles == {"serveOn", "serveOff", "funnelOn", "funnelOff"}
Wants == Toggles \cup {"state"}

\* The program may have been stopped with Funnel on.
Init ==
  /\ named \in BOOLEAN
  /\ daemon \in {EmptyConfig,
                [EmptyConfig EXCEPT !.root = "ours", !.tcp = TRUE, !.allow = "on"]}
  /\ cache = NoObject
  /\ mu = Nobody
  /\ pc = [c \in Callers |-> "idle"]
  /\ want = [c \in Callers |-> "state"]
  /\ held = [c \in Callers |-> NoObject]
  /\ reply = [c \in Callers |-> NoObject]
  /\ etag = [c \in Callers |-> EmptyConfig]
  /\ began = [c \in Callers |-> {}]
  /\ used = [k \in DOMAIN Limits |-> 0]

Spend(k) == used[k] < Limits[k] /\ used' = [used EXCEPT ![k] = @ + 1]
At(c, place) == pc[c] = place
Goto(c, place) == pc' = [pc EXCEPT ![c] = place]

NewId ==
  CHOOSE i \in 1..(2 * Cardinality(Callers) + 2) :
    cache.id # i /\ \A c \in Callers : held[c].id # i /\ reply[c].id # i

\* The caller is done and holds nothing.
Return(c) ==
  /\ Goto(c, "idle")
  /\ held' = [held EXCEPT ![c] = NoObject]
  /\ want' = [want EXCEPT ![c] = "state"]
  /\ etag' = [etag EXCEPT ![c] = EmptyConfig]
  /\ began' = [began EXCEPT ![c] = {}]

-----------------------------------------------------------------------------
\* handleServe, handleFunnel, the guard and everything else that asks.
Begin(c, w) ==
  /\ At(c, "idle")
  /\ Spend("call")
  /\ want' = [want EXCEPT ![c] = w]
  /\ began' = [began EXCEPT ![c] = IF w = "state" THEN {} ELSE Others(daemon)]
  /\ Goto(c, "get")
  /\ UNCHANGED <<named, daemon, cache, mu, held, reply, etag>>

\* Without a name only turning something off gets as far as get.
Asks(c) == At(c, "get") /\ (named \/ want[c] \in {"serveOff", "funnelOff"})

\* get, with a cached config.  Whether it is older than 5 seconds is left open:
\* any time may pass between two steps.
GetCached(c) ==
  /\ Asks(c) /\ mu = Nobody
  /\ cache # NoObject
  /\ held' = [held EXCEPT ![c] = cache]
  /\ Goto(c, "got")
  /\ UNCHANGED <<named, daemon, cache, mu, want, reply, etag, began, used>>

\* get, without one or with one too old: m.mu stays locked while the daemon answers.
GetAsk(c) ==
  /\ Asks(c) /\ mu = Nobody
  /\ mu' = c
  /\ reply' = [reply EXCEPT ![c] = Object(NewId, daemon)]
  /\ Goto(c, "asked")
  /\ UNCHANGED <<named, daemon, cache, want, held, etag, began, used>>

GetAnswer(c) ==
  /\ At(c, "asked")
  /\ cache' = reply[c]
  /\ held' = [held EXCEPT ![c] = reply[c]]
  /\ reply' = [reply EXCEPT ![c] = NoObject]
  /\ mu' = Nobody
  /\ Goto(c, "got")
  /\ UNCHANGED <<named, daemon, want, etag, began, used>>

\* The daemon does not answer: whatever is cached, however old, or nothing.
GetFails(c) ==
  /\ Asks(c) /\ mu = Nobody
  /\ Spend("fail")
  /\ held' = [held EXCEPT ![c] = cache]
  /\ Goto(c, "got")
  /\ UNCHANGED <<named, daemon, cache, mu, want, reply, etag, began>>

ReadState(c) ==
  /\ At(c, "got") /\ want[c] = "state"
  /\ Return(c)
  /\ UNCHANGED <<named, daemon, cache, mu, reply, used>>

\* hostPort is empty: the state is "off", and nothing can be turned on.
Nameless(c) ==
  /\ At(c, "get") /\ want[c] \in {"state", "serveOn", "funnelOn"}
  /\ ~named
  /\ Return(c)
  /\ UNCHANGED <<named, daemon, cache, mu, reply, used>>

\* buildAppConfig: a config with this program's entries and no others, unless
\* the config read shows another service's proxy at the root.
Refuse(c) ==
  /\ At(c, "got") /\ want[c] \in {"serveOn", "funnelOn"}
  /\ held[c].val.root = "proxy"
  /\ Return(c)
  /\ UNCHANGED <<named, daemon, cache, mu, reply, used>>

\* An edit of the object the caller holds, in place.
EditHeld(c, val) ==
  LET edit(o) == IF o.id # 0 /\ o.id = held[c].id THEN [o EXCEPT !.val = val] ELSE o
  IN  cache' = edit(cache) /\ held' = [d \in Callers |-> edit(held[d])]

\* Mutant: our entries are added to the config read, in place.
BuildOnInPlace(c) ==
  LET ours == [held[c].val EXCEPT !.root = "ours", !.tcp = TRUE,
                 !.allow = IF want[c] = "funnelOn" THEN "on" ELSE "empty"]
  IN  /\ At(c, "got") /\ want[c] \in {"serveOn", "funnelOn"}
      /\ held[c].val.root # "proxy"
      /\ IF held[c].id = 0
         THEN held' = [held EXCEPT ![c] = Object(NewId, ours)] /\ UNCHANGED cache
         ELSE EditHeld(c, ours)
      /\ Goto(c, "built")
      /\ UNCHANGED <<named, daemon, mu, want, reply, etag, began, used>>

BuildOn(c) ==
  /\ At(c, "got") /\ want[c] \in {"serveOn", "funnelOn"}
  /\ held[c].val.root # "proxy"
  /\ held' = [held EXCEPT ![c] = Object(NewId,
       [root |-> "ours", hosts |-> FALSE, tcp |-> TRUE,
        allow |-> IF want[c] = "funnelOn" THEN "on" ELSE "empty"])]
  /\ Goto(c, "built")
  /\ UNCHANGED <<named, daemon, cache, mu, want, reply, etag, began, used>>

\* setServe(off) and setFunnel(off) up to the write to the AllowFunnel map; without a
\* name it is the entries of the empty name that are deleted and set.
Cleared(c) ==
  IF want[c] = "serveOff"
  THEN [held[c].val EXCEPT !.root = IF named THEN "none" ELSE @, !.tcp = FALSE]
  ELSE held[c].val

\* The map is nil: the write panics, what was deleted stays deleted.
BuildOffPanics(c) ==
  /\ At(c, "got") /\ want[c] \in {"serveOff", "funnelOff"}
  /\ held[c].val.allow = "nil"
  /\ EditHeld(c, Cleared(c))
  /\ Goto(c, "panicked")
  /\ UNCHANGED <<named, daemon, mu, want, reply, etag, began, used>>

\* net/http recovers and drops the connection.
Recover(c) ==
  /\ At(c, "panicked")
  /\ Return(c)
  /\ UNCHANGED <<named, daemon, cache, mu, reply, used>>

BuildOff(c) ==
  LET edited == [Cleared(c) EXCEPT !.allow = IF named \/ @ # "on" THEN "off" ELSE @]
      nothingLeft == /\ ~edited.tcp
                     /\ IF want[c] = "serveOff"
                        THEN edited.root = "none" /\ ~edited.hosts
                        ELSE (named => edited.root = "none") /\ edited.allow # "on"
      edit(o) == IF o.id = held[c].id THEN [o EXCEPT !.val = edited] ELSE o
  IN  /\ At(c, "got") /\ want[c] \in {"serveOff", "funnelOff"}
      /\ held[c].val.allow # "nil"
      /\ cache' = edit(cache)
      /\ held' = [d \in Callers |->
           IF d = c /\ nothingLeft THEN Object(NewId, EmptyConfig) ELSE edit(held[d])]
      /\ Goto(c, "built")
      /\ UNCHANGED <<named, daemon, mu, want, reply, etag, began, used>>

-----------------------------------------------------------------------------
\* set: the etag of the config as it is now.
EtagAsk(c) ==
  /\ At(c, "built") /\ mu = Nobody
  /\ mu' = c
  /\ reply' = [reply EXCEPT ![c] = Object(NewId, daemon)]
  /\ Goto(c, "etagAsked")
  /\ UNCHANGED <<named, daemon, cache, want, held, etag, began, used>>

EtagAnswer(c) ==
  /\ At(c, "etagAsked")
  /\ cache' = reply[c]
  /\ etag' = [etag EXCEPT ![c] = reply[c].val]
  /\ reply' = [reply EXCEPT ![c] = NoObject]
  /\ mu' = Nobody
  /\ Goto(c, "put")
  /\ UNCHANGED <<named, daemon, want, held, began, used>>

\* Mutant: the error return leaves m.mu locked.
EtagFailsLocked(c) ==
  /\ At(c, "etagAsked")
  /\ Spend("fail")
  /\ Return(c)
  /\ reply' = [reply EXCEPT ![c] = NoObject]
  /\ UNCHANGED <<named, daemon, cache, mu>>

EtagFails(c) ==
  /\ At(c, "etagAsked")
  /\ Spend("fail")
  /\ Return(c)
  /\ reply' = [reply EXCEPT ![c] = NoObject]
  /\ mu' = Nobody
  /\ UNCHANGED <<named, daemon, cache>>

Write(c) == daemon' = Wire(held[c].val)

\* The config and its etag are of no more use after the PUT.
Sent(c) ==
  /\ held' = [held EXCEPT ![c] = NoObject]
  /\ etag' = [etag EXCEPT ![c] = EmptyConfig]
  /\ began' = [began EXCEPT ![c] = {}]

\* The PUT: the daemon takes it only if its config still has that etag.
Put(c) ==
  /\ At(c, "put")
  /\ daemon = etag[c]
  /\ Write(c)
  /\ Sent(c)
  /\ Goto(c, "written")
  /\ UNCHANGED <<named, cache, mu, want, reply, used>>

\* The PUT is rejected, or its answer is lost after it was done or before.
PutFails(c) ==
  /\ At(c, "put")
  /\ \/ /\ daemon # etag[c]
        /\ UNCHANGED <<daemon, used>>
     \/ /\ Spend("fail")
        /\ \/ daemon = etag[c] /\ Write(c)
           \/ UNCHANGED daemon
  /\ Sent(c)
  /\ Goto(c, "failed")
  /\ UNCHANGED <<named, cache, mu, want, reply>>

\* Mutant: invalidate does not take m.mu.
InvalidateUnlocked(c) ==
  /\ pc[c] \in {"written", "failed", "handled"}
  /\ cache' = NoObject
  /\ reply' = [d \in Callers |->
       IF reply[d] = NoObject THEN NoObject ELSE [reply[d] EXCEPT !.late = TRUE]]
  /\ CASE At(c, "written") -> /\ Goto(c, "handled")
                              /\ UNCHANGED <<held, want, etag, began>>
       [] At(c, "handled") /\ want[c] \in {"serveOn", "serveOff"} ->
            /\ Goto(c, "get")
            /\ want' = [want EXCEPT ![c] = "state"]
            /\ UNCHANGED <<held, etag, began>>
       [] OTHER -> Return(c)
  /\ UNCHANGED <<named, daemon, mu, used>>

\* invalidate: at the end of set, and once more in the handler of a toggle that
\* succeeded; handleServe then answers with the state, read again.
Invalidate(c) ==
  /\ pc[c] \in {"written", "failed", "handled"}
  /\ mu = Nobody
  /\ cache' = NoObject
  /\ reply' = [d \in Callers |->
       IF reply[d] = NoObject THEN NoObject ELSE [reply[d] EXCEPT !.late = TRUE]]
  /\ CASE At(c, "written") -> /\ Goto(c, "handled")
                              /\ UNCHANGED <<held, want, etag, began>>
       [] At(c, "handled") /\ want[c] \in {"serveOn", "serveOff"} ->
            /\ Goto(c, "get")
            /\ want' = [want EXCEPT ![c] = "state"]
            /\ UNCHANGED <<held, etag, began>>
       [] OTHER -> Return(c)
  /\ UNCHANGED <<named, daemon, mu, used>>

-----------------------------------------------------------------------------
\* Another tool sets its root handler or takes away the one that is there, or
\* changes its entry under another name.
Foreign ==
  /\ Spend("foreign")
  /\ \/ \E root \in {"none", "proxy", "path"} \ {daemon.root} :
          daemon' = [daemon EXCEPT !.root = root, !.tcp = (root # "none")]
     \/ daemon' = [daemon EXCEPT !.hosts = ~@]
  /\ UNCHANGED <<named, cache, mu, pc, want, held, reply, etag, began>>

Caller(c) ==
  \/ GetCached(c) \/ GetAsk(c) \/ GetAnswer(c) \/ GetFails(c) \/ ReadState(c)
  \/ Nameless(c) \/ Refuse(c) \/ BuildOn(c) \/ BuildOff(c) \/ BuildOffPanics(c) \/ Recover(c)
  \/ EtagAsk(c) \/ EtagAnswer(c) \/ EtagFails(c)
  \/ Put(c) \/ PutFails(c) \/ Invalidate(c)

Next ==
  \/ \E c \in Callers, w \in Wants : Begin(c, w)
  \/ \E c \in Callers : Caller(c)
  \/ Foreign

Spec == Init /\ [][Next]_vars

\* The daemon answers or the request's context ends: a caller always gets on.
LiveSpec == Spec /\ \A c \in Callers : WF_vars(Caller(c))

-----------------------------------------------------------------------------
TypeOK ==
  LET Objects == [id : Nat, val : Config, late : BOOLEAN]
  IN  /\ named \in BOOLEAN
      /\ daemon \in {Wire(c) : c \in Config}
      /\ cache \in Objects
      /\ mu # Nobody => mu \in Callers /\ pc[mu] \in {"asked", "etagAsked"}
      /\ \A c \in Callers : pc[c] \in {"asked", "etagAsked"} => mu = c
      /\ want \in [Callers -> Wants]
      /\ held \in [Callers -> Objects] /\ reply \in [Callers -> Objects]
      /\ etag \in [Callers -> Config] /\ began \in [Callers -> SUBSET {"root", "hosts"}]

\* "a stale read only affects the funnel restriction, which toggles invalidate"
\* (serving.go:136-138): once set has returned, whatever became of the PUT, no
\* config fetched before it is served from the cache again.
CacheCoversWrites == ~cache.late

\* A caller's PUT changed the daemon's config.
Landed(c) == pc[c] = "put" /\ pc'[c] # "put" /\ daemon' # daemon

\* serving.go:293 and 317, "enables or disables": what a toggle's PUT leaves with the
\* daemon is what this toggle was asked for, although the config a toggle turns off
\* is the cached object itself, which other requests read and edit while this one
\* waits for the mutex and the etag.
WritesWhatWasAsked ==
  [][\A c \in Callers : named /\ Landed(c) =>
       CASE want[c] = "funnelOn"  -> daemon'.root = "ours" /\ daemon'.allow = "on"
         [] want[c] = "serveOn"   -> daemon'.root = "ours" /\ daemon'.allow # "on"
         [] want[c] = "funnelOff" -> daemon'.allow # "on"
         [] want[c] = "serveOff"  -> daemon'.root = "none" /\ daemon'.allow # "on"]_vars

\* m.mu is held while the daemon is asked, and the guard takes it on every
\* request: every call ends, no error path keeps the mutex.
EveryCallReturns == \A c \in Callers : pc[c] # "idle" ~> pc[c] = "idle"

\* serving.go:164-166: set writes the config "so a concurrent change by another
\* tool fails loudly instead of silently clobbering".
ConcurrentChangeSurvives ==
  [][\A c \in Callers : Landed(c) => Others(daemon) \subseteq began[c]]_vars

-----------------------------------------------------------------------------
\* What the source says and the code does not keep; no run checks these two.

\* serving.go:264-266: buildAppConfig "Refuses to clobber an existing root
\* handler that isn't ours on the same host:port".
OtherRootSurvives ==
  [][\A c \in Callers : Landed(c) /\ want[c] \in {"serveOn", "funnelOn"}
       => daemon.root # "proxy"]_vars

\* serving.go:293 and 317: setServe and setFunnel "enables or disables".
TogglesDoNotPanic == \A c \in Callers : pc[c] # "panicked"
=============================================================================
