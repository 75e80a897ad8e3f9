--------------------------- MODULE HistoryProofs ---------------------------
(*****************************************************************************)
(* Theorems about the history log: its types, that its sessions are kept     *)
(* apart, and that what a log leaves open is what is open, so a restart      *)
(* changes nothing.  For any names, any cut, any grace period and any order  *)
(* in which files come, are taken, polled and recorded.                      *)
(*                                                                           *)
(* Consistent is the inductive invariant.  What SessionsAreSeparate says is  *)
(* not enough: a restart opens the sessions a log leaves open, and these are *)
(* free of closing events only because an arrival is the first entry of its  *)
(* session (InOrder); two names could share an open session whose entries    *)
(* were all cut away, unless their sessions differ anyway (Apart).           *)
(*****************************************************************************)
EXTENDS History, SequenceTheorems, FiniteSetTheorems, TLAPS

Ended == {"saved", "deleted"}
Sendings == {"sent", "send_failed"}
Tracked == {"arrived"} \cup Ended
Entries == [id : Nat, kind : Tracked \cup Sendings, name : Names]

\* The types of what is not the log.
Shape ==
  /\ waiting \subseteq Names
  /\ age \in [Names -> 0..Grace]
  /\ snap \in [seen : BOOLEAN, names : SUBSET Names]
  /\ op \in [Owners -> {IdleOwner} \cup [kind : Ended, name : Names]]
  /\ used \in [DOMAIN Limits -> Nat]

\* The IDs given out so far.
Given(log, open, top) ==
  /\ \A i \in DOMAIN log : log[i].id \in 1..(top - 1)
  /\ \A n \in Names : open[n] < top

Apart(open) ==
  \A m, n \in Names : (open[m] = open[n] /\ open[m] # Closed) => m = n

\* Of two entries of a session the later is an end, of the same name, and the
\* session is not one of a file sent.
InOrder(log) ==
  \A i, j \in DOMAIN log :
    (i < j /\ log[i].id = log[j].id) =>
      log[i].name = log[j].name /\ log[j].kind \in Ended /\ log[i].kind \notin Sendings

\* No open session was closed.
StillOpen(log, open) ==
  \A n \in Names, i \in DOMAIN log :
    (open[n] # Closed /\ log[i].id = open[n]) => log[i].kind = "arrived" /\ log[i].name = n

Consistent(log, open, top) ==
  Given(log, open, top) /\ Apart(open) /\ InOrder(log) /\ StillOpen(log, open)

\* What a method finds and leaves under h.mu.
Book ==
  /\ events \in Seq(Entries) /\ Len(events) <= MaxKept
  /\ active \in [Names -> Nat]
  /\ nextID \in Nat \ {0}
  /\ Consistent(events, active, nextID)
  /\ SessionsSurviveRestart

HistoryInv == Shape /\ Book

-----------------------------------------------------------------------------
(*****************************************************************************)
(* The log as a sequence.                                                    *)
(*****************************************************************************)
LEMMA EventIs ==
  ASSUME NEW id \in Nat, NEW kind \in Tracked \cup Sendings, NEW n \in Names
  PROVE  /\ Event(id, kind, n) \in Entries
         /\ Event(id, kind, n).id = id
         /\ Event(id, kind, n).kind = kind
         /\ Event(id, kind, n).name = n
BY DEF Event, Entries

\* prune drops entries at the front and keeps the others in their order.
LEMMA LogCut ==
  ASSUME events \in Seq(Entries), NEW new \in Seq(Entries), Log(new)
  PROVE  /\ events' \in Seq(Entries)
         /\ Len(events') <= MaxKept
         /\ ~pruned' => ~pruned /\ events' = events \o new
         /\ \E k \in Nat : \A i \in DOMAIN events' :
              i + k \in DOMAIN (events \o new) /\ events'[i] = (events \o new)[i + k]
<1> DEFINE all == events \o new
<1>1. all \in Seq(Entries)
  BY ConcatProperties
<1>2. /\ events' = IF Len(all) > MaxKept
                   THEN SubSeq(all, Len(all) - MaxKept + 1, Len(all)) ELSE all
      /\ pruned' = (pruned \/ Len(all) > MaxKept)
  BY DEF Log
<1> HIDE DEF all
<1>3. Len(all) \in Nat /\ DOMAIN all = 1..Len(all) /\ \A i \in 1..Len(all) : all[i] \in Entries
  BY <1>1, LenProperties
<1>4. MaxKept \in Nat \ {0}
  BY HistoryAssumption
<1>5. CASE Len(all) > MaxKept
  <2> DEFINE m == Len(all) - MaxKept + 1
             cut == SubSeq(all, m, Len(all))
  <2>1. m \in Int /\ m >= 1 /\ Len(all) - m + 1 = MaxKept /\ m <= Len(all)
    BY <1>3, <1>4, <1>5
  <2>2. events' = cut
    BY <1>2, <1>5
  <2> HIDE DEF m
  <2>3. \A i \in m..Len(all) : all[i] \in Entries
    BY <1>3, <2>1
  <2>4. /\ cut \in Seq(Entries)
        /\ Len(cut) = MaxKept
        /\ \A i \in 1..MaxKept : cut[i] = all[m + i - 1]
    BY <1>3, <2>1, <2>3, SubSeqProperties
  <2>5. DOMAIN cut = 1..MaxKept
    BY <2>4, LenProperties
  <2> HIDE DEF cut
  <2>6. m - 1 \in Nat /\ \A i \in 1..MaxKept :
          i + (m - 1) \in 1..Len(all) /\ cut[i] = all[i + (m - 1)]
    BY <1>3, <1>4, <2>1, <2>4
  <2>7. \A i \in DOMAIN events' : i + (m - 1) \in DOMAIN all /\ events'[i] = all[i + (m - 1)]
    BY <1>3, <2>2, <2>5, <2>6
  <2>8. \E k \in Nat : \A i \in DOMAIN events' : i + k \in DOMAIN all /\ events'[i] = all[i + k]
    BY <2>6, <2>7
  <2>9. pruned'
    BY <1>2, <1>5
  <2>10. Len(events') <= MaxKept
    BY <1>4, <2>2, <2>4
  <2> QED
    BY <2>2, <2>4, <2>8, <2>9, <2>10, Zenon DEF all
<1>6. CASE ~(Len(all) > MaxKept)
  <2>1. events' = all /\ (~pruned' => ~pruned)
    BY <1>2, <1>6
  <2>2. \A i \in DOMAIN all : i + 0 \in DOMAIN all /\ all[i] = all[i + 0]
    BY <1>3
  <2>3. \E k \in Nat : \A i \in DOMAIN events' : i + k \in DOMAIN all /\ events'[i] = all[i + k]
    BY <2>1, <2>2
  <2>4. Len(events') <= MaxKept
    BY <1>3, <1>4, <1>6, <2>1
  <2> QED
    BY <1>1, <2>1, <2>3, <2>4, Zenon DEF all
<1> QED
  BY <1>5, <1>6

\* What is said of every entry, and of every two in their order, is true of what
\* prune leaves.
LEMMA CutConsistent ==
  ASSUME NEW all \in Seq(Entries), NEW log \in Seq(Entries), NEW open \in [Names -> Nat],
         NEW top \in Nat, NEW k \in Nat,
         \A i \in DOMAIN log : i + k \in DOMAIN all /\ log[i] = all[i + k],
         Consistent(all, open, top)
  PROVE  Consistent(log, open, top)
<1>1. DOMAIN log \subseteq Int
  BY LenProperties
<1>2. Given(log, open, top) /\ Apart(open)
  BY DEF Consistent, Given
<1>3. InOrder(log)
  <2> SUFFICES ASSUME NEW i \in DOMAIN log, NEW j \in DOMAIN log, i < j, log[i].id = log[j].id
               PROVE  /\ log[i].name = log[j].name
                      /\ log[j].kind \in Ended /\ log[i].kind \notin Sendings
    BY DEF InOrder
  <2>1. i + k < j + k
    BY <1>1
  <2>2. /\ i + k \in DOMAIN all /\ j + k \in DOMAIN all
        /\ log[i] = all[i + k] /\ log[j] = all[j + k]
    OBVIOUS
  <2> QED
    BY <2>1, <2>2 DEF Consistent, InOrder
<1>4. StillOpen(log, open)
  BY DEF Consistent, StillOpen
<1> QED
  BY <1>2, <1>3, <1>4 DEF Consistent

\* So a method whose entries leave the log consistent leaves it so after prune.
LEMMA LogConsistent ==
  ASSUME events \in Seq(Entries), NEW new \in Seq(Entries), Log(new),
         NEW open \in [Names -> Nat], NEW top \in Nat,
         Consistent(events \o new, open, top)
  PROVE  Consistent(events', open, top)
<1>1. events \o new \in Seq(Entries)
  BY ConcatProperties
<1>2. events' \in Seq(Entries)
  BY LogCut
<1>3. PICK k \in Nat : \A i \in DOMAIN events' :
        i + k \in DOMAIN (events \o new) /\ events'[i] = (events \o new)[i + k]
  BY LogCut
<1> QED
  BY <1>1, <1>2, <1>3, CutConsistent

\* The entries of a log that another one follows.
LEMMA Followed ==
  ASSUME NEW log \in Seq(Entries), NEW new \in Seq(Entries)
  PROVE  /\ log \o new \in Seq(Entries)
         /\ Len(log) \in Nat /\ DOMAIN log = 1..Len(log)
         /\ Len(new) \in Nat /\ DOMAIN new = 1..Len(new)
         /\ DOMAIN (log \o new) = 1..(Len(log) + Len(new))
         /\ \A i \in DOMAIN log : i \in DOMAIN (log \o new) /\ (log \o new)[i] = log[i]
         /\ \A i \in DOMAIN new : /\ Len(log) + i \in DOMAIN (log \o new)
                                  /\ (log \o new)[Len(log) + i] = new[i]
         /\ \A i \in DOMAIN (log \o new) :
              \/ i \in DOMAIN log
              \/ i > Len(log) /\ i - Len(log) \in DOMAIN new /\ (log \o new)[i] = new[i - Len(log)]
<1> DEFINE all == log \o new
<1>1. /\ all \in Seq(Entries) /\ Len(all) = Len(log) + Len(new)
      /\ \A i \in 1..(Len(log) + Len(new)) :
           all[i] = IF i <= Len(log) THEN log[i] ELSE new[i - Len(log)]
  BY ConcatProperties
<1>2. DOMAIN all = 1..Len(all)
  BY <1>1, LenProperties
<1>3. Len(log) \in Nat /\ DOMAIN log = 1..Len(log) /\ Len(new) \in Nat /\ DOMAIN new = 1..Len(new)
  BY LenProperties
<1> HIDE DEF all
<1>4. \A i \in DOMAIN log : i \in DOMAIN all /\ all[i] = log[i]
  BY <1>1, <1>2, <1>3
<1>5. \A i \in DOMAIN new : Len(log) + i \in DOMAIN all /\ all[Len(log) + i] = new[i]
  <2> TAKE i \in DOMAIN new
  <2>1. Len(log) + i \in 1..(Len(log) + Len(new)) /\ ~(Len(log) + i <= Len(log))
        /\ (Len(log) + i) - Len(log) = i
    BY <1>3
  <2> QED
    BY <1>1, <1>2, <2>1
<1>6. \A i \in DOMAIN all :
        i \in DOMAIN log \/ (i > Len(log) /\ i - Len(log) \in DOMAIN new /\ all[i] = new[i - Len(log)])
  BY <1>1, <1>2, <1>3
<1> QED
  BY <1>1, <1>2, <1>3, <1>4, <1>5, <1>6 DEF all

-----------------------------------------------------------------------------
(*****************************************************************************)
(* What each method adds keeps the log consistent.                           *)
(*****************************************************************************)
\* A session of one entry.
LEMMA NewSession ==
  ASSUME NEW log \in Seq(Entries), NEW open \in [Names -> Nat], NEW top \in Nat \ {0},
         Consistent(log, open, top), NEW e \in Entries, e.id = top
  PROVE  Consistent(log \o <<e>>, open, top + 1)
<1> DEFINE all == log \o <<e>>
<1>1. /\ <<e>> \in Seq(Entries) /\ DOMAIN <<e>> = {1} /\ <<e>>[1] = e
  OBVIOUS
<1>2. /\ Len(log) \in Nat /\ DOMAIN log = 1..Len(log)
      /\ \A i \in DOMAIN log : i \in DOMAIN all /\ all[i] = log[i]
      /\ \A i \in DOMAIN all : i \in DOMAIN log \/ (i > Len(log) /\ i - Len(log) = 1 /\ all[i] = e)
  BY <1>1, Followed
<1>3. \A i \in DOMAIN all : (i \in DOMAIN log /\ all[i] = log[i] /\ log[i].id < top)
                              \/ (i = Len(log) + 1 /\ all[i] = e)
  <2> TAKE i \in DOMAIN all
  <2>1. CASE i \in DOMAIN log
    <3>1. log[i].id \in 1..(top - 1)
      BY <2>1 DEF Consistent, Given
    <3> QED
      BY <1>2, <2>1, <3>1
  <2>2. CASE i > Len(log) /\ i - Len(log) = 1 /\ all[i] = e
    <3>1. DOMAIN all \subseteq Int
      <4>1. all \in Seq(Entries)
        BY <1>1, Followed
      <4> QED
        BY <4>1, LenProperties
    <3> QED
      BY <1>2, <2>2, <3>1
  <2> QED
    BY <1>2, <2>1, <2>2
<1> HIDE DEF all
<1>4. Given(all, open, top + 1)
  <2>1. \A i \in DOMAIN all : all[i].id \in 1..((top + 1) - 1)
    <3> TAKE i \in DOMAIN all
    <3>1. CASE i \in DOMAIN log /\ all[i] = log[i]
      <4>1. log[i].id \in 1..(top - 1)
        BY <3>1 DEF Consistent, Given
      <4> QED
        BY <3>1, <4>1
    <3> QED
      BY <1>3, <3>1
  <2>2. \A n \in Names : open[n] < top + 1
    BY DEF Consistent, Given
  <2> QED
    BY <2>1, <2>2 DEF Given
<1>5. Apart(open)
  BY DEF Consistent
<1>6. InOrder(all)
  <2> SUFFICES ASSUME NEW i \in DOMAIN all, NEW j \in DOMAIN all, i < j, all[i].id = all[j].id
               PROVE  /\ all[i].name = all[j].name
                      /\ all[j].kind \in Ended /\ all[i].kind \notin Sendings
    BY DEF InOrder
  <2>1. CASE j \in DOMAIN log /\ all[j] = log[j] /\ i \in DOMAIN log /\ all[i] = log[i]
    BY <2>1 DEF Consistent, InOrder
  <2>2. CASE j = Len(log) + 1 /\ all[j] = e
    <3>1. i \in DOMAIN log /\ all[i].id < top
      BY <1>2, <1>3, <2>2
    <3> QED
      BY <2>2, <3>1
  <2> QED
    BY <1>2, <1>3, <2>1, <2>2
<1>7. StillOpen(all, open)
  <2> SUFFICES ASSUME NEW n \in Names, NEW i \in DOMAIN all,
                      open[n] # Closed, all[i].id = open[n]
               PROVE  all[i].kind = "arrived" /\ all[i].name = n
    BY DEF StillOpen
  <2>1. open[n] < top
    BY DEF Consistent, Given
  <2>2. i \in DOMAIN log /\ all[i] = log[i]
    BY <1>3, <2>1
  <2> QED
    BY <2>2 DEF Consistent, StillOpen
<1> QED
  BY <1>4, <1>5, <1>6, <1>7 DEF Consistent, all

\* The end of a session: that of an open one, or one with the arrival of that name on record.
LEMMA EndOfSession ==
  ASSUME NEW log \in Seq(Entries), NEW open \in [Names -> Nat], NEW top \in Nat \ {0},
         Consistent(log, open, top), NEW e \in Entries, NEW n \in Names,
         e.name = n, e.kind \in Ended, e.id \in 1..(top - 1),
         e.id = open[n] \/ (open[n] = Closed /\ \E i \in DOMAIN log :
                              log[i].id = e.id /\ log[i].kind = "arrived" /\ log[i].name = n)
  PROVE  Consistent(log \o <<e>>, [open EXCEPT ![n] = Closed], top)
<1> DEFINE all == log \o <<e>>
           left == [open EXCEPT ![n] = Closed]
<1>1. /\ <<e>> \in Seq(Entries) /\ DOMAIN <<e>> = {1} /\ <<e>>[1] = e
  OBVIOUS
<1>2. /\ Len(log) \in Nat /\ DOMAIN log = 1..Len(log) /\ DOMAIN all \subseteq Int
      /\ \A i \in DOMAIN all : (i \in DOMAIN log /\ all[i] = log[i])
                                 \/ (i > Len(log) /\ i - Len(log) = 1 /\ all[i] = e)
  BY <1>1, Followed
<1>3. \A i \in DOMAIN all : (i \in DOMAIN log /\ all[i] = log[i])
                              \/ (i = Len(log) + 1 /\ all[i] = e)
  BY <1>2
<1>4. left \in [Names -> Nat] /\ left[n] = Closed /\ \A m \in Names : m # n => left[m] = open[m]
  BY DEF Closed
<1>5. \A m \in Names : left[m] # Closed => m # n /\ left[m] = open[m]
  BY <1>4
\* Who else is open is not in that session.
<1>6. \A m \in Names : (m # n /\ open[m] # Closed) => open[m] # e.id
  <2> SUFFICES ASSUME NEW m \in Names, m # n, open[m] # Closed, open[m] = e.id PROVE FALSE
    OBVIOUS
  <2>1. CASE e.id = open[n]
    BY <2>1 DEF Consistent, Apart
  <2>2. CASE \E i \in DOMAIN log : log[i].id = e.id /\ log[i].kind = "arrived" /\ log[i].name = n
    BY <2>2 DEF Consistent, StillOpen
  <2> QED
    BY <2>1, <2>2
\* The session has no end yet but for ends of the same name.
<1>7. \A i \in DOMAIN log : log[i].id = e.id => log[i].name = n /\ log[i].kind \notin Sendings
  <2> SUFFICES ASSUME NEW i \in DOMAIN log, log[i].id = e.id
               PROVE  log[i].name = n /\ log[i].kind \notin Sendings
    OBVIOUS
  <2>1. CASE e.id = open[n]
    <3>1. open[n] # Closed
      BY <2>1 DEF Closed
    <3> QED
      BY <2>1, <3>1 DEF Consistent, StillOpen, Sendings
  <2>2. ASSUME NEW k \in DOMAIN log, log[k].id = e.id, log[k].kind = "arrived", log[k].name = n
        PROVE  log[i].name = n /\ log[i].kind \notin Sendings
    <3>1. CASE i < k
      <4>1. log[k].kind \in Ended
        BY <2>2, <3>1 DEF Consistent, InOrder
      <4> QED
        BY <2>2, <4>1 DEF Ended
    <3>2. CASE k < i
      <4>1. log[k].name = log[i].name /\ log[i].kind \in Ended
        BY <2>2, <3>2 DEF Consistent, InOrder
      <4> QED
        BY <2>2, <4>1 DEF Ended, Sendings
    <3>3. CASE i = k
      BY <2>2, <3>3 DEF Sendings
    <3> QED
      BY <1>2, <3>1, <3>2, <3>3
  <2> QED
    BY <2>1, <2>2
<1> HIDE DEF all, left
<1>8. Given(all, left, top)
  <2>1. \A i \in DOMAIN all : all[i].id \in 1..(top - 1)
    BY <1>3 DEF Consistent, Given
  <2>2. \A m \in Names : left[m] < top
    BY <1>4 DEF Consistent, Given, Closed
  <2> QED
    BY <2>1, <2>2 DEF Given
<1>9. Apart(left)
  BY <1>5 DEF Consistent, Apart
<1>10. InOrder(all)
  <2> SUFFICES ASSUME NEW i \in DOMAIN all, NEW j \in DOMAIN all, i < j, all[i].id = all[j].id
               PROVE  /\ all[i].name = all[j].name
                      /\ all[j].kind \in Ended /\ all[i].kind \notin Sendings
    BY DEF InOrder
  <2>1. CASE j \in DOMAIN log /\ all[j] = log[j] /\ i \in DOMAIN log /\ all[i] = log[i]
    BY <2>1 DEF Consistent, InOrder
  <2>2. CASE j = Len(log) + 1 /\ all[j] = e
    <3>1. i \in DOMAIN log /\ all[i] = log[i]
      BY <1>2, <1>3, <2>2
    <3> QED
      BY <1>7, <2>2, <3>1
  <2> QED
    BY <1>2, <1>3, <2>1, <2>2
<1>11. StillOpen(all, left)
  <2> SUFFICES ASSUME NEW m \in Names, NEW i \in DOMAIN all,
                      left[m] # Closed, all[i].id = left[m]
               PROVE  all[i].kind = "arrived" /\ all[i].name = m
    BY DEF StillOpen
  <2>1. m # n /\ left[m] = open[m]
    BY <1>5
  <2>2. i \in DOMAIN log /\ all[i] = log[i]
    BY <1>3, <1>6, <2>1
  <2> QED
    BY <2>1, <2>2 DEF Consistent, StillOpen
<1> QED
  BY <1>8, <1>9, <1>10, <1>11 DEF Consistent, all, left

\* A poll: the sessions of the names in f, each its own, and the ends of those in g.
Opened(f, top) == [i \in DOMAIN f |-> Event(top + i - 1, "arrived", f[i])]
Gone(g, open) == [i \in DOMAIN g |-> Event(open[g[i]], "deleted", g[i])]
Place(f, n) == CHOOSE i \in DOMAIN f : f[i] = n
SessionOf(f, top, n) == top - 1 + Place(f, n)
PollTo(fresh, gone, f, open, top) ==
  [n \in Names |->
     CASE n \in fresh -> SessionOf(f, top, n)
       [] n \in gone -> Closed
       [] OTHER -> open[n]]
AfterPoll(f, g, open, top) == PollTo(ToSet(f), ToSet(g), f, open, top)

\* A list of names, each once.
Listed(f) ==
  /\ f \in Seq(Names)
  /\ \A i, j \in DOMAIN f : f[i] = f[j] => i = j

LEMMA OpenedEntries ==
  ASSUME NEW f, Listed(f), NEW top \in Nat \ {0}
  PROVE  /\ Opened(f, top) \in Seq(Entries) /\ Len(Opened(f, top)) = Len(f)
         /\ DOMAIN Opened(f, top) = DOMAIN f
         /\ \A i \in DOMAIN f : /\ Opened(f, top)[i].id = top + i - 1
                                /\ Opened(f, top)[i].kind = "arrived"
                                /\ Opened(f, top)[i].name = f[i]
<1>1. Len(f) \in Nat /\ DOMAIN f = 1..Len(f) /\ \A i \in DOMAIN f : f[i] \in Names
  BY LenProperties DEF Listed
<1>2. \A i \in DOMAIN f : top + i - 1 \in Nat /\ "arrived" \in Tracked \cup Sendings
  BY <1>1 DEF Tracked
<1>3. ASSUME NEW i \in DOMAIN f
      PROVE  /\ Opened(f, top)[i] \in Entries
             /\ Opened(f, top)[i].id = top + i - 1
             /\ Opened(f, top)[i].kind = "arrived"
             /\ Opened(f, top)[i].name = f[i]
  <2>1. Opened(f, top)[i] = Event(top + i - 1, "arrived", f[i])
    BY DEF Opened
  <2>2. top + i - 1 \in Nat /\ f[i] \in Names /\ "arrived" \in Tracked \cup Sendings
    BY <1>1, <1>2
  <2> QED
    BY <2>1, <2>2, EventIs
<1>4. DOMAIN Opened(f, top) = 1..Len(f) /\ Opened(f, top) = [i \in 1..Len(f) |-> Opened(f, top)[i]]
  BY <1>1 DEF Opened
<1>5. Opened(f, top) \in [1..Len(f) -> Entries]
  BY <1>1, <1>3, <1>4
<1>6. Opened(f, top) \in Seq(Entries)
  BY <1>1, <1>5
<1>7. Len(Opened(f, top)) = Len(f)
  BY <1>1, <1>4, <1>6, LenProperties
<1> QED
  BY <1>1, <1>3, <1>4, <1>6, <1>7

LEMMA GoneEntries ==
  ASSUME NEW g, Listed(g), NEW open \in [Names -> Nat]
  PROVE  /\ Gone(g, open) \in Seq(Entries) /\ Len(Gone(g, open)) = Len(g)
         /\ DOMAIN Gone(g, open) = DOMAIN g
         /\ \A i \in DOMAIN g : /\ Gone(g, open)[i].id = open[g[i]]
                                /\ Gone(g, open)[i].kind = "deleted"
                                /\ Gone(g, open)[i].name = g[i]
<1>1. Len(g) \in Nat /\ DOMAIN g = 1..Len(g) /\ \A i \in DOMAIN g : g[i] \in Names
  BY LenProperties DEF Listed
<1>2. "deleted" \in Tracked \cup Sendings
  BY DEF Tracked, Ended
<1>3. ASSUME NEW i \in DOMAIN g
      PROVE  /\ Gone(g, open)[i] \in Entries
             /\ Gone(g, open)[i].id = open[g[i]]
             /\ Gone(g, open)[i].kind = "deleted"
             /\ Gone(g, open)[i].name = g[i]
  <2>1. Gone(g, open)[i] = Event(open[g[i]], "deleted", g[i])
    BY DEF Gone
  <2>2. open[g[i]] \in Nat /\ g[i] \in Names
    BY <1>1
  <2> QED
    BY <1>2, <2>1, <2>2, EventIs
<1>4. DOMAIN Gone(g, open) = 1..Len(g) /\ Gone(g, open) = [i \in 1..Len(g) |-> Gone(g, open)[i]]
  BY <1>1 DEF Gone
<1>5. Gone(g, open) \in [1..Len(g) -> Entries]
  BY <1>1, <1>3, <1>4
<1>6. Gone(g, open) \in Seq(Entries)
  BY <1>1, <1>5
<1>7. Len(Gone(g, open)) = Len(g)
  BY <1>1, <1>4, <1>6, LenProperties
<1> QED
  BY <1>1, <1>3, <1>4, <1>6, <1>7

\* The IDs a poll leaves open.
LEMMA PollOpens ==
  ASSUME NEW f, NEW g, Listed(f), Listed(g), ToSet(f) \cap ToSet(g) = {},
         NEW open \in [Names -> Nat], NEW top \in Nat \ {0}
  PROVE  /\ AfterPoll(f, g, open, top) \in [Names -> Nat]
         /\ \A n \in Names :
              \/ \E i \in DOMAIN f : f[i] = n /\ AfterPoll(f, g, open, top)[n] = top + i - 1
              \/ (\E i \in DOMAIN g : g[i] = n) /\ AfterPoll(f, g, open, top)[n] = Closed
              \/ /\ ~\E i \in DOMAIN f : f[i] = n
                 /\ ~\E i \in DOMAIN g : g[i] = n
                 /\ AfterPoll(f, g, open, top)[n] = open[n]
<1>1. Len(f) \in Nat /\ DOMAIN f = 1..Len(f)
  BY LenProperties DEF Listed
<1>2. ASSUME NEW n \in Names
      PROVE  /\ \/ \E i \in DOMAIN f : f[i] = n /\ AfterPoll(f, g, open, top)[n] = top + i - 1
                \/ (\E i \in DOMAIN g : g[i] = n) /\ AfterPoll(f, g, open, top)[n] = Closed
                \/ /\ ~\E i \in DOMAIN f : f[i] = n
                   /\ ~\E i \in DOMAIN g : g[i] = n
                   /\ AfterPoll(f, g, open, top)[n] = open[n]
             /\ AfterPoll(f, g, open, top)[n] \in Nat
  <2>1. CASE \E i \in DOMAIN f : f[i] = n
    <3>1. n \in ToSet(f)
      BY <2>1 DEF ToSet
    <3> DEFINE c == Place(f, n)
    <3>2. c \in DOMAIN f /\ f[c] = n
      BY <2>1 DEF Place
    <3>3. AfterPoll(f, g, open, top)[n] = top - 1 + c
      <4>1. AfterPoll(f, g, open, top)[n] = SessionOf(f, top, n)
        <5>1. n \notin ToSet(g)
          BY <3>1
        <5> QED
          BY <3>1, <5>1 DEF AfterPoll, PollTo
      <4> QED
        BY <4>1 DEF SessionOf
    <3> HIDE DEF c
    <3>4. top - 1 + c = top + c - 1 /\ top + c - 1 \in Nat
      BY <1>1, <3>2
    <3>5. AfterPoll(f, g, open, top)[n] = top + c - 1
      BY <3>3, <3>4
    <3> QED
      BY <3>2, <3>4, <3>5
  <2>2. CASE ~(\E i \in DOMAIN f : f[i] = n) /\ \E i \in DOMAIN g : g[i] = n
    <3>1. n \notin ToSet(f) /\ n \in ToSet(g)
      BY <2>2 DEF ToSet
    <3>2. AfterPoll(f, g, open, top)[n] = Closed
      BY <3>1 DEF AfterPoll, PollTo
    <3> QED
      BY <2>2, <3>2 DEF Closed
  <2>3. CASE ~(\E i \in DOMAIN f : f[i] = n) /\ ~\E i \in DOMAIN g : g[i] = n
    <3>1. n \notin ToSet(f) /\ n \notin ToSet(g)
      BY <2>3 DEF ToSet
    <3>2. AfterPoll(f, g, open, top)[n] = open[n]
      BY <3>1 DEF AfterPoll, PollTo
    <3> QED
      BY <2>3, <3>2
  <2> QED
    BY <2>1, <2>2, <2>3
<1>3. AfterPoll(f, g, open, top) = [n \in Names |-> AfterPoll(f, g, open, top)[n]]
  BY DEF AfterPoll, PollTo
<1> QED
  BY <1>2, <1>3

LEMMA PollConsistent ==
  ASSUME NEW log \in Seq(Entries), NEW open \in [Names -> Nat], NEW top \in Nat \ {0},
         Consistent(log, open, top),
         NEW f, NEW g, Listed(f), Listed(g),
         \A i \in DOMAIN f : open[f[i]] = Closed,
         \A i \in DOMAIN g : open[g[i]] # Closed
  PROVE  Consistent(log \o (Opened(f, top) \o Gone(g, open)),
                    AfterPoll(f, g, open, top), top + Len(f))
<1> DEFINE F == Opened(f, top)
           G == Gone(g, open)
           all == log \o (F \o G)
           after == AfterPoll(f, g, open, top)
<1>1. /\ F \in Seq(Entries) /\ Len(F) = Len(f) /\ DOMAIN F = DOMAIN f
      /\ \A i \in DOMAIN f : F[i].id = top + i - 1 /\ F[i].kind = "arrived" /\ F[i].name = f[i]
  BY OpenedEntries
<1>2. /\ G \in Seq(Entries) /\ DOMAIN G = DOMAIN g
      /\ \A i \in DOMAIN g : G[i].id = open[g[i]] /\ G[i].kind = "deleted" /\ G[i].name = g[i]
  BY GoneEntries
<1>3. Len(f) \in Nat /\ DOMAIN f = 1..Len(f) /\ DOMAIN g \subseteq Nat
  BY LenProperties DEF Listed
<1>4. /\ after \in [Names -> Nat]
      /\ \A n \in Names :
           \/ \E i \in DOMAIN f : f[i] = n /\ after[n] = top + i - 1
           \/ (\E i \in DOMAIN g : g[i] = n) /\ after[n] = Closed
           \/ /\ ~\E i \in DOMAIN g : g[i] = n
              /\ after[n] = open[n]
  <2>1. ToSet(f) \cap ToSet(g) = {}
    BY DEF ToSet
  <2> QED
    BY <2>1, PollOpens
<1>5. /\ F \o G \in Seq(Entries)
      /\ \A i \in DOMAIN (F \o G) :
           \/ i \in DOMAIN F /\ (F \o G)[i] = F[i]
           \/ i > Len(F) /\ i - Len(F) \in DOMAIN G /\ (F \o G)[i] = G[i - Len(F)]
      /\ DOMAIN (F \o G) \subseteq Nat
  BY <1>1, <1>2, Followed
<1>6. /\ all \in Seq(Entries) /\ Len(log) \in Nat /\ DOMAIN log = 1..Len(log)
      /\ DOMAIN all \subseteq Nat
      /\ \A i \in DOMAIN all :
           \/ i \in DOMAIN log /\ all[i] = log[i]
           \/ i > Len(log) /\ i - Len(log) \in DOMAIN (F \o G) /\ all[i] = (F \o G)[i - Len(log)]
  BY <1>5, Followed
<1>7. \A n \in Names : open[n] < top
  BY DEF Consistent, Given
<1> HIDE DEF F, G, all, after
\* The three kinds of entries, with their places.
<1> DEFINE Old(i) == i \in DOMAIN log /\ all[i] = log[i] /\ all[i].id < top
           New(i) == /\ i - Len(log) \in DOMAIN f
                     /\ all[i].id = top + (i - Len(log)) - 1 /\ ~(all[i].id < top)
                     /\ all[i].kind = "arrived" /\ all[i].name = f[i - Len(log)]
           End(i) == LET k == i - Len(log) - Len(f)
                     IN  /\ k \in DOMAIN g /\ i > Len(log) + Len(f)
                         /\ all[i].id = open[g[k]] /\ all[i].id < top /\ all[i].id # Closed
                         /\ all[i].kind = "deleted" /\ all[i].name = g[k]
<1>8. \A i \in DOMAIN all : Old(i) \/ New(i) \/ End(i)
  <2> TAKE i \in DOMAIN all
  <2>1. CASE i \in DOMAIN log /\ all[i] = log[i]
    <3>1. log[i].id \in 1..(top - 1)
      BY <2>1 DEF Consistent, Given
    <3> QED
      BY <2>1, <3>1
  <2>2. CASE /\ i > Len(log) /\ i - Len(log) \in DOMAIN F /\ all[i] = F[i - Len(log)]
    <3>1. /\ i - Len(log) \in DOMAIN f
          /\ all[i].id = top + (i - Len(log)) - 1
          /\ all[i].kind = "arrived" /\ all[i].name = f[i - Len(log)]
      BY <1>1, <2>2
    <3>2. ~(all[i].id < top)
      BY <1>3, <1>6, <3>1
    <3> QED
      BY <3>1, <3>2
  <2>3. CASE /\ i - Len(log) > Len(F) /\ (i - Len(log)) - Len(F) \in DOMAIN G
             /\ all[i] = G[(i - Len(log)) - Len(F)]
    <3> DEFINE k == i - Len(log) - Len(f)
    <3>1. k = (i - Len(log)) - Len(F) /\ i > Len(log) + Len(f)
      BY <1>1, <1>3, <1>6, <2>3
    <3>2. k \in DOMAIN g /\ all[i] = G[k]
      BY <1>2, <2>3, <3>1
    <3>3. g[k] \in Names /\ open[g[k]] # Closed
      BY <3>2 DEF Listed
    <3> HIDE DEF k
    <3>4. all[i].id = open[g[k]] /\ all[i].kind = "deleted" /\ all[i].name = g[k]
      BY <1>2, <3>2
    <3>5. all[i].id < top /\ all[i].id # Closed
      BY <1>7, <3>3, <3>4
    <3> QED
      BY <3>1, <3>2, <3>4, <3>5 DEF k
  <2> QED
    BY <1>5, <1>6, <2>1, <2>2, <2>3
<1>9. /\ top + Len(f) \in Nat /\ \A i \in DOMAIN f : top + i - 1 < top + Len(f)
  BY <1>3
<1> HIDE DEF Old, New, End
<1>10. Given(all, after, top + Len(f))
  <2>1. \A i \in DOMAIN all : all[i].id \in 1..((top + Len(f)) - 1)
    <3> TAKE i \in DOMAIN all
    <3>1. CASE Old(i)
      <4>1. log[i].id \in 1..(top - 1) /\ all[i] = log[i]
        BY <3>1 DEF Old, Consistent, Given
      <4> QED
        BY <1>3, <4>1
    <3>2. CASE New(i)
      BY <1>3, <3>2 DEF New
    <3>3. CASE End(i)
      <4>1. all[i] \in Entries
        BY <1>6, LenProperties
      <4>2. all[i].id \in Nat /\ all[i].id < top /\ all[i].id # Closed
        BY <3>3, <4>1 DEF End, Entries
      <4> QED
        BY <1>3, <4>2 DEF Closed
    <3> QED
      BY <1>8, <3>1, <3>2, <3>3
  <2>2. \A n \in Names : after[n] < top + Len(f)
    BY <1>3, <1>4, <1>7, <1>9 DEF Closed
  <2> QED
    BY <2>1, <2>2 DEF Given
<1>11. Apart(after)
  <2> SUFFICES ASSUME NEW m \in Names, NEW n \in Names, after[m] = after[n], after[m] # Closed
               PROVE  m = n
    BY DEF Apart
  <2>1. \/ \E i \in DOMAIN f : f[i] = m /\ after[m] = top + i - 1
        \/ after[m] = open[m] /\ open[m] < top
    BY <1>4, <1>7
  <2>2. \/ \E i \in DOMAIN f : f[i] = n /\ after[n] = top + i - 1
        \/ after[n] = open[n] /\ open[n] < top
    BY <1>4, <1>7
  <2>3. CASE after[m] < top
    <3>1. after[m] = open[m] /\ after[n] = open[n]
      BY <1>3, <2>1, <2>2, <2>3
    <3> QED
      BY <3>1 DEF Consistent, Apart
  <2>4. CASE ~(after[m] < top)
    <3>1. PICK i \in DOMAIN f : f[i] = m /\ after[m] = top + i - 1
      BY <2>1, <2>4
    <3>2. PICK j \in DOMAIN f : f[j] = n /\ after[n] = top + j - 1
      BY <2>2, <2>4
    <3>3. i \in Nat /\ j \in Nat /\ top \in Nat
      BY <1>3
    <3>4. top + i - 1 = top + j - 1
      BY <3>1, <3>2
    <3>5. i = j
      BY <3>3, <3>4
    <3> QED
      BY <3>1, <3>2, <3>5
  <2> QED
    BY <2>3, <2>4
<1>12. InOrder(all)
  <2> SUFFICES ASSUME NEW i \in DOMAIN all, NEW j \in DOMAIN all, i < j, all[i].id = all[j].id
               PROVE  /\ all[i].name = all[j].name
                      /\ all[j].kind \in Ended /\ all[i].kind \notin Sendings
    BY DEF InOrder
  <2>1. i \in Nat /\ j \in Nat
    BY <1>6
  <2>2. CASE Old(j)
    <3>1. i \in DOMAIN log
      BY <1>6, <2>1, <2>2 DEF Old
    <3>2. Old(i)
      BY <1>3, <1>6, <1>8, <2>1, <3>1 DEF Old, New, End
    <3> QED
      BY <2>2, <3>2 DEF Old, Consistent, InOrder
  <2>3. CASE New(j)
    <3>1. New(i)
      BY <1>8, <2>3 DEF Old, New, End
    <3> DEFINE h == i - Len(log)
               k == j - Len(log)
    <3>2. h \in Int /\ k \in Int /\ h < k /\ top \in Nat
      BY <1>6, <2>1
    <3>3. all[i].id = top + h - 1 /\ all[j].id = top + k - 1
      BY <2>3, <3>1 DEF New
    <3> HIDE DEF h, k
    <3>4. top + h - 1 = top + k - 1
      BY <3>3
    <3> QED
      BY <3>2, <3>4
  <2>4. CASE End(j)
    <3> DEFINE k == j - Len(log) - Len(f)
    <3>1. /\ k \in DOMAIN g /\ g[k] \in Names /\ all[j].id = open[g[k]]
          /\ all[j].id < top /\ all[j].id # Closed
          /\ all[j].kind = "deleted" /\ all[j].name = g[k]
      BY <2>4 DEF End, Listed
    <3> HIDE DEF k
    <3>2. all[j].kind \in Ended
      BY <3>1 DEF Ended
    <3>3. CASE Old(i)
      <4>1. log[i].kind = "arrived" /\ log[i].name = g[k]
        BY <3>1, <3>3 DEF Old, Consistent, StillOpen
      <4> QED
        BY <3>1, <3>2, <3>3, <4>1 DEF Old, Sendings
    <3>4. CASE New(i)
      BY <3>1, <3>4 DEF New
    <3>5. CASE End(i)
      <4> DEFINE h == i - Len(log) - Len(f)
      <4>1. /\ h \in DOMAIN g /\ g[h] \in Names /\ all[i].id = open[g[h]]
        BY <3>5 DEF End, Listed
      <4>2. h < k
        BY <1>3, <1>6, <2>1 DEF k
      <4> HIDE DEF h
      <4>3. open[g[h]] = open[g[k]] /\ open[g[h]] # Closed
        BY <3>1, <4>1
      <4>4. g[h] = g[k]
        BY <3>1, <4>1, <4>3 DEF Consistent, Apart
      <4>5. h = k
        BY <3>1, <4>1, <4>4 DEF Listed
      <4> QED
        BY <1>3, <3>1, <4>2, <4>5
    <3> QED
      BY <1>8, <3>3, <3>4, <3>5
  <2> QED
    BY <1>8, <2>2, <2>3, <2>4
<1>13. StillOpen(all, after)
  <2> SUFFICES ASSUME NEW n \in Names, NEW i \in DOMAIN all,
                      after[n] # Closed, all[i].id = after[n]
               PROVE  all[i].kind = "arrived" /\ all[i].name = n
    BY DEF StillOpen
  <2>1. CASE \E c \in DOMAIN f : f[c] = n /\ after[n] = top + c - 1
    <3>1. PICK c \in DOMAIN f : f[c] = n /\ after[n] = top + c - 1
      BY <2>1
    <3>2. ~(after[n] < top)
      BY <1>3, <3>1
    <3>3. New(i)
      BY <1>8, <3>2 DEF Old, New, End
    <3> DEFINE h == i - Len(log)
    <3>4. h \in Int /\ c \in Int /\ top \in Nat
      BY <1>3, <1>6
    <3>5. all[i].id = top + h - 1 /\ h \in DOMAIN f /\ all[i].kind = "arrived" /\ all[i].name = f[h]
      BY <3>3 DEF New
    <3> HIDE DEF h
    <3>6. top + h - 1 = top + c - 1
      BY <3>1, <3>5
    <3>7. h = c
      BY <3>4, <3>6
    <3> QED
      BY <3>1, <3>5, <3>7
  <2>2. CASE ~(\E k \in DOMAIN g : g[k] = n) /\ after[n] = open[n]
    <3>1. CASE Old(i)
      BY <2>2, <3>1 DEF Old, Consistent, StillOpen
    <3>2. CASE New(i)
      <4>1. open[n] < top /\ ~(open[n] < top)
        BY <1>7, <2>2, <3>2 DEF New
      <4> QED
        BY <4>1
    <3>3. CASE End(i)
      <4> DEFINE k == i - Len(log) - Len(f)
      <4>1. k \in DOMAIN g /\ g[k] \in Names /\ open[g[k]] = open[n] /\ open[n] # Closed
        BY <2>2, <3>3 DEF End, Listed
      <4> HIDE DEF k
      <4> QED
        BY <2>2, <4>1 DEF Consistent, Apart
    <3> QED
      BY <1>8, <3>1, <3>2, <3>3
  <2> QED
    BY <1>4, <2>1, <2>2
<1> QED
  BY <1>10, <1>11, <1>12, <1>13 DEF Consistent, F, G, all, after

-----------------------------------------------------------------------------
(*****************************************************************************)
(* What a log leaves open.                                                   *)
(*****************************************************************************)
Mine(log, n) == {i \in DOMAIN log : log[i].name = n /\ log[i].kind \in Tracked}
IsLast(S, m) == m \in S /\ \A j \in S : j <= m

LEMMA LastIs ==
  ASSUME NEW S \in SUBSET Nat, NEW m, IsLast(S, m)
  PROVE  (CHOOSE i \in S : \A j \in S : j <= i) = m
<1> DEFINE c == CHOOSE i \in S : \A j \in S : j <= i
<1>1. c \in S /\ \A j \in S : j <= c
  BY DEF IsLast
<1> HIDE DEF c
<1>2. c <= m /\ m <= c /\ c \in Nat /\ m \in Nat
  BY <1>1 DEF IsLast
<1>3. c = m
  BY <1>2
<1> QED
  BY <1>3 DEF c

\* Among finitely many numbers there is a greatest one.
LEMMA Greatest ==
  ASSUME NEW S, S \subseteq Nat, S # {}, IsFiniteSet(S)
  PROVE  \E k \in S : \A j \in S : j <= k
<1> DEFINE From(j) == {i \in S : i >= j}
           Above == {From(j) : j \in S}
<1>1. Above \subseteq FiniteSubsetsOf(S) /\ Above # {}
  <2>1. \A j \in S : From(j) \in SUBSET S
    OBVIOUS
  <2>2. \A j \in S : IsFiniteSet(From(j))
    BY <2>1, FS_Subset
  <2> HIDE DEF From
  <2> QED
    BY <2>1, <2>2 DEF FiniteSubsetsOf
<1>2. \E x \in Above : \A y \in Above : ~ (<<y, x>> \in StrictSubsetOrdering(S))
  <2> HIDE DEF Above
  <2> QED
    BY <1>1, FS_StrictSubsetOrderingWellFounded, WFMin
<1>3. PICK k \in S : \A j \in S : ~ (<<From(j), From(k)>> \in StrictSubsetOrdering(S))
  BY <1>2
<1>4. ASSUME NEW j \in S, j > k PROVE FALSE
  <2>1. k \in From(k) /\ k \notin From(j)
    BY <1>4
  <2>2. \A i \in From(j) : i \in S /\ i >= k
    <3> SUFFICES ASSUME NEW i \in S, i >= j PROVE i >= k
      OBVIOUS
    <3> i \in Nat /\ j \in Nat /\ k \in Nat
      OBVIOUS
    <3> QED
      BY <1>4
  <2>3. From(j) \in SUBSET S /\ From(k) \in SUBSET S /\ From(j) \subseteq From(k)
    BY <2>2
  <2> HIDE DEF From
  <2> QED
    BY <1>3, <2>1, <2>3 DEF StrictSubsetOrdering
<1> QED
  BY <1>4

\* A set of places of a log has a last one, if it has one at all.
LEMMA HasLast ==
  ASSUME NEW k \in Nat, NEW S \in SUBSET (1..k), S # {}
  PROVE  \E m \in S : IsLast(S, m)
<1>1. IsFiniteSet(1..k)
  BY FS_Interval
<1>2. IsFiniteSet(S)
  BY <1>1, FS_Subset, Zenon
<1>3. S \subseteq Nat
  OBVIOUS
<1>4. \E m \in S : \A j \in S : j <= m
  BY <1>2, <1>3, Greatest
<1> QED
  BY <1>4 DEF IsLast

LEMMA OpenIs ==
  ASSUME NEW log \in Seq(Entries), NEW n \in Names
  PROVE  /\ Mine(log, n) = {} => OpenAfter(log)[n] = Closed
         /\ \A m : IsLast(Mine(log, n), m) =>
              OpenAfter(log)[n] = IF log[m].kind = "arrived" THEN log[m].id ELSE Closed
         /\ \/ Mine(log, n) = {}
            \/ \E m \in Mine(log, n) : IsLast(Mine(log, n), m)
<1> DEFINE mine == {i \in DOMAIN log :
                      log[i].name = n /\ log[i].kind \in {"arrived", "saved", "deleted"}}
           latest == CHOOSE i \in mine : \A j \in mine : j <= i
<1>1. OpenAfter(log)[n] =
        IF mine = {} \/ log[latest].kind # "arrived" THEN Closed ELSE log[latest].id
  BY DEF OpenAfter
<1>2. mine = Mine(log, n)
  BY DEF Mine, Tracked, Ended
<1>3. Len(log) \in Nat /\ DOMAIN log = 1..Len(log)
  BY LenProperties
<1> HIDE DEF mine
<1>4. mine \in SUBSET Nat /\ mine \in SUBSET (1..Len(log))
  BY <1>2, <1>3 DEF Mine
<1>5. mine = {} \/ \E m \in mine : IsLast(mine, m)
  BY <1>3, <1>4, HasLast
<1>6. ASSUME NEW m, IsLast(mine, m)
      PROVE  OpenAfter(log)[n] = IF log[m].kind = "arrived" THEN log[m].id ELSE Closed
  <2>1. latest = m
    BY <1>4, <1>6, LastIs
  <2>2. mine # {}
    BY <1>6 DEF IsLast
  <2> HIDE DEF latest
  <2> QED
    BY <1>1, <2>1, <2>2
<1>7. mine = {} => OpenAfter(log)[n] = Closed
  <2> HIDE DEF latest
  <2> QED
    BY <1>1
<1> QED
  BY <1>2, <1>5, <1>6, <1>7

\* Entries of other names, and of files sent, change nothing.
LEMMA OthersLeaveOpen ==
  ASSUME NEW log \in Seq(Entries), NEW new \in Seq(Entries), NEW n \in Names, Mine(new, n) = {}
  PROVE  OpenAfter(log \o new)[n] = OpenAfter(log)[n]
<1> DEFINE all == log \o new
<1>1. /\ all \in Seq(Entries)
      /\ \A i \in DOMAIN log : i \in DOMAIN all /\ all[i] = log[i]
      /\ \A i \in DOMAIN all :
           i \in DOMAIN log \/ (i - Len(log) \in DOMAIN new /\ all[i] = new[i - Len(log)])
  BY Followed
<1> HIDE DEF all
<1>2. Mine(all, n) = Mine(log, n)
  BY <1>1 DEF Mine
<1>3. CASE Mine(log, n) = {}
  BY <1>1, <1>2, <1>3, OpenIs DEF all
<1>4. CASE \E m \in Mine(log, n) : IsLast(Mine(log, n), m)
  <2>1. PICK m \in Mine(log, n) : IsLast(Mine(log, n), m)
    BY <1>4
  <2>2. OpenAfter(log)[n] = IF log[m].kind = "arrived" THEN log[m].id ELSE Closed
    BY <2>1, OpenIs
  <2>3. OpenAfter(all)[n] = IF all[m].kind = "arrived" THEN all[m].id ELSE Closed
    BY <1>1, <1>2, <2>1, OpenIs
  <2>4. all[m] = log[m]
    BY <1>1, <2>1 DEF Mine
  <2> QED
    BY <2>2, <2>3, <2>4 DEF all
<1> QED
  BY <1>3, <1>4, OpenIs

\* The last of the new entries of a name says whether it is open.
LEMMA LastLeavesOpen ==
  ASSUME NEW log \in Seq(Entries), NEW new \in Seq(Entries), NEW n \in Names,
         NEW m, IsLast(Mine(new, n), m)
  PROVE  OpenAfter(log \o new)[n] = IF new[m].kind = "arrived" THEN new[m].id ELSE Closed
<1> DEFINE all == log \o new
           k == Len(log) + m
<1>1. /\ all \in Seq(Entries) /\ Len(log) \in Nat /\ DOMAIN log = 1..Len(log)
      /\ DOMAIN new = 1..Len(new) /\ Len(new) \in Nat
      /\ \A i \in DOMAIN new : Len(log) + i \in DOMAIN all /\ all[Len(log) + i] = new[i]
      /\ \A i \in DOMAIN all :
           i \in DOMAIN log
             \/ (i > Len(log) /\ i - Len(log) \in DOMAIN new /\ all[i] = new[i - Len(log)])
      /\ DOMAIN all = 1..(Len(log) + Len(new))
  BY Followed
<1>2. m \in DOMAIN new /\ m \in Mine(new, n) /\ \A j \in Mine(new, n) : j <= m
  BY DEF IsLast, Mine
<1>3. k \in DOMAIN all /\ all[k] = new[m]
  BY <1>1, <1>2
<1> HIDE DEF all
<1>4. k \in Mine(all, n)
  BY <1>2, <1>3 DEF Mine
<1>5. ASSUME NEW j \in Mine(all, n) PROVE j <= k
  <2>1. j \in DOMAIN all /\ j \in Int /\ m \in Nat
    BY <1>1, <1>2 DEF Mine
  <2>2. CASE j \in DOMAIN log
    BY <1>1, <2>1, <2>2
  <2>3. CASE j > Len(log) /\ j - Len(log) \in DOMAIN new /\ all[j] = new[j - Len(log)]
    <3>1. j - Len(log) \in Mine(new, n)
      BY <2>3 DEF Mine
    <3>2. j - Len(log) <= m
      BY <1>2, <3>1
    <3> QED
      BY <1>1, <2>1, <3>2
  <2> QED
    BY <1>1, <2>1, <2>2, <2>3
<1>6. IsLast(Mine(all, n), k)
  BY <1>4, <1>5 DEF IsLast
<1> HIDE DEF k
<1>7. OpenAfter(all)[n] = IF all[k].kind = "arrived" THEN all[k].id ELSE Closed
  BY <1>1, <1>6, OpenIs
<1> QED
  BY <1>3, <1>7 DEF all

LEMMA OpenAfterType ==
  ASSUME NEW log \in Seq(Entries)
  PROVE  /\ OpenAfter(log) \in [Names -> Nat]
         /\ \A n \in Names : OpenAfter(log)[n] # Closed =>
              \E m \in Mine(log, n) : /\ IsLast(Mine(log, n), m)
                                      /\ log[m].kind = "arrived" /\ log[m].id = OpenAfter(log)[n]
<1>1. ASSUME NEW n \in Names
      PROVE  /\ OpenAfter(log)[n] \in Nat
             /\ OpenAfter(log)[n] # Closed =>
                  \E m \in Mine(log, n) : /\ IsLast(Mine(log, n), m)
                                          /\ log[m].kind = "arrived" /\ log[m].id = OpenAfter(log)[n]
  <2>1. CASE Mine(log, n) = {}
    BY <2>1, OpenIs DEF Closed
  <2>2. ASSUME NEW m \in Mine(log, n), IsLast(Mine(log, n), m)
        PROVE  /\ OpenAfter(log)[n] \in Nat
               /\ OpenAfter(log)[n] # Closed =>
                    log[m].kind = "arrived" /\ log[m].id = OpenAfter(log)[n]
    <3>1. OpenAfter(log)[n] = IF log[m].kind = "arrived" THEN log[m].id ELSE Closed
      BY <2>2, OpenIs
    <3>2. log[m].id \in Nat
      <4>1. m \in DOMAIN log
        BY DEF Mine
      <4>2. log[m] \in Entries
        BY <4>1, LenProperties
      <4> QED
        BY <4>2 DEF Entries
    <3> QED
      BY <3>1, <3>2 DEF Closed
  <2> QED
    BY <2>1, <2>2, OpenIs
<1>2. OpenAfter(log) = [n \in Names |-> OpenAfter(log)[n]]
  BY DEF OpenAfter
<1> QED
  BY <1>1, <1>2

\* A restart keeps the log consistent.
LEMMA RestartConsistent ==
  ASSUME NEW log \in Seq(Entries), NEW open, NEW top \in Nat \ {0}, Consistent(log, open, top)
  PROVE  Consistent(log, OpenAfter(log), top)
<1> DEFINE after == OpenAfter(log)
<1>1. \A n \in Names : after[n] # Closed =>
        \E m \in Mine(log, n) : IsLast(Mine(log, n), m) /\ log[m].kind = "arrived" /\ log[m].id = after[n]
  BY OpenAfterType
<1>2. Len(log) \in Nat /\ DOMAIN log = 1..Len(log)
  BY LenProperties
<1>3. InOrder(log) /\ \A i \in DOMAIN log : log[i].id \in 1..(top - 1)
  BY DEF Consistent, Given
<1> HIDE DEF after
<1>4. StillOpen(log, after)
  <2> SUFFICES ASSUME NEW n \in Names, NEW i \in DOMAIN log, after[n] # Closed, log[i].id = after[n]
               PROVE  log[i].kind = "arrived" /\ log[i].name = n
    BY DEF StillOpen
  <2>1. PICK m \in Mine(log, n) :
          IsLast(Mine(log, n), m) /\ log[m].kind = "arrived" /\ log[m].id = after[n]
    BY <1>1
  <2>2. m \in DOMAIN log /\ log[m].name = n
    BY DEF Mine
  <2>3. CASE i < m
    <3>1. log[m].kind \in Ended
      BY <1>3, <2>1, <2>2, <2>3 DEF InOrder
    <3> QED
      BY <2>1, <3>1 DEF Ended
  <2>4. CASE m < i
    <3>1. log[i].kind \in Ended /\ log[i].name = n
      BY <1>3, <2>1, <2>2, <2>4 DEF InOrder
    <3>2. i \in Mine(log, n)
      BY <3>1 DEF Mine, Tracked
    <3>3. i <= m
      BY <2>1, <3>2 DEF IsLast
    <3> QED
      BY <1>2, <2>2, <2>4, <3>3
  <2>5. CASE i = m
    BY <2>1, <2>2, <2>5
  <2> QED
    BY <1>2, <2>2, <2>3, <2>4, <2>5
<1>5. Given(log, after, top)
  <2>1. ASSUME NEW n \in Names PROVE after[n] < top
    <3>1. CASE after[n] = Closed
      BY <3>1 DEF Closed
    <3>2. CASE after[n] # Closed
      <4>1. PICK m \in Mine(log, n) : log[m].id = after[n]
        BY <1>1, <3>2
      <4>2. log[m].id \in 1..(top - 1)
        BY <1>3 DEF Mine
      <4> QED
        BY <4>1, <4>2
    <3> QED
      BY <3>1, <3>2
  <2> QED
    BY <1>3, <2>1 DEF Given
<1>6. Apart(after)
  <2> SUFFICES ASSUME NEW n \in Names, NEW h \in Names, after[n] = after[h], after[n] # Closed
               PROVE  n = h
    BY DEF Apart
  <2>1. PICK m \in Mine(log, n) : log[m].id = after[n]
    BY <1>1
  <2>2. log[m].name = n /\ m \in DOMAIN log
    BY DEF Mine
  <2> QED
    BY <1>4, <2>1, <2>2 DEF StillOpen
<1> QED
  BY <1>3, <1>4, <1>5, <1>6 DEF Consistent, after

-----------------------------------------------------------------------------
(*****************************************************************************)
(* The methods, as what they append.                                         *)
(*****************************************************************************)
\* The maps are walked once: each name of a set has its turn, and one only.
LEMMA FewNames == ASSUME NEW S \in SUBSET Names PROVE IsFiniteSet(S)
BY HistoryAssumption, FS_Subset, Zenon

LEMMA Walks ==
  ASSUME NEW S \in SUBSET Names, NEW f \in SetToSeqs(S)
  PROVE  Listed(f) /\ ToSet(f) = S
<1> DEFINE k == Cardinality(S)
<1>1. IsFiniteSet(S) /\ k \in Nat
  <2>1. IsFiniteSet(S)
    BY FewNames
  <2> QED
    BY <2>1, FS_CardinalityType
<1>2. f \in [1..k -> S] /\ \A i, j \in 1..k : i # j => f[i] # f[j]
  BY DEF SetToSeqs
<1>3. IsFiniteSet(1..k) /\ Cardinality(1..k) = k
  BY <1>1, FS_Interval
<1>4. f \in Injection(1..k, S)
  BY <1>2 DEF Injection, IsInjective
<1>5. f \in Surjection(1..k, S)
  BY <1>1, <1>3, <1>4, FS_Injection
<1>6. \A n \in S : \E i \in 1..k : f[i] = n
  BY <1>5 DEF Surjection
<1> HIDE DEF k
<1>7. f \in Seq(Names) /\ DOMAIN f = 1..k
  BY <1>1, <1>2
<1>8. Listed(f)
  BY <1>2, <1>7 DEF Listed
<1>9. ToSet(f) = S
  BY <1>2, <1>6, <1>7 DEF ToSet
<1> QED
  BY <1>8, <1>9

LEMMA PollIs ==
  ASSUME NEW seen \in SUBSET Names, RecordArrivals(seen)
  PROVE  \E f, g :
           /\ Listed(f) /\ Listed(g)
           /\ \A i \in DOMAIN f : active[f[i]] = Closed
           /\ \A i \in DOMAIN g : active[g[i]] # Closed
           /\ Log(Opened(f, nextID) \o Gone(g, active))
           /\ nextID' = nextID + Len(f)
           /\ active' = AfterPoll(f, g, active, nextID)
           /\ age' = [n \in Names |-> IF n \in seen THEN 0 ELSE age[n]]
<1> DEFINE fresh == {n \in seen : active[n] = Closed}
           gone  == {n \in Names \ seen : active[n] # Closed /\ age[n] = Grace}
<1>1. PICK f \in SetToSeqs(fresh), g \in SetToSeqs(gone) :
        /\ age' = [n \in Names |-> IF n \in seen THEN 0 ELSE age[n]]
        /\ Log([i \in DOMAIN f |-> Event(nextID + i - 1, "arrived", f[i])]
               \o [i \in DOMAIN g |-> Event(active[g[i]], "deleted", g[i])])
        /\ nextID' = nextID + Len(f)
        /\ active' = [n \in Names |->
             CASE n \in fresh -> nextID - 1 + CHOOSE i \in DOMAIN f : f[i] = n
               [] n \in gone  -> Closed
               [] OTHER       -> active[n]]
  BY Zenon DEF RecordArrivals
<1>2. fresh \in SUBSET Names /\ gone \in SUBSET Names
  OBVIOUS
<1>3. (\A n \in fresh : active[n] = Closed) /\ (\A n \in gone : active[n] # Closed)
  OBVIOUS
<1> HIDE DEF fresh, gone
<1>4. Listed(f) /\ ToSet(f) = fresh /\ Listed(g) /\ ToSet(g) = gone
  BY <1>2, Walks
<1>5. (\A i \in DOMAIN f : active[f[i]] = Closed) /\ (\A i \in DOMAIN g : active[g[i]] # Closed)
  BY <1>3, <1>4 DEF ToSet
<1>6. active' = AfterPoll(f, g, active, nextID)
  <2>1. active' = PollTo(fresh, gone, f, active, nextID)
    BY <1>1, Zenon DEF PollTo, SessionOf, Place
  <2> QED
    BY <1>4, <2>1 DEF AfterPoll
<1>7. Log(Opened(f, nextID) \o Gone(g, active))
  BY <1>1, Zenon DEF Opened, Gone
<1> QED
  BY <1>1, <1>4, <1>5, <1>6, <1>7

LEMMA PollKeepsBook ==
  ASSUME Book, NEW seen \in SUBSET Names, RecordArrivals(seen)
  PROVE  Book'
<1>1. PICK f, g :
        /\ Listed(f) /\ Listed(g)
        /\ \A i \in DOMAIN f : active[f[i]] = Closed
        /\ \A i \in DOMAIN g : active[g[i]] # Closed
        /\ Log(Opened(f, nextID) \o Gone(g, active))
        /\ nextID' = nextID + Len(f)
        /\ active' = AfterPoll(f, g, active, nextID)
  BY PollIs
<1> DEFINE F == Opened(f, nextID)
           G == Gone(g, active)
           new == F \o G
<1>2. /\ events \in Seq(Entries) /\ active \in [Names -> Nat] /\ nextID \in Nat \ {0}
      /\ Consistent(events, active, nextID)
  BY DEF Book
<1>3. /\ F \in Seq(Entries) /\ Len(F) = Len(f) /\ DOMAIN F = DOMAIN f
      /\ \A i \in DOMAIN f : F[i].id = nextID + i - 1 /\ F[i].kind = "arrived" /\ F[i].name = f[i]
  BY <1>1, <1>2, OpenedEntries
<1>4. /\ G \in Seq(Entries) /\ Len(G) = Len(g) /\ DOMAIN G = DOMAIN g
      /\ \A i \in DOMAIN g : G[i].kind = "deleted" /\ G[i].name = g[i]
  BY <1>1, <1>2, GoneEntries
<1>5. new \in Seq(Entries)
  BY <1>3, <1>4, ConcatProperties
<1>6. ToSet(f) \cap ToSet(g) = {}
  BY <1>1 DEF ToSet
<1>7. active' \in [Names -> Nat]
  BY <1>1, <1>2, <1>6, PollOpens
<1>8. Len(f) \in Nat /\ DOMAIN f = 1..Len(f) /\ Len(g) \in Nat /\ DOMAIN g = 1..Len(g)
      /\ (\A i \in DOMAIN f : f[i] \in Names) /\ (\A i \in DOMAIN g : g[i] \in Names)
  BY <1>1, LenProperties DEF Listed
<1>9. nextID' \in Nat \ {0}
  BY <1>1, <1>2, <1>8
<1>10. Consistent(events \o new, active', nextID')
  BY <1>1, <1>2, PollConsistent
<1>11. Log(new)
  BY <1>1
<1>12. Consistent(events', active', nextID')
  BY <1>2, <1>5, <1>7, <1>9, <1>10, <1>11, LogConsistent
<1>13. events' \in Seq(Entries) /\ Len(events') <= MaxKept
       /\ (~pruned' => ~pruned /\ events' = events \o new)
  BY <1>2, <1>5, <1>11, LogCut
<1> HIDE DEF new, F, G
\* Each name has at most one entry among the new ones.
<1>14. /\ \A i \in DOMAIN F : Len(F) \in Nat /\ i \in DOMAIN new /\ new[i] = F[i]
       /\ \A i \in DOMAIN G : Len(F) + i \in DOMAIN new /\ new[Len(F) + i] = G[i]
       /\ \A i \in DOMAIN new :
            \/ i \in DOMAIN F
            \/ i > Len(F) /\ i - Len(F) \in DOMAIN G /\ new[i] = G[i - Len(F)]
  BY <1>3, <1>4, Followed DEF new
<1>15. DOMAIN new \subseteq Nat
  BY <1>5, LenProperties
<1>16. ASSUME NEW n \in Names, ~pruned' PROVE active'[n] = OpenAfter(events \o new)[n]
  <2>1. active[n] = OpenAfter(events)[n]
    BY <1>13, <1>16 DEF Book, SessionsSurviveRestart
  <2>2. CASE \E i \in DOMAIN f : f[i] = n /\ active'[n] = nextID + i - 1
    <3>1. PICK i \in DOMAIN f : f[i] = n /\ active'[n] = nextID + i - 1
      BY <2>2
    <3>2. i \in DOMAIN new /\ new[i] = F[i] /\ i \in Nat
      BY <1>3, <1>8, <1>14
    <3>3. new[i].id = active'[n] /\ new[i].kind = "arrived" /\ new[i].name = n
      BY <1>3, <3>1, <3>2
    <3>4. i \in Mine(new, n)
      BY <3>2, <3>3 DEF Mine, Tracked
    <3>5. ASSUME NEW j \in Mine(new, n) PROVE j = i
      <4>1. j \in DOMAIN new /\ new[j].name = n
        BY DEF Mine
      <4>2. CASE j \in DOMAIN F
        <5>1. f[j] = n /\ j \in DOMAIN f
          BY <1>3, <1>14, <4>1, <4>2
        <5> QED
          BY <1>1, <3>1, <5>1 DEF Listed
      <4>3. CASE j - Len(F) \in DOMAIN G /\ new[j] = G[j - Len(F)]
        <5>1. n \in ToSet(g) /\ n \in ToSet(f)
          BY <1>4, <3>1, <4>1, <4>3 DEF ToSet
        <5> QED
          BY <1>6, <5>1
      <4> QED
        BY <1>14, <4>1, <4>2, <4>3
    <3>6. IsLast(Mine(new, n), i)
      BY <3>2, <3>4, <3>5 DEF IsLast
    <3> QED
      BY <1>2, <1>5, <3>3, <3>6, LastLeavesOpen
  <2>3. CASE (\E i \in DOMAIN g : g[i] = n) /\ active'[n] = Closed
    <3>1. PICK i \in DOMAIN g : g[i] = n
      BY <2>3
    <3> DEFINE k == Len(F) + i
    <3>2. k \in DOMAIN new /\ new[k] = G[i] /\ i \in Nat /\ k \in Nat
      BY <1>3, <1>4, <1>8, <1>14
    <3>3. new[k].kind = "deleted" /\ new[k].name = n
      BY <1>4, <3>1, <3>2
    <3>4. k \in Mine(new, n)
      BY <3>2, <3>3 DEF Mine, Tracked, Ended
    <3>5. ASSUME NEW j \in Mine(new, n) PROVE j = k
      <4>1. j \in DOMAIN new /\ new[j].name = n
        BY DEF Mine
      <4>2. CASE j \in DOMAIN F
        <5>1. f[j] = n /\ j \in DOMAIN f
          BY <1>3, <1>14, <4>1, <4>2
        <5>2. n \in ToSet(g) /\ n \in ToSet(f)
          BY <3>1, <5>1 DEF ToSet
        <5> QED
          BY <1>6, <5>2
      <4>3. CASE j - Len(F) \in DOMAIN G /\ new[j] = G[j - Len(F)]
        <5> DEFINE h == j - Len(F)
        <5>1. h \in DOMAIN g /\ g[h] = n
          BY <1>4, <4>1, <4>3
        <5>2. h = i
          BY <1>1, <3>1, <5>1 DEF Listed
        <5>3. j \in Nat /\ Len(F) \in Nat
          BY <1>3, <1>8, <1>15, <4>1
        <5> QED
          BY <5>2, <5>3, <3>2
      <4> QED
        BY <1>14, <4>1, <4>2, <4>3
    <3> HIDE DEF k
    <3>6. IsLast(Mine(new, n), k)
      BY <3>2, <3>4, <3>5 DEF IsLast
    <3> QED
      BY <1>2, <1>5, <2>3, <3>3, <3>6, LastLeavesOpen
  <2>4. CASE ~(\E i \in DOMAIN f : f[i] = n) /\ ~(\E i \in DOMAIN g : g[i] = n) /\ active'[n] = active[n]
    <3>1. Mine(new, n) = {}
      <4> SUFFICES ASSUME NEW j \in Mine(new, n) PROVE FALSE
        OBVIOUS
      <4>1. j \in DOMAIN new /\ new[j].name = n
        BY DEF Mine
      <4> QED
        BY <1>3, <1>4, <1>14, <2>4, <4>1
    <3> QED
      BY <1>2, <1>5, <2>1, <2>4, <3>1, OthersLeaveOpen
  <2> QED
    BY <1>1, <1>2, <1>6, <2>2, <2>3, <2>4, PollOpens
<1>17. SessionsSurviveRestart'
  <2> SUFFICES ASSUME ~pruned' PROVE active' = OpenAfter(events')
    BY DEF SessionsSurviveRestart, OpenAfter
  <2>1. events' = events \o new /\ OpenAfter(events') \in [Names -> Nat]
    BY <1>13, OpenAfterType
  <2>2. \A n \in Names : active'[n] = OpenAfter(events')[n]
    BY <1>16, <2>1
  <2> QED
    BY <1>7, <2>1, <2>2
<1> QED
  BY <1>7, <1>9, <1>12, <1>13, <1>17 DEF Book

\* sessionIDFor: the open session; or one the arrival of which is on record; or none.
LEMMA SessionIDIs ==
  ASSUME Book, NEW n \in Names
  PROVE  LET id == SessionIDFor(n)
         IN  \/ id = active[n] /\ id \in 1..(nextID - 1)
             \/ /\ active[n] = Closed /\ id \in 1..(nextID - 1)
                /\ \E i \in DOMAIN events :
                     events[i].id = id /\ events[i].kind = "arrived" /\ events[i].name = n
             \/ active[n] = Closed /\ id = Closed
<1> DEFINE arrivals == {i \in DOMAIN events : events[i].kind = "arrived" /\ events[i].name = n}
           latest == CHOOSE i \in arrivals : \A j \in arrivals : j <= i
<1>1. SessionIDFor(n) = IF active[n] # Closed THEN active[n]
                        ELSE IF arrivals = {} THEN Closed ELSE events[latest].id
  BY DEF SessionIDFor
<1>2. /\ events \in Seq(Entries) /\ active[n] \in Nat /\ active[n] < nextID
      /\ nextID \in Nat /\ \A i \in DOMAIN events : events[i].id \in 1..(nextID - 1)
  BY DEF Book, Consistent, Given
<1>3. CASE active[n] # Closed
  <2>1. SessionIDFor(n) = active[n]
    BY <1>1, <1>3
  <2> QED
    BY <1>2, <1>3, <2>1 DEF Closed
<1>4. CASE active[n] = Closed /\ arrivals = {}
  <2>1. SessionIDFor(n) = Closed
    BY <1>1, <1>4
  <2> QED
    BY <1>4, <2>1
<1>5. CASE active[n] = Closed /\ arrivals # {}
  <2>1. Len(events) \in Nat /\ DOMAIN events = 1..Len(events)
    BY <1>2, LenProperties
  <2>2. arrivals \in SUBSET (1..Len(events))
    BY <2>1
  <2> HIDE DEF arrivals
  <2>3. PICK m \in arrivals : IsLast(arrivals, m)
    BY <1>5, <2>1, <2>2, HasLast
  <2>4. arrivals \in SUBSET Nat
    BY <2>1, <2>2
  <2>5. latest = m
    BY <2>3, <2>4, LastIs
  <2>6. SessionIDFor(n) = events[m].id
    BY <1>1, <1>5, <2>5
  <2>7. m \in DOMAIN events /\ events[m].kind = "arrived" /\ events[m].name = n
    BY DEF arrivals
  <2> QED
    BY <1>2, <1>5, <2>6, <2>7
<1> QED
  BY <1>3, <1>4, <1>5

\* A log of one entry more.
LEMMA OneMore ==
  ASSUME NEW e \in Entries
  PROVE  /\ <<e>> \in Seq(Entries)
         /\ \A n \in Names : e.name = n /\ e.kind \in Tracked => IsLast(Mine(<<e>>, n), 1)
         /\ \A n \in Names : ~(e.name = n /\ e.kind \in Tracked) => Mine(<<e>>, n) = {}
         /\ <<e>>[1] = e
<1>1. <<e>> \in Seq(Entries) /\ DOMAIN <<e>> = {1} /\ <<e>>[1] = e
  OBVIOUS
<1>2. \A n \in Names : Mine(<<e>>, n) = {i \in {1} : e.name = n /\ e.kind \in Tracked}
  BY <1>1 DEF Mine
<1> QED
  BY <1>1, <1>2 DEF IsLast

LEMMA EndKeepsBook ==
  ASSUME Book, NEW n \in Names, NEW kind \in Ended, RecordEnd(kind, n)
  PROVE  Book'
<1> DEFINE id == IF SessionIDFor(n) = Closed THEN nextID ELSE SessionIDFor(n)
           e == Event(id, kind, n)
<1>1. /\ Log(<<e>>)
      /\ nextID' = IF id = nextID THEN nextID + 1 ELSE nextID
      /\ active' = [active EXCEPT ![n] = Closed]
  BY DEF RecordEnd
<1>2. /\ events \in Seq(Entries) /\ active \in [Names -> Nat] /\ nextID \in Nat \ {0}
      /\ Consistent(events, active, nextID)
  BY DEF Book
<1>3. \/ id = active[n] /\ id \in 1..(nextID - 1)
      \/ /\ active[n] = Closed /\ id \in 1..(nextID - 1)
         /\ \E i \in DOMAIN events :
              events[i].id = id /\ events[i].kind = "arrived" /\ events[i].name = n
      \/ active[n] = Closed /\ id = nextID
  <2>1. SessionIDFor(n) \in 1..(nextID - 1) => SessionIDFor(n) # Closed
    BY DEF Closed
  <2> QED
    BY <2>1, SessionIDIs
<1> HIDE DEF id
<1>4. id \in Nat /\ kind \in Tracked \cup Sendings /\ kind \in Tracked /\ kind # "arrived"
  BY <1>2, <1>3 DEF Tracked, Ended
<1>5. e \in Entries /\ e.id = id /\ e.kind = kind /\ e.name = n
  BY <1>4, EventIs
<1> HIDE DEF e
<1>6. /\ active' \in [Names -> Nat] /\ nextID' \in Nat \ {0}
      /\ active'[n] = Closed /\ \A m \in Names : m # n => active'[m] = active[m]
  <2>1. nextID + 1 \in Nat \ {0} /\ Closed \in Nat
    BY <1>2 DEF Closed
  <2> QED
    BY <1>1, <1>2, <2>1
<1>7. Consistent(events \o <<e>>, active', nextID')
  <2>1. CASE id = nextID /\ active[n] = Closed
    <3>1. active' = active
      BY <1>1, <1>2, <2>1
    <3>2. nextID' = nextID + 1
      BY <1>1, <2>1
    <3>3. Consistent(events \o <<e>>, active, nextID + 1)
      BY <1>2, <1>5, <2>1, NewSession
    <3> QED
      BY <3>1, <3>2, <3>3
  <2>2. CASE /\ id \in 1..(nextID - 1)
             /\ id = active[n] \/ (active[n] = Closed /\ \E i \in DOMAIN events :
                  events[i].id = id /\ events[i].kind = "arrived" /\ events[i].name = n)
    <3>1. nextID' = nextID
      BY <1>1, <1>2, <2>2
    <3>2. Consistent(events \o <<e>>, [active EXCEPT ![n] = Closed], nextID)
      BY <1>2, <1>5, <2>2, EndOfSession
    <3> QED
      BY <1>1, <3>1, <3>2
  <2> QED
    BY <1>3, <2>1, <2>2
<1>8. <<e>> \in Seq(Entries) /\ IsLast(Mine(<<e>>, n), 1) /\ <<e>>[1] = e
      /\ \A m \in Names : m # n => Mine(<<e>>, m) = {}
  BY <1>4, <1>5, OneMore
<1>9. /\ events' \in Seq(Entries) /\ Len(events') <= MaxKept
      /\ (~pruned' => ~pruned /\ events' = events \o <<e>>)
  BY <1>1, <1>2, <1>8, LogCut
<1>10. Consistent(events', active', nextID')
  BY <1>1, <1>2, <1>6, <1>7, <1>8, LogConsistent
<1>11. SessionsSurviveRestart'
  <2> SUFFICES ASSUME ~pruned' PROVE active' = OpenAfter(events')
    BY DEF SessionsSurviveRestart, OpenAfter
  <2>1. events' = events \o <<e>> /\ OpenAfter(events') \in [Names -> Nat]
    BY <1>9, OpenAfterType
  <2>2. active = OpenAfter(events)
    BY <1>9 DEF Book, SessionsSurviveRestart
  <2>3. OpenAfter(events \o <<e>>)[n] = Closed
    BY <1>2, <1>4, <1>5, <1>8, LastLeavesOpen
  <2>4. \A m \in Names : m # n => OpenAfter(events \o <<e>>)[m] = active[m]
    BY <1>2, <1>8, <2>2, OthersLeaveOpen
  <2>5. \A m \in Names : active'[m] = OpenAfter(events')[m]
    BY <1>6, <2>1, <2>3, <2>4
  <2> QED
    BY <1>6, <2>1, <2>5
<1> QED
  BY <1>6, <1>9, <1>10, <1>11 DEF Book

LEMMA SendKeepsBook ==
  ASSUME Book, NEW n \in Names, NEW kind \in Sendings, Log(<<Event(nextID, kind, n)>>),
         nextID' = nextID + 1, active' = active
  PROVE  Book'
<1> DEFINE e == Event(nextID, kind, n)
<1>1. /\ events \in Seq(Entries) /\ active \in [Names -> Nat] /\ nextID \in Nat \ {0}
      /\ Consistent(events, active, nextID)
  BY DEF Book
<1>2. kind \in Tracked \cup Sendings /\ kind \notin Tracked
  BY DEF Tracked, Ended, Sendings
<1>3. e \in Entries /\ e.id = nextID /\ e.kind = kind /\ e.name = n
  BY <1>1, <1>2, EventIs
<1>4. Log(<<e>>)
  OBVIOUS
<1> HIDE DEF e
<1>5. Consistent(events \o <<e>>, active, nextID + 1)
  BY <1>1, <1>3, NewSession
<1>6. nextID' \in Nat \ {0} /\ nextID' \in Nat /\ Consistent(events \o <<e>>, active', nextID')
      /\ active' \in [Names -> Nat]
  BY <1>1, <1>5
<1>7. <<e>> \in Seq(Entries) /\ \A m \in Names : Mine(<<e>>, m) = {}
  BY <1>2, <1>3, OneMore
<1>8. /\ events' \in Seq(Entries) /\ Len(events') <= MaxKept
      /\ (~pruned' => ~pruned /\ events' = events \o <<e>>)
  BY <1>1, <1>4, <1>7, LogCut
<1>9. Consistent(events', active', nextID')
  BY <1>1, <1>4, <1>6, <1>7, LogConsistent
<1>10. SessionsSurviveRestart'
  <2> SUFFICES ASSUME ~pruned' PROVE active' = OpenAfter(events')
    BY DEF SessionsSurviveRestart, OpenAfter
  <2>1. events' = events \o <<e>> /\ OpenAfter(events') \in [Names -> Nat]
    BY <1>8, OpenAfterType
  <2>2. active = OpenAfter(events)
    BY <1>8 DEF Book, SessionsSurviveRestart
  <2>3. \A m \in Names : active'[m] = OpenAfter(events')[m]
    BY <1>1, <1>7, <2>1, <2>2, OthersLeaveOpen
  <2> QED
    BY <1>6, <2>1, <2>3
<1> QED
  BY <1>6, <1>8, <1>9, <1>10 DEF Book

LEMMA ClearedBook ==
  ASSUME nextID \in Nat \ {0}, events' = <<>>, active' = [n \in Names |-> Closed], nextID' = nextID
  PROVE  Book'
<1>1. <<>> \in Seq(Entries) /\ Len(<<>>) = 0 /\ DOMAIN <<>> = {}
  OBVIOUS
<1>2. Len(<<>>) <= MaxKept
  BY <1>1, HistoryAssumption
<1>3. [n \in Names |-> Closed] \in [Names -> Nat]
  BY DEF Closed
<1>4. Consistent(<<>>, [n \in Names |-> Closed], nextID)
  BY <1>1 DEF Consistent, Given, Apart, InOrder, StillOpen, Closed
<1>5. [n \in Names |-> Closed] = OpenAfter(<<>>)
  <2>1. OpenAfter(<<>>) \in [Names -> Nat]
    BY <1>1, OpenAfterType
  <2>2. \A n \in Names : Mine(<<>>, n) = {}
    BY <1>1 DEF Mine
  <2>3. \A n \in Names : OpenAfter(<<>>)[n] = Closed
    BY <1>1, <2>2, OpenIs
  <2> QED
    BY <1>3, <2>1, <2>3
<1>6. SessionsSurviveRestart'
  BY <1>5 DEF SessionsSurviveRestart, OpenAfter
<1> QED
  BY <1>1, <1>2, <1>3, <1>4, <1>6 DEF Book

-----------------------------------------------------------------------------
(*****************************************************************************)
(* The theorems.                                                             *)
(*****************************************************************************)
LEMMA StartsConsistent == Init => HistoryInv
<1> SUFFICES ASSUME Init PROVE HistoryInv
  OBVIOUS
<1> USE DEF Init
<1>1. Shape
  <2>1. age \in [Names -> 0..Grace] /\ used \in [DOMAIN Limits -> Nat]
    BY HistoryAssumption
  <2>2. snap \in [seen : BOOLEAN, names : SUBSET Names]
    BY DEF NoSnap
  <2>3. op \in [Owners -> {IdleOwner} \cup [kind : Ended, name : Names]]
    OBVIOUS
  <2> QED
    BY <2>1, <2>2, <2>3 DEF Shape
<1>2. Book
  <2>1. <<>> \in Seq(Entries) /\ Len(<<>>) = 0 /\ DOMAIN <<>> = {} /\ Len(<<>>) <= MaxKept
    BY HistoryAssumption
  <2>2. active \in [Names -> Nat] /\ \A n \in Names : active[n] = Closed /\ Closed = 0
    BY DEF Closed
  <2>3. Consistent(events, active, nextID)
    BY <2>1, <2>2 DEF Consistent, Given, Apart, InOrder, StillOpen
  <2>4. \A n \in Names : OpenAfter(events)[n] = Closed
    <3>1. \A n \in Names : Mine(events, n) = {}
      BY <2>1 DEF Mine
    <3> QED
      BY <2>1, <3>1, OpenIs
  <2>5. OpenAfter(events) \in [Names -> Nat]
    BY <2>1, OpenAfterType
  <2>6. SessionsSurviveRestart
    BY <2>2, <2>4, <2>5 DEF SessionsSurviveRestart
  <2> QED
    BY <2>1, <2>2, <2>3, <2>6 DEF Book
<1> QED
  BY <1>1, <1>2 DEF HistoryInv

\* One limit more is used up.
LEMMA Spent ==
  ASSUME used \in [DOMAIN Limits -> Nat], NEW k \in DOMAIN Limits, Spend(k)
  PROVE  used' \in [DOMAIN Limits -> Nat]
BY DEF Spend

LEMMA LimitsAre == "arrive" \in DOMAIN Limits /\ "rest" \in DOMAIN Limits
BY HistoryAssumption

LEMMA Aged ==
  ASSUME age \in [Names -> 0..Grace], NEW seen,
         age' = [n \in Names |-> IF n \in seen THEN 0 ELSE age[n]]
  PROVE  age' \in [Names -> 0..Grace]
BY HistoryAssumption

LEMMA HistoryStep == HistoryInv /\ [Next]_vars => HistoryInv'
<1> SUFFICES ASSUME HistoryInv, [Next]_vars PROVE HistoryInv'
  OBVIOUS
<1>1. Shape /\ Book
  BY DEF HistoryInv
<1>2. /\ waiting \subseteq Names /\ age \in [Names -> 0..Grace]
      /\ snap \in [seen : BOOLEAN, names : SUBSET Names]
      /\ op \in [Owners -> {IdleOwner} \cup [kind : Ended, name : Names]]
      /\ used \in [DOMAIN Limits -> Nat]
  BY <1>1 DEF Shape
<1>3. NoSnap \in [seen : BOOLEAN, names : SUBSET Names]
  BY DEF NoSnap
\* A step that leaves the log alone.
<1>4. ASSUME UNCHANGED <<events, active, nextID, pruned>> PROVE Book'
  <2>1. events' = events /\ active' = active /\ nextID' = nextID /\ pruned' = pruned
    BY <1>4
  <2>2. SessionsSurviveRestart'
    <3> SUFFICES ASSUME ~pruned' PROVE active' = OpenAfter(events')
      BY DEF SessionsSurviveRestart, OpenAfter
    <3> QED
      BY <1>1, <2>1 DEF Book, SessionsSurviveRestart
  <2> QED
    BY <1>1, <2>1, <2>2 DEF Book
<1>5. ASSUME NEW n \in Names, Arrive(n) PROVE HistoryInv'
  <2>1. used' \in [DOMAIN Limits -> Nat]
    BY <1>2, <1>5, Spent, LimitsAre DEF Arrive
  <2>2. Shape'
    BY <1>2, <1>5, <2>1 DEF Arrive, Shape
  <2> QED
    BY <1>4, <1>5, <2>2 DEF Arrive, HistoryInv
<1>6. ASSUME NEW n \in Names, TakenOutside(n) PROVE HistoryInv'
  <2>1. Shape'
    BY <1>2, <1>6 DEF TakenOutside, Shape
  <2> QED
    BY <1>4, <1>6, <2>1 DEF TakenOutside, HistoryInv
<1>7. ASSUME Poll PROVE HistoryInv'
  <2>1. snap' \in [seen : BOOLEAN, names : SUBSET Names]
    BY <1>2, <1>7 DEF Poll, Snap
  <2>2. Shape'
    BY <1>2, <1>7, <2>1 DEF Poll, Shape
  <2> QED
    BY <1>4, <1>7, <2>2 DEF Poll, HistoryInv
<1>8. ASSUME RecordPoll PROVE HistoryInv'
  <2>1. snap.names \in SUBSET Names /\ RecordArrivals(snap.names)
    BY <1>2, <1>8 DEF RecordPoll
  <2>2. Book'
    BY <1>1, <2>1, PollKeepsBook
  <2>3. age' = [n \in Names |-> IF n \in snap.names THEN 0 ELSE age[n]]
    BY <2>1, PollIs
  <2>4. age' \in [Names -> 0..Grace]
    BY <1>2, <2>3, Aged
  <2>5. Shape'
    BY <1>2, <1>3, <1>8, <2>4 DEF RecordPoll, Shape
  <2> QED
    BY <2>2, <2>5 DEF HistoryInv
<1>9. ASSUME UploadDone PROVE HistoryInv'
  <2>1. {} \in SUBSET Names /\ RecordArrivals({})
    BY <1>9 DEF UploadDone
  <2>2. Book'
    BY <1>1, <2>1, PollKeepsBook
  <2>3. age' = [n \in Names |-> IF n \in {} THEN 0 ELSE age[n]]
    BY <2>1, PollIs
  <2>4. age' \in [Names -> 0..Grace]
    BY <1>2, <2>3, Aged
  <2>5. used' \in [DOMAIN Limits -> Nat]
    BY <1>2, <1>9, Spent, LimitsAre DEF UploadDone
  <2>6. Shape'
    BY <1>2, <1>9, <2>4, <2>5 DEF UploadDone, Shape
  <2> QED
    BY <2>2, <2>6 DEF HistoryInv
<1>10. ASSUME NEW o \in Owners, NEW kind \in {"saved", "deleted"}, NEW n \in Names, Take(o, kind, n)
       PROVE  HistoryInv'
  <2>1. [kind |-> kind, name |-> n] \in {IdleOwner} \cup [kind : Ended, name : Names]
    BY DEF Ended
  <2>2. op' \in [Owners -> {IdleOwner} \cup [kind : Ended, name : Names]]
    BY <1>2, <1>10, <2>1 DEF Take
  <2>3. Shape'
    BY <1>2, <1>10, <2>2 DEF Take, Shape
  <2> QED
    BY <1>4, <1>10, <2>3 DEF Take, HistoryInv
<1>11. ASSUME NEW o \in Owners, Record(o) PROVE HistoryInv'
  <2>1. op[o] \in [kind : Ended, name : Names]
    BY <1>2, <1>11 DEF Record
  <2>2. op[o].kind \in Ended /\ op[o].name \in Names /\ RecordEnd(op[o].kind, op[o].name)
    BY <1>11, <2>1 DEF Record
  <2>3. Book'
    BY <1>1, <2>2, EndKeepsBook
  <2>4. age' = age
    BY <2>2 DEF RecordEnd
  <2>5. op' \in [Owners -> {IdleOwner} \cup [kind : Ended, name : Names]]
    BY <1>2, <1>11 DEF Record
  <2>6. Shape'
    BY <1>2, <1>11, <2>4, <2>5 DEF Record, Shape
  <2> QED
    BY <2>3, <2>6 DEF HistoryInv
<1>12. ASSUME NEW n \in Names, RecordSend(n) PROVE HistoryInv'
  <2>1. PICK kind \in {"sent", "send_failed"} : Log(<<Event(nextID, kind, n)>>)
    BY <1>12 DEF RecordSend
  <2>2. kind \in Sendings
    BY DEF Sendings
  <2>3. nextID' = nextID + 1 /\ active' = active
    BY <1>12 DEF RecordSend
  <2>4. Book'
    BY <1>1, <2>1, <2>2, <2>3, SendKeepsBook
  <2>5. used' \in [DOMAIN Limits -> Nat]
    BY <1>2, <1>12, Spent, LimitsAre DEF RecordSend
  <2>6. Shape'
    BY <1>2, <1>12, <2>5 DEF RecordSend, Shape
  <2> QED
    BY <2>4, <2>6 DEF HistoryInv
<1>13. ASSUME Clear PROVE HistoryInv'
  <2>1. Book'
    BY <1>1, <1>13, ClearedBook DEF Clear, Book
  <2>2. used' \in [DOMAIN Limits -> Nat]
    BY <1>2, <1>13, Spent, LimitsAre DEF Clear
  <2>3. Shape'
    BY <1>2, <1>13, <2>2 DEF Clear, Shape
  <2> QED
    BY <2>1, <2>3 DEF HistoryInv
<1>14. ASSUME Tick PROVE HistoryInv'
  <2>1. age' = [n \in Names |-> IF age[n] < Grace THEN age[n] + 1 ELSE Grace]
    BY <1>14 DEF Tick
  <2>2. Grace \in Nat
    BY HistoryAssumption
  <2>3. age' \in [Names -> 0..Grace]
    BY <1>2, <2>1, <2>2
  <2>4. Shape'
    BY <1>2, <1>14, <2>3 DEF Tick, Shape
  <2> QED
    BY <1>4, <1>14, <2>4 DEF Tick, HistoryInv
<1>15. ASSUME Restart PROVE HistoryInv'
  <2>1. /\ events \in Seq(Entries) /\ Len(events) <= MaxKept /\ nextID \in Nat \ {0}
        /\ Consistent(events, active, nextID)
    BY <1>1 DEF Book
  <2>2. events' = events /\ nextID' = nextID /\ active' = OpenAfter(events)
    BY <1>15 DEF Restart
  <2>3. Consistent(events, OpenAfter(events), nextID) /\ OpenAfter(events) \in [Names -> Nat]
    BY <2>1, RestartConsistent, OpenAfterType
  <2>4. SessionsSurviveRestart'
    BY <2>2 DEF SessionsSurviveRestart, OpenAfter
  <2>5. Book'
    BY <2>1, <2>2, <2>3, <2>4 DEF Book
  <2>6. age' \in [Names -> 0..Grace]
    BY <1>15, HistoryAssumption DEF Restart
  <2>7. used' \in [DOMAIN Limits -> Nat]
    BY <1>2, <1>15, Spent, LimitsAre DEF Restart
  <2>8. op' \in [Owners -> {IdleOwner} \cup [kind : Ended, name : Names]]
    BY <1>15 DEF Restart
  <2>9. Shape'
    BY <1>2, <1>3, <1>15, <2>6, <2>7, <2>8 DEF Restart, Shape
  <2> QED
    BY <2>5, <2>9 DEF HistoryInv
<1>16. CASE UNCHANGED vars
  <2>1. Shape'
    BY <1>2, <1>16 DEF vars, Shape
  <2> QED
    BY <1>4, <1>16, <2>1 DEF vars, HistoryInv
<1> QED
  BY <1>5, <1>6, <1>7, <1>8, <1>9, <1>10, <1>11, <1>12, <1>13, <1>14, <1>15, <1>16 DEF Next

LEMMA HistoryInvariant == Spec => []HistoryInv
<1>1. Init => HistoryInv
  BY StartsConsistent
<1>2. HistoryInv /\ [Next]_vars => HistoryInv'
  BY HistoryStep
<1> QED
  BY <1>1, <1>2, PTL DEF Spec

\* The log keeps its types and its size, and gives out no ID before its turn.
THEOREM HistoryTypes == Spec => []TypeOK
<1>1. HistoryInv => TypeOK
  <2> SUFFICES ASSUME HistoryInv PROVE TypeOK
    OBVIOUS
  <2>1. Shape /\ Book
    BY DEF HistoryInv
  <2>2. ASSUME NEW i \in DOMAIN events
        PROVE  /\ events[i].id \in 1..(nextID - 1) /\ events[i].name \in Names
               /\ events[i].kind \in {"arrived", "saved", "deleted", "sent", "send_failed"}
    <3>1. events \in Seq(Entries) /\ events[i].id \in 1..(nextID - 1)
      BY <2>1 DEF Book, Consistent, Given
    <3>2. events[i] \in Entries
      BY <3>1, LenProperties
    <3> QED
      BY <3>1, <3>2 DEF Entries, Tracked, Ended, Sendings
  <2>3. active \in [Names -> 0..(nextID - 1)]
    <3>1. active \in [Names -> Nat] /\ nextID \in Nat /\ \A n \in Names : active[n] < nextID
      BY <2>1 DEF Book, Consistent, Given
    <3>2. \A n \in Names : active[n] \in 0..(nextID - 1)
      BY <3>1
    <3> QED
      BY <3>1, <3>2
  <2>4. \A o \in Owners : op[o].kind \in {"idle", "saved", "deleted"}
    <3> TAKE o \in Owners
    <3>1. op[o] = IdleOwner \/ op[o] \in [kind : Ended, name : Names]
      BY <2>1 DEF Shape
    <3> QED
      BY <3>1 DEF IdleOwner, Ended
  <2>5. /\ waiting \subseteq Names /\ age \in [Names -> 0..Grace] /\ snap.names \subseteq Names
        /\ used \in [DOMAIN Limits -> Nat] /\ Len(events) <= MaxKept
    BY <2>1 DEF Shape, Book
  <2> QED
    BY <2>2, <2>3, <2>4, <2>5 DEF TypeOK
<1> QED
  BY <1>1, HistoryInvariant, PTL

\* A session is of one name and one arrival, and no open session was closed, for any
\* polls, saves, deletes, restarts and cuts of the log.
THEOREM SessionsApart == Spec => []SessionsAreSeparate
<1>1. HistoryInv => SessionsAreSeparate
  <2> SUFFICES ASSUME HistoryInv PROVE SessionsAreSeparate
    OBVIOUS
  <2>1. InOrder(events) /\ StillOpen(events, active) /\ events \in Seq(Entries)
    BY DEF HistoryInv, Book, Consistent
  <2>2. DOMAIN events \subseteq Int
    BY <2>1, LenProperties
  <2>3. ASSUME NEW i \in DOMAIN events, NEW j \in DOMAIN events, events[i].id = events[j].id
        PROVE  /\ events[i].name = events[j].name
               /\ (events[i].kind = "arrived" /\ events[j].kind = "arrived") => i = j
    <3>1. i < j \/ j < i \/ i = j
      BY <2>2
    <3>2. i < j => events[i].name = events[j].name /\ events[j].kind # "arrived"
      BY <2>1, <2>3 DEF InOrder, Ended
    <3>3. j < i => events[i].name = events[j].name /\ events[i].kind # "arrived"
      BY <2>1, <2>3 DEF InOrder, Ended
    <3> QED
      BY <3>1, <3>2, <3>3
  <2>4. \A n \in Names, i \in DOMAIN events :
          (active[n] # Closed /\ events[i].id = active[n])
            => events[i].kind = "arrived" /\ events[i].name = n
    BY <2>1 DEF StillOpen
  <2> QED
    BY <2>3, <2>4 DEF SessionsAreSeparate
<1> QED
  BY <1>1, HistoryInvariant, PTL

\* As long as nothing was cut away, the log on disk leaves open what is open.
THEOREM SessionsSurvive == Spec => []SessionsSurviveRestart
<1>1. HistoryInv => SessionsSurviveRestart
  BY DEF HistoryInv, Book
<1> QED
  BY <1>1, HistoryInvariant, PTL
=============================================================================
