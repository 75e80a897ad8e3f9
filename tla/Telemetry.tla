----------------------------- MODULE Telemetry ------------------------------
(***************************************************************************)
(* Anonymous usage events (telemetry.go): event appends to a buffer, flush *)
(* takes a batch off its front and posts it, once, whatever comes of it.   *)
(* flush runs every minute, and in a goroutine of its own for every event  *)
(* that finds the buffer full.  An event is its number.                    *)
(***************************************************************************)
EXTENDS Integers, Sequences, FiniteSets, SequencesExt

CONSTANTS
  Flushes,         \* calls of flush that may run at a time
  FlushAt,         \* telemetryFlushAt
  BatchMax,        \* telemetryBatchMax
  TelemetryLimits  \* bound: events, ticks of the flush loop, switches in Settings

ASSUME TelemetryAssumption ==
  /\ FlushAt \in Nat \ {0} /\ BatchMax \in Nat \ {0}
  /\ TelemetryLimits \in [{"event", "tick", "switch"} -> Nat]

VARIABLES
  enabled,  \* t.enabled
  events,   \* t.events
  due,      \* calls of flush that have not begun
  batch,    \* what each call of flush is about to post
  posted,   \* history: what left the machine, in order
  made      \* history: events, ticks and switches so far

telemetryVars == <<enabled, events, due, batch, posted, made>>

TelemetryInit ==
  /\ enabled \in BOOLEAN
  /\ events = <<>> /\ due = 0
  /\ batch = [f \in Flushes |-> <<>>]
  /\ posted = <<>>
  /\ made = [k \in DOMAIN TelemetryLimits |-> 0]

Count(k) == made[k] < TelemetryLimits[k] /\ made' = [made EXCEPT ![k] = @ + 1]

\* event: nothing is kept while telemetry is off.
UsageEvent ==
  /\ enabled /\ Count("event")
  /\ events' = Append(events, made["event"] + 1)
  /\ due' = IF Len(events') >= FlushAt THEN due + 1 ELSE due
  /\ UNCHANGED <<enabled, batch, posted>>

\* flushLoop.
FlushTick ==
  /\ Count("tick")
  /\ due' = due + 1
  /\ UNCHANGED <<enabled, events, batch, posted>>

\* Mutant: the whole buffer is posted, its front is dropped from it.
FlushWhole(f) ==
  LET n == IF Len(events) < BatchMax THEN Len(events) ELSE BatchMax IN
  /\ due > 0 /\ batch[f] = <<>>
  /\ due' = due - 1
  /\ batch' = [batch EXCEPT ![f] = events]
  /\ events' = SubSeq(events, n + 1, Len(events))
  /\ UNCHANGED <<enabled, posted, made>>

\* flush, under the mutex: at most BatchMax events leave the buffer.
Flush(f) ==
  LET n == IF Len(events) < BatchMax THEN Len(events) ELSE BatchMax IN
  /\ due > 0 /\ batch[f] = <<>>
  /\ due' = due - 1
  /\ batch' = [batch EXCEPT ![f] = SubSeq(events, 1, n)]
  /\ events' = SubSeq(events, n + 1, Len(events))
  /\ UNCHANGED <<enabled, posted, made>>

\* The POST.  Delivered or not, it is not tried again.
Post(f) ==
  /\ batch[f] # <<>>
  /\ posted' = posted \o batch[f]
  /\ batch' = [batch EXCEPT ![f] = <<>>]
  /\ UNCHANGED <<enabled, events, due, made>>

\* handleConfig: the switch in Settings.
SwitchTelemetry ==
  /\ Count("switch")
  /\ enabled' = ~enabled
  /\ UNCHANGED <<events, due, batch, posted>>

TelemetryNext ==
  UsageEvent \/ FlushTick \/ SwitchTelemetry \/ \E f \in Flushes : Flush(f) \/ Post(f)

TelemetrySpec == TelemetryInit /\ [][TelemetryNext]_telemetryVars

-----------------------------------------------------------------------------
TelemetryTypeOK ==
  /\ enabled \in BOOLEAN
  /\ events \in Seq(Nat) /\ posted \in Seq(Nat)
  /\ due \in Nat
  /\ batch \in [Flushes -> Seq(Nat)]
  /\ made \in [DOMAIN TelemetryLimits -> Nat]

Occurrences(s, e) == Cardinality({i \in DOMAIN s : s[i] = e})

\* Every event is in one place, the buffer, one batch or what was posted: however many
\* flushes run at a time, none is reported twice and none is lost before its POST; a
\* request carries at most BatchMax of them.
EachEventOnce ==
  /\ \A e \in 1..made["event"] :
       LET inBatches == {f \in Flushes : Occurrences(batch[f], e) > 0}
       IN  /\ Occurrences(events, e) + Occurrences(posted, e) + Cardinality(inBatches) = 1
           /\ \A f \in inBatches : Occurrences(batch[f], e) = 1
  /\ \A f \in Flushes : Len(batch[f]) <= BatchMax

-----------------------------------------------------------------------------
\* What the source says and the code does not keep; no run checks it.

\* What is in the buffer, or in a batch, when telemetry is switched off is still posted.
\* README.md:342 "Off means nothing leaves the machine."
OffMeansOff == [][posted' # posted => enabled]_telemetryVars
=============================================================================
