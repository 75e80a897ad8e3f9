------------------------------ MODULE MCParts ------------------------------
(***************************************************************************)
(* The smaller parts, which share no state, in one run: each behaviour is  *)
(* one of one part, and the others stay in their first states.  So it is a *)
(* behaviour of the specification of every part.                           *)
(*                                                                         *)
(* Seven uploads a minute: the pauses reach both sides of a token's        *)
(* return.  Two settings requests at a time.  Two requests send a shared   *)
(* file and files of their own to one peer, to two, or to one that is      *)
(* named twice, two sends in all.  Three switches of LAN mode, two binds   *)
(* that fail.  A batch that does not hold the whole buffer.  A release     *)
(* that appears, or is taken back, while a poll and two checks or installs *)
(* are on their way.                                                       *)
(***************************************************************************)
EXTENDS RateLimiter, Config, Sending, Listener, Telemetry, Updates

CONSTANTS p1, p2

VARIABLE part  \* the part this behaviour is about

MCConfigLimits == [set |-> 2, fail |-> 1, crash |-> 1]
MCPeerLists == {<<p1>>, <<p1, p2>>, <<p1, p1>>}
MCSendLimits == [send |-> 2, fail |-> 2, clear |-> 1]
MCListenerLimits == [toggle |-> 3, save |-> 1, bind |-> 2]
MCTelemetryLimits == [event |-> 5, tick |-> 2, switch |-> 2]
MCUpdateLimits == [release |-> 1, job |-> 2, fail |-> 1]

\* A part that stays where it is needs no more than one first state.
PartsInit ==
  /\ part \in {"limiter", "config", "sending", "listener", "telemetry", "updates"}
  /\ LimiterInit /\ ConfigInit /\ SendingInit /\ ListenerInit /\ TelemetryInit /\ UpdatesInit
  /\ part # "listener" => build = "desktop" /\ ~lan
  /\ part # "telemetry" => enabled
  /\ part # "updates" => feed = Current

PartsNext ==
  /\ UNCHANGED part
  /\ IF part = "limiter" THEN LimiterNext ELSE UNCHANGED limiterVars
  /\ IF part = "config" THEN ConfigNext ELSE UNCHANGED configVars
  /\ IF part = "sending" THEN SendingNext ELSE UNCHANGED sendingVars
  /\ IF part = "listener" THEN ListenerNext ELSE UNCHANGED listenerVars
  /\ IF part = "telemetry" THEN TelemetryNext ELSE UNCHANGED telemetryVars
  /\ IF part = "updates" THEN UpdatesNext ELSE UNCHANGED updatesVars

\* Where no request sends, SendingFair asks for nothing.
PartsSpec ==
  /\ PartsInit
  /\ [][PartsNext]_<<part, limiterVars, configVars, sendingVars, listenerVars,
                     telemetryVars, updatesVars>>
  /\ SendingFair

\* Every part keeps its variables in their types, and a server that runs has a session
\* token.
PartsTypeOK ==
  /\ LimiterTypeOK /\ ConfigTypeOK /\ SendingTypeOK /\ ListenerTypeOK
  /\ TelemetryTypeOK /\ UpdatesTypeOK
=============================================================================
