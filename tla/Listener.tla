------------------------------ MODULE Listener ------------------------------
(***************************************************************************)
(* The HTTP listener (server.go) and the LAN switch that moves it.  The    *)
(* handler of the switch changes s.lan, saves the config and answers; a    *)
(* goroutine of its own sleeps 300 ms, reads s.lan and s.port as they are  *)
(* then, and rebinds under listenerMu.  The port stays what it was, so a   *)
(* listener is the host it is bound to.                                    *)
(*                                                                         *)
(* runApp of the server build (shell_server.go) waits for the Serve call   *)
(* of the first listener and ends the process with it; the desktop build's *)
(* (shell.go) waits for the window system.                                 *)
(***************************************************************************)
EXTENDS Integers

CONSTANTS
  Rebinds,        \* rebinds that may be under way
  ListenerLimits  \* bound: toggles, failing saves, failing binds

ASSUME ListenerAssumption == ListenerLimits \in [{"toggle", "save", "bind"} -> Nat]

VARIABLES
  build,    \* "desktop" or "server"
  running,  \* the process
  quit,     \* it was told to end
  lan,      \* s.lan, and s.cfg.LAN
  bound,    \* the host of s.listener
  open,     \* s.listener accepts connections
  first,    \* it is the one runApp's Serve call was given
  rebind,   \* where each switch and its rebind stand, and its host
  excused,  \* history: since the mode was last read for a rebind, a save or a
            \* bind failed, or it was read for two rebinds at a time
  deaf,     \* history: the last rebind could bind neither address
  tries     \* how much of ListenerLimits is used up

listenerVars == <<build, running, quit, lan, bound, open, first, rebind, excused,
                  deaf, tries>>

HostFor(on) == IF on THEN "0.0.0.0" ELSE "127.0.0.1"
Hosts == {HostFor(on) : on \in BOOLEAN}
NoRebind == [at |-> "none", host |-> HostFor(FALSE)]

\* serveHTTP: both builds bind and serve before any request can come.
ListenerInit ==
  /\ build \in {"desktop", "server"}
  /\ running = TRUE /\ quit = FALSE
  /\ lan \in BOOLEAN
  /\ bound = HostFor(lan) /\ open = TRUE /\ first = TRUE
  /\ rebind = [t \in Rebinds |-> NoRebind]
  /\ excused = FALSE /\ deaf = FALSE
  /\ tries = [k \in DOMAIN ListenerLimits |-> 0]

Try(k) == tries[k] < ListenerLimits[k] /\ tries' = [tries EXCEPT ![k] = @ + 1]
MoveTo(t, place) == rebind' = [rebind EXCEPT ![t].at = place]
OthersAwake(t) == \E other \in Rebinds \ {t} : rebind[other].at = "awake"
Locked == \E t \in Rebinds : rebind[t].at \in {"binding", "restoring"}

-----------------------------------------------------------------------------
\* handleConfig: LAN mode changes under cfgMu; the config is saved after it.
Toggle(t) ==
  /\ running /\ rebind[t].at = "none"
  /\ Try("toggle")
  /\ lan' = ~lan
  /\ MoveTo(t, "saving")
  /\ UNCHANGED <<build, running, quit, bound, open, first, excused, deaf>>

\* It is saved: the request is answered and the rebind scheduled.
Schedule(t) ==
  /\ running /\ rebind[t].at = "saving"
  /\ MoveTo(t, "asleep")
  /\ UNCHANGED <<build, running, quit, lan, bound, open, first, excused, deaf, tries>>

\* It cannot be saved: the mode has changed, nothing is scheduled.
ToggleUnsaved(t) ==
  /\ running /\ rebind[t].at = "saving"
  /\ Try("save")
  /\ rebind' = [rebind EXCEPT ![t] = NoRebind]
  /\ excused' = TRUE
  /\ UNCHANGED <<build, running, quit, lan, bound, open, first, deaf>>

\* Mutant: the address is the opposite of the one in use, not that of the mode.
WakeFlip(t) ==
  /\ running /\ rebind[t].at = "asleep"
  /\ rebind' = [rebind EXCEPT ![t] = [at |-> "awake", host |-> HostFor(bound = HostFor(FALSE))]]
  /\ excused' = OthersAwake(t)
  /\ UNCHANGED <<build, running, quit, lan, bound, open, first, deaf, tries>>

\* 300 ms later: the address is that of the mode as it is now.
Wake(t) ==
  /\ running /\ rebind[t].at = "asleep"
  /\ rebind' = [rebind EXCEPT ![t] = [at |-> "awake", host |-> HostFor(lan)]]
  /\ excused' = OthersAwake(t)
  /\ UNCHANGED <<build, running, quit, lan, bound, open, first, deaf, tries>>

\* rebindHTTP, under listenerMu: the old listener is closed,
CloseOld(t) ==
  /\ running /\ rebind[t].at = "awake" /\ ~Locked
  /\ open' = FALSE /\ first' = FALSE
  /\ MoveTo(t, "binding")
  /\ UNCHANGED <<build, running, quit, lan, bound, excused, deaf, tries>>

\* the new address is bound and served,
Bind(t) ==
  /\ running /\ rebind[t].at = "binding"
  /\ bound' = rebind[t].host /\ open' = TRUE
  /\ rebind' = [rebind EXCEPT ![t] = NoRebind]
  /\ deaf' = FALSE
  /\ UNCHANGED <<build, running, quit, lan, first, excused, tries>>

\* Mutant: the old address is not bound again.
BindFailsForGood(t) ==
  /\ running /\ rebind[t].at = "binding"
  /\ Try("bind")
  /\ rebind' = [rebind EXCEPT ![t] = NoRebind]
  /\ excused' = TRUE
  /\ UNCHANGED <<build, running, quit, lan, bound, open, first, deaf>>

\* or cannot be, and the old one
BindFails(t) ==
  /\ running /\ rebind[t].at = "binding"
  /\ Try("bind")
  /\ MoveTo(t, "restoring")
  /\ excused' = TRUE
  /\ UNCHANGED <<build, running, quit, lan, bound, open, first, deaf>>

\* is bound again,
Restore(t) ==
  /\ running /\ rebind[t].at = "restoring"
  /\ open' = TRUE /\ deaf' = FALSE
  /\ rebind' = [rebind EXCEPT ![t] = NoRebind]
  /\ UNCHANGED <<build, running, quit, lan, bound, first, excused, tries>>

\* or taken by another program meanwhile: the closed listener stays recorded.
RestoreFails(t) ==
  /\ running /\ rebind[t].at = "restoring"
  /\ Try("bind")
  /\ deaf' = TRUE
  /\ rebind' = [rebind EXCEPT ![t] = NoRebind]
  /\ UNCHANGED <<build, running, quit, lan, bound, open, first, excused>>

-----------------------------------------------------------------------------
\* A signal, or Quit in the tray: the server is shut down.
Quit ==
  /\ running /\ ~quit
  /\ quit' = TRUE
  /\ running' = FALSE /\ open' = FALSE
  /\ UNCHANGED <<build, lan, bound, first, rebind, excused, deaf, tries>>

\* runApp of the server build: Serve returned, its error ends the process.
MainReturns ==
  /\ running /\ build = "server" /\ ~first
  /\ running' = FALSE /\ open' = FALSE
  /\ UNCHANGED <<build, quit, lan, bound, first, rebind, excused, deaf, tries>>

ListenerNext ==
  \/ \E t \in Rebinds :
       \/ Toggle(t) \/ Schedule(t) \/ ToggleUnsaved(t) \/ Wake(t) \/ CloseOld(t)
       \/ Bind(t) \/ BindFails(t) \/ Restore(t) \/ RestoreFails(t)
  \/ Quit \/ MainReturns

ListenerSpec == ListenerInit /\ [][ListenerNext]_listenerVars

-----------------------------------------------------------------------------
RebindSteps ==
  [at : {"none", "saving", "asleep", "awake", "binding", "restoring"}, host : Hosts]

ListenerTypeOK ==
  /\ build \in {"desktop", "server"}
  /\ running \in BOOLEAN /\ quit \in BOOLEAN /\ lan \in BOOLEAN /\ open \in BOOLEAN
  /\ first \in BOOLEAN /\ excused \in BOOLEAN /\ deaf \in BOOLEAN
  /\ bound \in Hosts
  /\ rebind \in [Rebinds -> RebindSteps]
  /\ tries \in [DOMAIN ListenerLimits -> Nat]

Settled == running /\ \A t \in Rebinds : rebind[t].at = "none"

\* server.go:286 "If the new bind fails the old address is restored so the app keeps
\* serving": outside a rebind the app has a listener, unless both binds failed.
KeepsServing == (running /\ ~Locked /\ ~deaf) => open

\* And once no rebind is due, the app listens where LAN mode says, however the switches
\* and the rebinds they scheduled overlapped, unless the last of them found another
\* between its choice of an address and its bind, or a save or a bind failed since.
ListensAsAsked == KeepsServing /\ (Settled /\ ~excused => open /\ bound = HostFor(lan))

\* server.go:150 "LAN-mode toggles rebind it without restarting the process".
StaysUp == quit \/ running
=============================================================================
