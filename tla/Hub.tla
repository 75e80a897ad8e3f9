-------------------------------- MODULE Hub --------------------------------
(***************************************************************************)
(* The event hub (hub and handleEvents in server.go) and a page that       *)
(* listens to it: a bounded channel per page that loses what does not fit, *)
(* and the last inbox event, replayed to a page that connects.  Pages do   *)
(* not affect each other, so there is one.                                 *)
(*                                                                         *)
(* An event is the inbox it carries, or Other.                             *)
(***************************************************************************)
EXTENDS Naturals, Sequences

CONSTANTS
  Cap,    \* what a page's channel holds
  Other   \* any event that carries no inbox

VARIABLES
  queue,  \* the page's channel
  last,   \* lastInbox, Other before the first one
  feed,   \* the page's connection: closed, joined (among the clients) or open
  view    \* the inbox the page shows

hub == <<queue, last, feed, view>>

HubInit ==
  /\ queue = <<>>
  /\ last = Other
  /\ feed = "open"
  /\ view = {}

\* What does not fit is dropped.
Offer(q, e) == IF Len(q) < Cap THEN Append(q, e) ELSE q

\* broadcast: the inbox is remembered, and a page that listens gets the event.
Latest(e, before) == IF e = Other THEN before ELSE e

Broadcast(e) ==
  /\ last' = Latest(e, last)
  /\ queue' = IF feed = "closed" THEN queue ELSE Offer(queue, e)
  /\ UNCHANGED <<feed, view>>

\* The page shows every inbox it is sent.
Shown(e) == IF e = Other THEN view ELSE e

\* The page connects and is entered among the clients: its channel fills.
Subscribe ==
  /\ feed = "closed"
  /\ feed' = "joined"
  /\ UNCHANGED <<queue, last, view>>

\* It is shown the last inbox, whatever its channel holds by then.
Replay ==
  /\ feed = "joined"
  /\ feed' = "open"
  /\ view' = Shown(last)
  /\ UNCHANGED <<queue, last>>

Read ==
  /\ feed = "open" /\ queue # <<>>
  /\ view' = Shown(Head(queue))
  /\ queue' = Tail(queue)
  /\ UNCHANGED <<last, feed>>

\* The connection ends; the browser connects again by itself.
Disconnect ==
  /\ feed # "closed"
  /\ feed' = "closed"
  /\ queue' = <<>>
  /\ UNCHANGED <<last, view>>

Page == Subscribe \/ Replay \/ Read
=============================================================================
