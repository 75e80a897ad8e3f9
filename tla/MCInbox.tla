------------------------------ MODULE MCInbox ------------------------------
(* Two files of one name, one request besides auto-save, one trouble of the   *)
(* Events; a page channel of one event.                                       *)
EXTENDS Inbox

\* Files are alike: the first of two different ones waits at the daemon.  A link's
\* own folder is of interest with auto-save off and beside a file at the daemon.
Ordered ==
  /\ \A f, g \in Files : f < g =>
       /\ source[g] = "daemon" => source[f] = "daemon"
       /\ (source[f] = source[g] /\ g \in forced) => f \in forced
  /\ auto => forced = {}
  /\ forced # {} => \E f \in Files : source[f] = "daemon"

MCInit == Init /\ Ordered

MCSpec == MCInit /\ [][Next]_vars /\ Fairness
=============================================================================
