--------------------------- MODULE MCListenerExit ---------------------------
(* One switch of LAN mode is enough.                                          *)
EXTENDS Listener

MCListenerLimits == [toggle |-> 1, save |-> 0, bind |-> 0]
=============================================================================
