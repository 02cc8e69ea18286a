--------------------------- MODULE MCIdleWatcher ---------------------------
(* IdleWatcher with a timeout of a few polls.                               *)
EXTENDS IdleWatcher

AllFaults == {"read", "stop"}
=============================================================================
