---------------------------- MODULE MCDispatcher ----------------------------
(* A small instance of Dispatcher for TLC. *)
EXTENDS Dispatcher

CONSTANTS p1, p2, p3

MCMinPri == -1
MCSleepPri == {PUSER, PLIMIT}
=============================================================================
