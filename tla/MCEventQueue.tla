---------------------------- MODULE MCEventQueue ----------------------------
(* A small instance of EventQueue for TLC.                                 *)
EXTENDS EventQueue

CONSTANTS p1, p2, e1, e2, c1
=============================================================================
