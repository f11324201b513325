----------------------------- MODULE MCJavaSync -----------------------------
(* A small instance of JavaSync for TLC.                                   *)
EXTENDS JavaSync

CONSTANTS j1, j2, j3
=============================================================================
