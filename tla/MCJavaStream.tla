---------------------------- MODULE MCJavaStream ----------------------------
(* Small instances of JavaStream for TLC.                                  *)
EXTENDS JavaStream

CONSTANTS j1, j2
=============================================================================
