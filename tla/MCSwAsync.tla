----------------------------- MODULE MCSwAsync -----------------------------
(* Small instances of SwAsync for TLC.                                     *)
EXTENDS SwAsync

CONSTANTS main, t1, idle, m1, single
=============================================================================
