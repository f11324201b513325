------------------------------ MODULE MCIoWait ------------------------------
(* Small instances of IoWait for TLC.                                      *)
EXTENDS IoWait, TLC

CONSTANTS e1, e2, e3

Two  == <<e1, e2>>
Rest == <<e3>>
=============================================================================
