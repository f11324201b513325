------------------------------ MODULE MCSwKern ------------------------------
(* Small instances of SwKern for TLC.                                      *)
EXTENDS SwKern, TLC

CONSTANTS main, t1, t2, idle, m1, single

(* t1 and t2 are created by main and are interchangeable.                  *)
Workers == Permutations({t1, t2})
=============================================================================
