----------------------------- MODULE MCMemCache -----------------------------
(* A small instance of MemCache for TLC.                                   *)
EXTENDS MemCache, TLC

Symmetry == Permutations(Copy) \cup Permutations(Stream) \cup Permutations(Load) \cup Permutations(Url)
=============================================================================
