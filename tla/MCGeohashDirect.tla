---------------------------- MODULE MCGeohashDirect ----------------------------
(* Model checking of GeohashDirect: keys, and names, are interchangeable.     *)
EXTENDS GeohashDirect, TLC

Symmetry == Permutations(Keys) \cup Permutations(Names)
=============================================================================
