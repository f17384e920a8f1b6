---------------------------- MODULE MCDerefRoots ----------------------------
(* Instances of DerefRoots for TLC.                                         *)
EXTENDS DerefRoots, TLC

Symmetry == Permutations(Threads) \cup Permutations(Objects)
                \cup Permutations(Addresses)
=============================================================================
