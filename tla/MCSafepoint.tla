---------------------------- MODULE MCSafepoint ----------------------------
(* Instances of Safepoint for TLC.  Main is distinguished from the other   *)
(* threads, which are interchangeable.                                     *)
EXTENDS Safepoint, TLC

Symmetry == Permutations(Threads \ {Main})
=============================================================================
