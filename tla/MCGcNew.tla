------------------------------- MODULE MCGcNew ------------------------------
(* Instances of GcNew for TLC: a type with one gc_ptr and one with two.     *)
EXTENDS GcNew, TLC
CONSTANTS list, tree

MCMembers == (list :> 1) @@ (tree :> 2)
Symmetry == Permutations(Vars) \cup Permutations(Composites)
=============================================================================
