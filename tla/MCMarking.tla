------------------------------ MODULE MCMarking ------------------------------
(* Instances of Marking for TLC: objects with two gc_ptrs each.  In Tangles *)
(* the first may lead anywhere.  The second may lead anywhere in one        *)
(* object; in the others it is null, or it repeats the first.  That is      *)
(* enough for chains, cycles, shared and repeated references, and for more  *)
(* pushes than the mark stack holds.  Of these graphs, two are for the      *)
(* instances with running threads, which change them: no gc_ptr leads       *)
(* anywhere, or one object leads to both others, and they twice to each     *)
(* other, which is too much for a mark stack of two.                        *)
EXTENDS Marking, TLC

Parent == CHOOSE o \in Objects : TRUE
Others == Objects \ {Parent}
Tangles ==
    {g \in [Objects -> [1..2 -> Objects \cup {Null}]] :
        \/ \A o \in Others : g[o][2] = Null
        \/ \A o \in Others : g[o][2] = g[o][1]}
Knot ==
    CHOOSE g \in Tangles :
        /\ {g[Parent][1], g[Parent][2]} = Others
        /\ \A o \in Others : g[o][1] = g[o][2] /\ {g[o][1], o} = Others
Bare == [o \in Objects |-> [i \in 1..2 |-> Null]]
SmallGraphs == {Bare, Knot}
BareOnly == {Bare}
ParentOrNone == {{}, {Parent}}
OneOfTwo == {{Parent}, {CHOOSE o \in Others : TRUE}}
NoneOrOne == OneOfTwo \cup {{}}
=============================================================================
