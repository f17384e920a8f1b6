------------------------------- MODULE MCHeap -------------------------------
(* Instances of Heap for TLC.  With a threshold of 4 a page has room for    *)
(* a block of size 1 and one of size 2, of which each leaves room when it   *)
(* is alone, or for one of size 3; 5 is the size of an object in a big      *)
(* block.  The types of the objects: a has a gc_ptr, c and d have none, c   *)
(* lies in a page or in a big block, e is big and has a gc_ptr.  While d    *)
(* fills a page, both threads may ask for a collection.                     *)
EXTENDS Heap
CONSTANTS a, c, d, e, x, y, ptr, t1, t2

TypeSizes(o) ==
    CASE o = a -> {1} [] o = c -> {2, 5} [] o = d -> {3} [] o = e -> {5}
MCSizes == [o \in Objects |-> TypeSizes(o)]
MCFieldCount == [o \in Objects |-> IF o \in {c, d} THEN 0 ELSE 1]
Symmetry == Permutations({x, y}) \cup Permutations(Threads)
=============================================================================
