---------------------------- MODULE ManagedHeap ----------------------------
(***************************************************************************)
(* What libprecisegc promises its program, as long as no collection misses *)
(* an object that a thread stores while others are being stopped: objects  *)
(* that stay as the program left them for as long as it can reach them.    *)
(* A garbage object is as good as one that does not exist: its fields may  *)
(* be anything, and its name may be given to a new object.                 *)
(***************************************************************************)
EXTENDS Integers, FiniteSetsExt

CONSTANTS Objects,     \* names of objects
          Cells,       \* gc_ptr variables outside the heap
          Raws,        \* plain pointers obtained through a gc_ptr
          FieldCount,  \* the number of gc_ptrs in each object
          Null

VARIABLES cell,   \* what each cell points to
          raw,    \* what each plain pointer points to
          field,  \* what the gc_ptrs of each object point to
          broken  \* a collection has missed an object

vars == <<cell, raw, field, broken>>

NoFields(o) == [i \in 1..FieldCount[o] |-> Null]

\* The objects that a program with these variables can reach: they are in
\* every set that has those which the variables point to and is closed under
\* the fields of its members.
Holds(S, c, r, f) ==
    /\ (Range(c) \cup Range(r)) \cap Objects \subseteq S
    /\ \A o \in S : Range(f[o]) \cap Objects \subseteq S
Reachable(c, r, f) ==
    {o \in Objects : \A S \in SUBSET Objects : Holds(S, c, r, f) => o \in S}

\* The program's variables become c and r, and f describes the objects it
\* can reach.
Become(c, r, f) ==
    /\ cell' = c
    /\ raw' = r
    /\ \A o \in Reachable(c, r, f) : field'[o] = f[o]

Init ==
    /\ cell = [x \in Cells |-> Null]
    /\ raw = [x \in Raws |-> Null]
    /\ field = [o \in Objects |-> NoFields(o)]
    /\ broken = FALSE

New(x, o) ==
    /\ Become([cell EXCEPT ![x] = o], raw, [field EXCEPT ![o] = NoFields(o)])
    /\ o \notin Reachable(cell, raw, field)

Assign(x, y) == Become([cell EXCEPT ![x] = cell[y]], raw, field)
Clear(x)     == Become([cell EXCEPT ![x] = Null], raw, field)

Load(x, y, i) ==
    /\ cell[y] # Null
    /\ i \in 1..FieldCount[cell[y]]
    /\ Become([cell EXCEPT ![x] = field[cell[y]][i]], raw, field)

Store(x, i, y) ==
    /\ cell[x] # Null
    /\ i \in 1..FieldCount[cell[x]]
    /\ Become(cell, raw, [field EXCEPT ![cell[x]][i] = cell[y]])

Dereference(p, x) == Become(cell, [raw EXCEPT ![p] = cell[x]], field)
Forget(p)         == Become(cell, [raw EXCEPT ![p] = Null], field)

\* A collection changes nothing that the program can see.
Collect == Become(cell, raw, field)

Keep ==
    \/ Collect
    \/ \E x \in Cells : Clear(x) \/ \E o \in Objects : New(x, o)
    \/ \E x, y \in Cells :
           \/ Assign(x, y)
           \/ \E i \in 1..Max(Range(FieldCount)) : Load(x, y, i) \/ Store(x, i, y)
    \/ \E p \in Raws : Forget(p) \/ \E x \in Cells : Dereference(p, x)

\* From then on nothing is promised.
Break == broken'

Next ==
    \/ ~broken /\ Keep /\ UNCHANGED broken
    \/ Break

Spec == Init /\ [][Next]_vars
=============================================================================
