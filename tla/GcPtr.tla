------------------------------- MODULE GcPtr -------------------------------
(***************************************************************************)
(* gc_ptr (sources/gc_ptr.h) and the root stack of a thread, StackMap      *)
(* (sources/stack.cpp): construction, copies, moves and destruction of     *)
(* gc_ptrs, the two tag bits, composite pointers and their counters, and   *)
(* the offsets that gc_ptrs report while an object is constructed.         *)
(*                                                                         *)
(* One thread: StackMap and tlvars are thread_local.  Which object a       *)
(* gc_ptr points to is left out; a gc_ptr is a variable outside the        *)
(* managed heap, or a member of an object (which has an address only).     *)
(***************************************************************************)
EXTENDS Integers, Sequences, FiniteSets

CONSTANTS Vars,        \* the places where automatic gc_ptrs may be
          Composites,  \* Composite_pointers
          Null

ASSUME PlacesAssumption ==
    /\ IsFiniteSet(Vars)
    /\ Null \notin Vars \cup Composites

VARIABLES
    top,        \* the StackMap: the addresses from `top' on
    ptr,        \* the gc_ptrs: Null before construction and after destruction
    ref_count,  \* Composite_pointer::ref_count
    tlflags,    \* the tlvars of the thread
    cleared     \* history: setNULLs of a registered gc_ptr at each place

ptrVars == <<top, ptr, ref_count, tlflags, cleared>>

\* A value of a gc_ptr: the stack bit; the composite pointer, if any.
Value == [stack : BOOLEAN, comp : Composites \cup {Null}]
Simple == [stack |-> FALSE, comp |-> Null]
ASSUME ValueAssumption == Null \notin Value

set_stack_flag(p)   == [p EXCEPT !.stack = TRUE]
clear_stack_flag(p) == [p EXCEPT !.stack = FALSE]

InitPtr ==
    /\ top = <<>>
    /\ ptr = [v \in Vars |-> Null]
    /\ ref_count = [c \in Composites |-> 0]
    /\ tlflags = [new_active |-> FALSE, no_active |-> FALSE, nesting_level |-> 0,
                  current_pointer_to_object |-> 0, offsets |-> <<>>]
    /\ cleared = [v \in Vars |-> 0]
-----------------------------------------------------------------------------
(* StackMap.  delete_stack_root writes the address on the top over the     *)
(* first occurrence of v, and pops the top.                                *)
register_stack_root(v) == top' = <<v>> \o top

IsFirst(v, k) == top[k] = v /\ \A i \in 1..k - 1 : top[i] # v

\* Variant, for the sensitivity of RootsExact: nothing is replaced.
Replaced_not(v) == top
Replaced(v) == [k \in DOMAIN top |-> IF IsFirst(v, k) THEN top[1] ELSE top[k]]

delete_stack_root(v) == top' = Tail(Replaced(v))
-----------------------------------------------------------------------------
(* Composite pointers: one gc_ptr lets go of `old' and one takes `new'.    *)
(* The counter is tested for 0 before it is decremented: nothing is freed. *)
\* Variants, for the sensitivity of RefCountsExact and TypeOK: the old or
\* the new one is forgotten.
CountRefs_up(old, new) ==
    ref_count' = [c \in Composites |-> ref_count[c] + (IF c = new THEN 1 ELSE 0)]
CountRefs_down(old, new) ==
    ref_count' = [c \in Composites |-> ref_count[c] - (IF c = old THEN 1 ELSE 0)]
CountRefs(old, new) ==
    ref_count' = [c \in Composites |->
        ref_count[c] - (IF c = old THEN 1 ELSE 0) + (IF c = new THEN 1 ELSE 0)]

(* Constructors.  An automatic gc_ptr registers unless an object is being  *)
(* constructed; a member of an object reports its offset unless these are  *)
(* known.  `flags' is what the constructor finds in tlflags.               *)
ConstructAutomatic(v, p, flags) ==
    /\ ptr[v] = Null
    /\ IF flags.new_active
       THEN /\ ptr' = [ptr EXCEPT ![v] = p]
            /\ UNCHANGED top
       ELSE /\ ptr' = [ptr EXCEPT ![v] = set_stack_flag(p)]
            /\ register_stack_root(v)

ConstructMember(address, flags) ==
    IF flags.no_active
    THEN flags
    ELSE [flags EXCEPT
             !.offsets = Append(@, address - flags.current_pointer_to_object)]

Default(v) ==
    /\ ConstructAutomatic(v, Simple, tlflags)
    /\ UNCHANGED <<ref_count, tlflags, cleared>>

Copy(v, u) ==
    /\ ptr[u] # Null
    /\ ConstructAutomatic(v, clear_stack_flag(ptr[u]), tlflags)
    /\ CountRefs(Null, ptr[u].comp)
    /\ UNCHANGED <<tlflags, cleared>>

Move(v, u) ==
    /\ ptr[u] # Null
    /\ ptr[v] = Null
    /\ ptr' = [ptr EXCEPT ![v] = clear_stack_flag(ptr[u])]
    /\ UNCHANGED <<top, ref_count, tlflags, cleared>>

Destroy(v) ==
    /\ ptr[v] # Null
    /\ IF ptr[v].stack THEN delete_stack_root(v) ELSE UNCHANGED top
    /\ CountRefs(ptr[v].comp, Null)
    /\ ptr' = [ptr EXCEPT ![v] = Null]
    /\ UNCHANGED <<tlflags, cleared>>

\* operator=.  Variant, for the sensitivity of NoRootLost: the bits of the
\* right-hand side are taken over.
Assigned_bits(v, u) == ptr[u]
Assigned(v, u) ==
    IF ptr[v].stack THEN set_stack_flag(ptr[u]) ELSE clear_stack_flag(ptr[u])

Assign(v, u) ==
    /\ ptr[v] # Null
    /\ ptr[u] # Null
    /\ ptr' = [ptr EXCEPT ![v] = Assigned(v, u)]
    /\ CountRefs(ptr[v].comp, ptr[u].comp)
    /\ UNCHANGED <<top, tlflags, cleared>>

\* attach: c is a new Composite_pointer.  (The parameter `base' is copied
\* and destroyed again, which changes nothing.)
attach(v, c) ==
    /\ ptr[v] # Null
    /\ \A u \in Vars : ptr[u] # Null => ptr[u].comp # c
    /\ ptr' = [ptr EXCEPT ![v].comp = c]
    /\ ref_count' = [d \in Composites |->
           IF d = c THEN 1
           ELSE ref_count[d] - (IF d = ptr[v].comp THEN 1 ELSE 0)]
    /\ UNCHANGED <<top, tlflags, cleared>>

setNULL(v) ==
    /\ ptr[v] # Null
    /\ CountRefs(ptr[v].comp, Null)
    /\ ptr' = [ptr EXCEPT ![v] = Simple]
    /\ cleared' = [cleared EXCEPT ![v] = @ + (IF ptr[v].stack THEN 1 ELSE 0)]
    /\ UNCHANGED <<top, tlflags>>
=============================================================================
