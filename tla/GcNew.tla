------------------------------- MODULE GcNew -------------------------------
(***************************************************************************)
(* gc_new (sources/gc_new.h), the discovery of where the gc_ptrs of a type *)
(* are (sources/meta_information.h, tlvars.h), and what a program may do   *)
(* with gc_ptrs meanwhile (GcPtr).                                         *)
(*                                                                         *)
(* A constructor is any piece of code that constructs the gc_ptrs of its   *)
(* object in their order and in between calls gc_new, or uses gc_ptrs of   *)
(* its own.  Objects lie at multiples of Stride, one for each depth of     *)
(* gc_new calls; an address is in units of a gc_ptr.  Not modelled:        *)
(* constructors that throw, and gc_new of no elements.                     *)
(***************************************************************************)
EXTENDS GcPtr

CONSTANTS Types,
          Members,    \* how many gc_ptrs an object of each type has
          Counts,     \* lengths of the arrays that are allocated
          Stride,     \* more than the length of any array
          MaxDepth,   \* bound: nested calls of gc_new
          MaxClears,  \* bound: setNULLs of registered gc_ptrs at one place
          Moves       \* does the program use the move constructor?

ASSUME TypesAssumption ==
    /\ Members \in [Types -> Nat]
    /\ Counts \subseteq Nat \ {0}
    /\ Stride \in Nat
    /\ \A T \in Types, n \in Counts : n * Members[T] < Stride
    /\ {MaxDepth, MaxClears} \subseteq Nat
    /\ Moves \in BOOLEAN

VARIABLES
    clMeta,  \* the published offsets of each type, Null before that
    frames,  \* the calls of gc_new in progress, the innermost last
    owner    \* history: within which call the gc_ptr at a place was constructed

vars == <<ptrVars, clMeta, frames, owner>>

Depth == Len(frames)
Inner == frames[Depth]

Init ==
    /\ InitPtr
    /\ clMeta = [T \in Types |-> Null]
    /\ frames = <<>>
    /\ owner = [v \in Vars |-> 0]

Known(T) == clMeta[T] # Null

\* The address of the next gc_ptr of the object under construction.
NextMember(f, depth) ==
    depth * Stride + (f.element - 1) * Members[f.type] + f.built

(* gc_new, until the constructor of the first element runs.                *)
gc_new(T, n) ==
    /\ Depth < MaxDepth
    /\ frames' = Append(frames,
           [type |-> T, count |-> n, known |-> Known(T), old |-> tlflags,
            element |-> 1, built |-> 0])
    /\ tlflags' =
           [new_active |-> TRUE,
            no_active |-> Known(T),
            nesting_level |-> tlflags.nesting_level + 1,
            current_pointer_to_object |->
                IF Known(T) THEN tlflags.current_pointer_to_object
                            ELSE (Depth + 1) * Stride,
            offsets |-> IF Known(T) THEN tlflags.offsets ELSE <<>>]
    /\ UNCHANGED <<top, ptr, ref_count, cleared, clMeta, owner>>

(* The constructor of the element constructs its next gc_ptr.              *)
BuildMember ==
    /\ Depth > 0
    /\ Inner.built < Members[Inner.type]
    /\ tlflags' = ConstructMember(NextMember(Inner, Depth), tlflags)
    /\ frames' = [frames EXCEPT ![Depth].built = @ + 1]
    /\ UNCHANGED <<top, ptr, ref_count, cleared, clMeta, owner>>

Built == Depth > 0 /\ Inner.built = Members[Inner.type]
NoLocals == \A v \in Vars : ptr[v] # Null => owner[v] < Depth

\* The next element of an array: its gc_ptrs are not reported.
\* Variant, for the sensitivity of FlagsTruthful: they are.
Skipped_not == tlflags
Skipped == [tlflags EXCEPT !.no_active = TRUE]

NextElement ==
    /\ Built
    /\ NoLocals
    /\ Inner.element < Inner.count
    /\ frames' = [frames EXCEPT ![Depth].element = @ + 1, ![Depth].built = 0]
    /\ tlflags' = Skipped
    /\ UNCHANGED <<top, ptr, ref_count, cleared, clMeta, owner>>

\* The flags that the caller had.  Variant, for the sensitivity of
\* OffsetsExact: no_active stays as the inner call has left it.
Restored_partly ==
    [Inner.old EXCEPT !.nesting_level = tlflags.nesting_level - 1,
                      !.no_active = tlflags.no_active]
Restored ==
    [new_active |-> Inner.old.new_active,
     no_active |-> Inner.old.no_active,
     nesting_level |-> tlflags.nesting_level - 1,
     current_pointer_to_object |->
         IF Inner.known THEN tlflags.current_pointer_to_object
                        ELSE Inner.old.current_pointer_to_object,
     offsets |-> IF Inner.known THEN tlflags.offsets ELSE Inner.old.offsets]

EndOfNew ==
    /\ Built
    /\ NoLocals
    /\ Inner.element = Inner.count
    /\ clMeta' = IF Inner.known THEN clMeta
                 ELSE [clMeta EXCEPT ![Inner.type] = tlflags.offsets]

(* gc_new returns: the gc_ptr with the result is an automatic one ...      *)
ReturnToVariable(v) ==
    /\ EndOfNew
    /\ ConstructAutomatic(v, Simple, Restored)
    /\ owner' = [owner EXCEPT ![v] = Depth - 1]
    /\ tlflags' = Restored
    /\ frames' = SubSeq(frames, 1, Depth - 1)
    /\ UNCHANGED <<ref_count, cleared>>

(* ... or the next gc_ptr of the object that the caller constructs.        *)
ReturnToMember ==
    /\ EndOfNew
    /\ Depth > 1
    /\ LET f == frames[Depth - 1] IN
           /\ f.built < Members[f.type]
           /\ tlflags' = ConstructMember(NextMember(f, Depth - 1), Restored)
           /\ frames' = [SubSeq(frames, 1, Depth - 1) EXCEPT
                            ![Depth - 1].built = @ + 1]
    /\ UNCHANGED <<top, ptr, ref_count, cleared, owner>>

(* ... or a temporary, registered and unregistered within the step.        *)
ReturnToTemporary ==
    /\ EndOfNew
    /\ tlflags' = Restored
    /\ frames' = SubSeq(frames, 1, Depth - 1)
    /\ UNCHANGED <<top, ptr, ref_count, cleared, owner>>

(* Another thread constructs the first object of a type as well.  It may   *)
(* have asked for the meta information before this one published it.       *)
create_meta_elsewhere(T) ==
    /\ clMeta' = [clMeta EXCEPT ![T] = [i \in 1..Members[T] |-> i - 1]]
    /\ UNCHANGED <<ptrVars, frames, owner>>
-----------------------------------------------------------------------------
(* What the program and its constructors do with automatic gc_ptrs: these  *)
(* end in the block in which they begin, in any order.                     *)
Construct(v) ==
    /\ \/ Default(v)
       \/ \E u \in Vars : Copy(v, u) \/ (Moves /\ Move(v, u))
    /\ owner' = [owner EXCEPT ![v] = Depth]
    /\ UNCHANGED <<clMeta, frames>>

EndOfScope(v) ==
    /\ owner[v] = Depth
    /\ Destroy(v)
    /\ UNCHANGED <<clMeta, frames, owner>>

Use(v) ==
    /\ \/ \E u \in Vars : Assign(v, u)
       \/ \E c \in Composites : attach(v, c)
       \/ cleared[v] < MaxClears /\ setNULL(v)
    /\ UNCHANGED <<clMeta, frames, owner>>

Next ==
    \/ \E T \in Types : create_meta_elsewhere(T) \/ \E n \in Counts : gc_new(T, n)
    \/ BuildMember \/ NextElement \/ ReturnToMember \/ ReturnToTemporary
    \/ \E v \in Vars :
           Construct(v) \/ EndOfScope(v) \/ Use(v) \/ ReturnToVariable(v)

Spec == Init /\ [][Next]_vars
-----------------------------------------------------------------------------
Flags ==
    [new_active : BOOLEAN, no_active : BOOLEAN, nesting_level : Nat,
     current_pointer_to_object : Int, offsets : Seq(Int)]
Frame ==
    [type : Types, count : Counts, known : BOOLEAN, old : Flags,
     element : Nat \ {0}, built : Nat]

\* The types of the variables; a constructor is never past its object.
TypeOK ==
    /\ top \in Seq(Vars)
    /\ ptr \in [Vars -> Value \cup {Null}]
    /\ ref_count \in [Composites -> Nat]
    /\ tlflags \in Flags
    /\ cleared \in [Vars -> 0..MaxClears]
    /\ clMeta \in [Types -> Seq(Int) \cup {Null}]
    /\ frames \in Seq(Frame)
    /\ owner \in [Vars -> Nat]
    /\ \A d \in 1..Depth :
           /\ frames[d].element <= frames[d].count
           /\ frames[d].built <= Members[frames[d].type]

Occurrences(v) == {k \in DOMAIN top : top[k] = v}

(* Every gc_ptr that is constructed outside gc_new is a root until it is   *)
(* destroyed, in whatever order gc_ptrs are destroyed (stack.cpp:36-53,    *)
(* gc_ptr.h:142-147).  For one that setNULL has cleared, and that has been *)
(* assigned since, it is the entry that nobody removes that makes it one.  *)
NoRootLost ==
    \A v \in Vars : ptr[v] # Null /\ owner[v] = 0 => Occurrences(v) # {}

(* The StackMap has nothing else, at the places where setNULL was never    *)
(* called: such a place is in it once while a registered gc_ptr is there,  *)
(* and is not in it otherwise, in whatever order gc_ptrs end and whatever  *)
(* setNULL does at other places (gc_ptr.h:142-147, 219-231).               *)
RootsExact ==
    \A v \in Vars : cleared[v] = 0 =>
        Cardinality(Occurrences(v)) =
            IF ptr[v] # Null /\ ptr[v].stack THEN 1 ELSE 0

(* The destructor of a registered gc_ptr "removes itself from root stack"  *)
(* (gc_ptr.h:217-231): every address that the collector reads as a root is *)
(* the place of a gc_ptr.  setNULL clears the bit by which the destructor  *)
(* knows that there is something to remove (gc_ptr.h:321-330): violated.   *)
NoDeadRoot == \A k \in DOMAIN top : ptr[top[k]] # Null

(* A Composite_pointer counts the gc_ptrs that have it: the assertion      *)
(* ref_count > 0 of four operations holds (gc_ptr.h:235, 282, 306, 325).   *)
RefCountsExact ==
    \A c \in Composites :
        ref_count[c] = Cardinality({v \in Vars : ptr[v] # Null /\ ptr[v].comp = c})

(* The offsets recorded for a type are those of its gc_ptrs, each once and *)
(* in order, however constructors nest, recurse, build arrays, and publish *)
(* what another thread has published (gc_new.h:48-97): the mark phase and  *)
(* the sweep find the gc_ptrs of an object by them (go.cpp:132-147).       *)
OffsetsExact ==
    \A T \in Types : Known(T) => clMeta[T] = [i \in 1..Members[T] |-> i - 1]

(* While a constructor runs, the flags tell what they are read for: that   *)
(* an object is being constructed, how deep, and whether the offsets of    *)
(* the element are wanted; those reported so far are the ones constructed. *)
(* Afterwards no trace is left (gc_new.h:43-54, 79-97).                    *)
FlagsTruthful ==
    /\ tlflags.nesting_level = Depth
    /\ tlflags.new_active <=> Depth > 0
    /\ tlflags.no_active <=> Depth > 0 /\ (Inner.known \/ Inner.element > 1)
    /\ Depth = 0 => tlflags.offsets = <<>>
    /\ Depth > 0 /\ ~tlflags.no_active =>
           tlflags.offsets = [i \in 1..Inner.built |-> i - 1]
=============================================================================
