----------------------------- MODULE DerefRoots -----------------------------
(***************************************************************************)
(* The table of dereferenced roots (sources/deref_roots.cpp) and its only  *)
(* client, operator-> of gc_ptr (sources/gc_ptr.h:101-109, 243-250): it    *)
(* takes the plain pointer by value, passes a safepoint, registers a       *)
(* handle for the pointer, and collects when the pool of handles has been  *)
(* used up often enough.                                                   *)
(*                                                                         *)
(* A collection is one step, taken when every other thread is at a         *)
(* safepoint or in gc() (see Safepoint, and there for where the code falls *)
(* short of it); what it marks and pins is shown in Marking.  A plain      *)
(* pointer is an address at which an object begins: one to the inside of   *)
(* an object is looked up in another bucket and not found.                 *)
(***************************************************************************)
EXTENDS Integers, FiniteSetsExt, Functions

CONSTANTS Threads, Objects,
          Addresses,     \* where objects may lie
          mmap_count,    \* handles in a mapped chunk
          MaxHandles,    \* bound: handles in use at a time
          FirstFactor,   \* the initial expand_factor
          Null

ASSUME ConstantsAssumption ==
    /\ mmap_count \in Nat \ {0}
    /\ MaxHandles \in Nat
    /\ FirstFactor \in Nat \ {0}
    /\ Null \notin Addresses \cup Objects

VARIABLES
    pc,             \* where each thread is
    loaded,         \* the argument of get_ptr, or p in operator->
    plain,          \* a plain pointer that user code has obtained and uses
    address,        \* of each object; every gc_ptr to the object has it
    roots,          \* how many handles the table has for each address
    free_handles,   \* the length of free_list
    count, total_count, expand_count, expand_factor,
    factor,         \* what each thread has read of expand_factor to divide it
    target,         \* history: the object that `loaded' was read for
    leads           \* history: the object that `plain' led to at registration

heapVars  == <<address, roots, free_handles, count>>
growVars  == <<expand_count, expand_factor, factor>>
plainVars == <<loaded, plain, target, leads>>
vars == <<pc, plainVars, heapVars, total_count, growVars>>

Init ==
    /\ pc = [t \in Threads |-> "run"]
    /\ loaded = [t \in Threads |-> Null]
    /\ plain = [t \in Threads |-> Null]
    /\ address \in Injection(Objects, Addresses)
    /\ roots = [a \in Addresses |-> 0]
    /\ free_handles = 0
    /\ count = 0
    /\ total_count = 0
    /\ expand_count = 0
    /\ expand_factor = FirstFactor
    /\ factor = [t \in Threads |-> FirstFactor]
    /\ target = [t \in Threads |-> Null]
    /\ leads = [t \in Threads |-> Null]

Goto(t, place) == pc' = [pc EXCEPT ![t] = place]
-----------------------------------------------------------------------------
(* operator-> of a gc_ptr to the object o: get_ptr(ptr) reads ptr ...      *)
Busy == {t \in Threads : pc[t] \in {"safepoint", "register"}}
Dereference(t, o) ==
    /\ pc[t] = "run"
    /\ count + Cardinality(Busy) < MaxHandles  \* the bound
    /\ loaded' = [loaded EXCEPT ![t] = address[o]]
    /\ target' = [target EXCEPT ![t] = o]
    /\ Goto(t, "safepoint")
    /\ UNCHANGED <<plain, leads, heapVars, total_count, growVars>>

(* ... and passes the safepoint, at which it may have waited.              *)
safepoint(t) ==
    /\ pc[t] = "safepoint"
    /\ Goto(t, "register")
    /\ UNCHANGED <<plainVars, heapVars, total_count, growVars>>

(* register_dereferenced_root, under deref_mutex.  When the pool is used   *)
(* up expand_count is taken modulo expand_factor: 0 kills the program.     *)
NeedGc == (expand_count + 1) % expand_factor = 0
Mapped == IF free_handles = 0 THEN mmap_count ELSE 0
Full   == count + 1 = total_count + Mapped

register(t) ==
    /\ pc[t] = "register"
    /\ Full => expand_factor # 0
    /\ total_count' = total_count + Mapped
    /\ free_handles' = free_handles + Mapped - 1
    /\ roots' = [roots EXCEPT ![loaded[t]] = @ + 1]
    /\ count' = count + 1
    /\ expand_count' = expand_count + (IF Full THEN 1 ELSE 0)
    /\ plain' = [plain EXCEPT ![t] = loaded[t]]
    /\ loaded' = [loaded EXCEPT ![t] = Null]
    /\ leads' = [leads EXCEPT ![t] =
                    IF address[target[t]] = loaded[t] THEN target[t] ELSE Null]
    /\ target' = [target EXCEPT ![t] = Null]
    /\ Goto(t, IF Full /\ NeedGc THEN "gc" ELSE "run")
    /\ UNCHANGED <<address, expand_factor, factor>>

divide_by_zero(t) ==
    /\ pc[t] = "register"
    /\ Full /\ expand_factor = 0
    /\ pc' = [u \in Threads |-> "killed"]
    /\ UNCHANGED <<plainVars, heapVars, total_count, growVars>>

(* After gc(false), outside the mutex: expand_count is reset ...           *)
Reset(t) ==
    /\ pc[t] = "reset"
    /\ expand_count' = 0
    /\ Goto(t, "test")
    /\ UNCHANGED <<plainVars, heapVars, total_count, expand_factor, factor>>

(* ... expand_factor is compared with 1 ...                                *)
Test(t) ==
    /\ pc[t] = "test"
    /\ Goto(t, IF expand_factor = 1 THEN "run" ELSE "load")
    /\ UNCHANGED <<plainVars, heapVars, total_count, growVars>>

(* ... and read again, and half of that is stored.                         *)
Load(t) ==
    /\ pc[t] = "load"
    /\ factor' = [factor EXCEPT ![t] = expand_factor]
    /\ Goto(t, "halve")
    /\ UNCHANGED <<plainVars, heapVars, total_count, expand_count, expand_factor>>

Halve(t) ==
    /\ pc[t] = "halve"
    /\ expand_factor' = factor[t] \div 2
    /\ Goto(t, "run")
    /\ UNCHANGED <<plainVars, heapVars, total_count, expand_count, factor>>

(* gc() does not collect inside a constructor that gc_new runs.            *)
gc_refused(t) ==
    /\ pc[t] = "gc"
    /\ Goto(t, "reset")
    /\ UNCHANGED <<plainVars, heapVars, total_count, growVars>>
-----------------------------------------------------------------------------
\* The handles in the table.
Table == UNION {{a} \X (1..roots[a]) : a \in Addresses}

(* The collection by t.  mark_stack looks up every word of every stack:    *)
(* mark_dereferenced_root marks the first handle for it.  Variant, for the *)
(* sensitivity of PlainValid: a partial collection looks at no stack.      *)
Mentioned_full(full) ==
    IF full THEN (Range(plain) \cup Range(loaded)) \ {Null} ELSE {}
Mentioned(full) == (Range(plain) \cup Range(loaded)) \ {Null}

\* sweep_dereferenced_roots: one marked handle is left for each of these.
Kept(full) == {a \in Mentioned(full) : roots[a] > 0}

\* Variant, for the sensitivity of CountExact: count stays as it is.
Counted_not(full) == count
Counted(full) == Cardinality(Kept(full))

Stopped(t) == pc[t] \in {"run", "safepoint", "gc"}

Collect(t, full) ==
    /\ pc[t] = (IF full THEN "run" ELSE "gc")
    /\ \A u \in Threads : Stopped(u)
    /\ roots' = [a \in Addresses |-> IF a \in Kept(full) THEN 1 ELSE 0]
    /\ count' = Counted(full)
    /\ free_handles' = free_handles + Cardinality(Table) - Cardinality(Kept(full))
    /\ IF full  \* handles pin: all other objects may move
       THEN \E new \in Injection(Objects, Addresses) :
                /\ \A o \in Objects :
                       \/ new[o] = address[o]
                       \/ /\ address[o] \notin Kept(full)
                          /\ new[o] \notin Range(address)
                /\ address' = new
       ELSE UNCHANGED address
    /\ pc' = [u \in Threads |-> IF pc[u] = "gc" THEN "reset" ELSE pc[u]]
    /\ UNCHANGED <<plainVars, total_count, growVars>>

(* The plain pointer goes out of use.                                      *)
Forget(t) ==
    /\ pc[t] = "run"
    /\ plain' = [plain EXCEPT ![t] = Null]
    /\ leads' = [leads EXCEPT ![t] = Null]
    /\ UNCHANGED <<pc, loaded, target, heapVars, total_count, growVars>>

Next == \E t \in Threads :
    \/ \E o \in Objects : Dereference(t, o)
    \/ safepoint(t) \/ register(t) \/ divide_by_zero(t)
    \/ Reset(t) \/ Test(t) \/ Load(t) \/ Halve(t)
    \/ gc_refused(t)
    \/ Collect(t, TRUE) \/ Collect(t, FALSE)
    \/ Forget(t)

Spec == Init /\ [][Next]_vars
-----------------------------------------------------------------------------
(* The handles are accounted for: `count' is what is in the table, and the *)
(* rest of the pool is free, whatever the collections have swept; count =  *)
(* total_count is what a partial collection is requested by                *)
(* (deref_roots.cpp:45-55, 86-110).                                        *)
CountExact ==
    /\ count = Cardinality(Table)
    /\ count + free_handles = total_count

(* A plain pointer that led to its object when it was registered does so   *)
(* as long as it is used, over any number of full and partial collections  *)
(* of other threads: one that loses its handle at a partial collection     *)
(* would dangle after the next full one (deref_roots.cpp:65-84).           *)
PlainValid ==
    \A t \in Threads : leads[t] # Null => address[leads[t]] = plain[t]
=============================================================================
