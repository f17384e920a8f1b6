------------------------------ MODULE Marking ------------------------------
(***************************************************************************)
(* The mark phase of libprecisegc: go(), its explicit stack and its        *)
(* overflow, mark_stack, the walk over the roots in mark_and_sweep and in  *)
(* clean_deref_roots (sources/go.cpp), the table of dereferenced roots     *)
(* (sources/deref_roots.cpp) and mark_fake_roots (sources/fake_roots.h).   *)
(*                                                                         *)
(* The world is not stopped.  The walk takes the threads one by one, and   *)
(* waits for each of them to reach a safepoint only when it comes to it    *)
(* (go.cpp:271-274): until then a thread runs, and it moves gc_ptrs        *)
(* without a lock or a barrier (gc_ptr.h:278-291), also in objects that    *)
(* have been marked.  An action is one iteration of a loop of the code, or *)
(* one operation of a running thread on a gc_ptr.  That an object is made  *)
(* during the walk needs no action: it is like one that its thread alone   *)
(* held from the beginning, also unmarked.                                 *)
(*                                                                         *)
(* Sets stand for the lists and the stack memory that are walked: the      *)
(* order of their members is arbitrary.  A word of a thread's stack is the *)
(* object whose first byte it addresses: other words select no handle of   *)
(* the table.  No thread starts or ends during the walk, and none leaves   *)
(* its safepoint (Safepoint has both).                                     *)
(***************************************************************************)
EXTENDS Integers, Sequences

CONSTANTS Objects,         \* the managed objects
          Null,            \* the null pointer
          FieldCount,      \* gc_ptrs per object: shell[1] * count
          HandlerCount,    \* registered threads
          max_stack_size,  \* entries of the mark stack
          Graphs,          \* the object graphs to consider
          RootSets,        \* the sets of roots to consider
          MaxSteps         \* bound: changes of the program's state meanwhile

ASSUME ConstantsAssumption ==
    /\ Null \notin Objects
    /\ FieldCount \in Nat \ {0}
    /\ HandlerCount \in Nat \ {0}
    /\ max_stack_size \in Nat \ {0}
    /\ Graphs \subseteq [Objects -> [1..FieldCount -> Objects \cup {Null}]]
    /\ RootSets \subseteq SUBSET Objects
    /\ MaxSteps \in Nat

Threads == 1..HandlerCount

VARIABLES
    full,            \* the parameter of gc()
    \* the program
    running,         \* the threads that have not reached a safepoint
    steps,           \* how often they, or stray marks, have changed it
    field,           \* the gc_ptrs of each object
    plain,           \* the plain pointers that each thread has and may use
    words,           \* the heap pointers on the stack memory of each thread
    stack_map,       \* what the registered gc_ptrs of each thread point to
    fake_roots,      \* what the registered fake roots point to
    roots,           \* the table of dereferenced roots
    fresh,           \* those registered again since their handle was marked
    \* the walk
    handler,         \* the thread, HandlerCount + 1 after the last one
    part,            \* "wait", or the loop in progress
    todo,            \* what this loop has not reached
    stack_overflow,  \* the variable of mark_and_sweep
    \* go()
    stack,
    v,               \* the object scanned, Null outside the scan
    j,               \* the next gc_ptr of v
    \* the flags
    deref_marked,    \* bit 0 of root_handler::p
    marked,          \* MARK_FLAG
    pinned,          \* PIN_FLAG
    phase,           \* "mark", "crashed" or "done"
    \* history
    lost,            \* some push failed
    raced,           \* a gc_ptr was stored behind the back of the walk
    began            \* what was reachable when the collection began

graphVars == <<field, plain, words, stack_map, fake_roots>>
tableVars == <<roots, fresh>>
threadVars == <<running, steps, raced>>
inputVars == <<full, graphVars, threadVars, began>>
walkVars  == <<handler, part, todo>>
goVars    == <<stack, v, j>>
flagVars  == <<marked, pinned, lost>>
vars == <<inputVars, tableVars, walkVars, stack_overflow, goVars,
          deref_marked, flagVars, phase>>

\* What the program can reach: the objects in every set that has what its
\* gc_ptrs and plain pointers lead to and is closed under their gc_ptrs.
Roots == fake_roots \cup UNION {plain[h] \cup stack_map[h] : h \in Threads}
Closed(S) ==
    /\ Roots \subseteq S
    /\ \A o \in S, i \in 1..FieldCount : field[o][i] \in S \cup {Null}
Reachable == {o \in Objects : \A S \in SUBSET Objects : Closed(S) => o \in S}

\* A word without a handle is not a plain pointer: it only looks like one.
Init ==
    /\ full \in BOOLEAN
    /\ running \in (SUBSET Threads) \ {Threads}
    /\ steps = 0
    /\ field \in Graphs
    /\ words \in [Threads -> RootSets]
    /\ stack_map \in [Threads -> RootSets]
    /\ fake_roots \in RootSets
    /\ roots \in RootSets
    /\ plain = [h \in Threads |-> words[h] \cap roots]
    /\ fresh = {}
    /\ handler = 1
    /\ part = "wait"
    /\ todo = {}
    /\ stack_overflow = FALSE
    /\ stack = <<>>
    /\ v = Null
    /\ j = 1
    /\ deref_marked = {}
    /\ marked = {}
    /\ pinned = {}
    /\ phase = "mark"
    /\ lost = FALSE
    /\ raced = FALSE
    /\ began = Reachable

OnStack == {stack[i] : i \in 1..Len(stack)}

\* The walk has read the gc_ptr i of o, and does not come back to it.
Scanned(o, i) == o \in marked /\ (o = v => i < j)
-----------------------------------------------------------------------------
(* A running thread.  It uses the gc_ptrs of its own, those in static and  *)
(* other unmanaged memory, and those in objects to which it has a plain    *)
(* pointer.                                                                *)
Within(t) == {field[o][i] : o \in plain[t], i \in 1..FieldCount} \ {Null}
Held(t) == stack_map[t] \cup fake_roots \cup Within(t)

Runs(t) ==
    /\ phase = "mark"
    /\ t \in running
    /\ steps < MaxSteps
    /\ steps' = steps + 1
    /\ UNCHANGED <<full, running, began, walkVars, stack_overflow, goVars,
                   deref_marked, flagVars, phase>>

\* Its automatic gc_ptrs, and those in unmanaged memory, change.
SetRoot(t) ==
    /\ Runs(t)
    /\ \/ \E p \in Held(t) : stack_map' = [stack_map EXCEPT ![t] = @ \cup {p}]
       \/ \E p \in stack_map[t] : stack_map' = [stack_map EXCEPT ![t] = @ \ {p}]
    /\ UNCHANGED <<field, plain, words, fake_roots, tableVars, raced>>

SetFakeRoot(t) ==
    /\ Runs(t)
    /\ \/ \E p \in Held(t) : fake_roots' = fake_roots \cup {p}
       \/ \E p \in fake_roots : fake_roots' = fake_roots \ {p}
    /\ UNCHANGED <<field, plain, words, stack_map, tableVars, raced>>

\* A gc_ptr in an object is assigned.  The object stored is behind the walk
\* if the gc_ptr has been read and the object has not been seen.
Store(t) ==
    /\ Runs(t)
    /\ \E o \in plain[t], i \in 1..FieldCount, p \in Held(t) \cup {Null} :
           /\ field' = [field EXCEPT ![o][i] = p]
           /\ raced' = (raced \/ (/\ Scanned(o, i)
                                  /\ p \notin marked \cup OnStack \cup {Null}))
    /\ UNCHANGED <<plain, words, stack_map, fake_roots, tableVars>>

\* operator->: a new handle, in front of an older one.
Dereference(t) ==
    /\ Runs(t)
    /\ \E p \in Held(t) :
           /\ plain' = [plain EXCEPT ![t] = @ \cup {p}]
           /\ words' = [words EXCEPT ![t] = @ \cup {p}]
           /\ roots' = roots \cup {p}
           /\ fresh' = fresh \cup ({p} \cap deref_marked)
    /\ UNCHANGED <<field, stack_map, fake_roots, raced>>

\* A plain pointer is used no more; its word may stay on the stack.
Forget(t) ==
    /\ Runs(t)
    /\ \E p \in plain[t] :
           /\ plain' = [plain EXCEPT ![t] = @ \ {p}]
           /\ words' \in {words, [words EXCEPT ![t] = @ \ {p}]}
    /\ UNCHANGED <<field, stack_map, fake_roots, tableVars, raced>>

Park(t) ==
    /\ phase = "mark"
    /\ t \in running
    /\ running' = running \ {t}
    /\ UNCHANGED <<full, graphVars, steps, raced, began, tableVars, walkVars,
                   stack_overflow, goVars, deref_marked, flagVars, phase>>

Mutate(t) ==
    SetRoot(t) \/ SetFakeRoot(t) \/ Store(t) \/ Dereference(t) \/ Forget(t)
-----------------------------------------------------------------------------
InGo == stack # <<>> \/ v # Null

Walking(p) == phase = "mark" /\ part = p /\ ~InGo

\* The beginning of go(pointer, pin_root).
go(p) == stack' = <<p>> /\ UNCHANGED <<v, j>>
-----------------------------------------------------------------------------
(* mark_dereferenced_root, called for a word of the stack.                 *)
\* Does the word p select a handle that no earlier word has selected?
\* Variant, for the sensitivity of PinExact: the object's own mark bit is
\* read.
Selects_unmarked(p) == p \in roots \ marked \/ p \in fresh
\* Variant, for the sensitivity of MarkSound: any heap pointer is a root.
Selects_any(p) == p \notin deref_marked
Selects(p) == p \in roots \ deref_marked \/ p \in fresh

mark_dereferenced_root(p) ==
    /\ Walking("words")
    /\ p \in todo
    /\ todo' = todo \ {p}
    /\ IF Selects(p)
       THEN /\ deref_marked' = deref_marked \cup {p}
            /\ fresh' = fresh \ {p}
            /\ IF full
               THEN go(p) /\ pinned' = pinned \cup {p}
               ELSE UNCHANGED <<goVars, pinned>>
       ELSE UNCHANGED <<deref_marked, fresh, goVars, pinned>>
    /\ UNCHANGED <<inputVars, roots, handler, part, stack_overflow, marked,
                   lost, phase>>

(* One iteration over the StackMap, and one node of the fake roots.        *)
mark_root(p) ==
    /\ Walking("stack_map") \/ Walking("fake")
    /\ p \in todo
    /\ todo' = todo \ {p}
    /\ go(p)
    /\ UNCHANGED <<inputVars, tableVars, handler, part, stack_overflow,
                   deref_marked, flagVars, phase>>
-----------------------------------------------------------------------------
(* The loop of go(): take an object, mark it, push its unmarked children.  *)
Pop ==
    /\ phase = "mark"
    /\ v = Null
    /\ stack # <<>>
    /\ v' = stack[Len(stack)]
    /\ stack' = SubSeq(stack, 1, Len(stack) - 1)
    /\ j' = 1
    /\ marked' = marked \cup {v'}
    /\ UNCHANGED <<inputVars, tableVars, walkVars, stack_overflow, deref_marked,
                   pinned, lost, phase>>

\* Variant, for the sensitivity of TypeOK: one entry too many.
IsFull_late == Len(stack) > max_stack_size
IsFull == Len(stack) >= max_stack_size

\* go() returns the overflow; mark_dereferenced_root and mark_node drop it.
push(p) ==
    IF IsFull
    THEN /\ stack_overflow' = (stack_overflow \/ part = "stack_map")
         /\ lost' = TRUE
         /\ UNCHANGED stack
    ELSE stack' = Append(stack, p) /\ UNCHANGED <<stack_overflow, lost>>

\* Variant, for the sensitivity of TriColour: the last gc_ptr of an array is
\* not read.
NextField_short ==
    IF j + 1 < FieldCount
    THEN j' = j + 1 /\ UNCHANGED v
    ELSE j' = 1 /\ v' = Null

NextField ==
    IF j < FieldCount
    THEN j' = j + 1 /\ UNCHANGED v
    ELSE j' = 1 /\ v' = Null

\* Variant, for the sensitivity of MarkingEnds: get_mark is not tested.
ToVisit_always(p) == p # Null
ToVisit(p) == p # Null /\ p \notin marked

ScanField ==
    /\ phase = "mark"
    /\ v # Null
    /\ LET p == field[v][j] IN
       IF ToVisit(p)
       THEN push(p)
       ELSE UNCHANGED <<stack, stack_overflow, lost>>
    /\ NextField
    /\ UNCHANGED <<inputVars, tableVars, walkVars, deref_marked, marked, pinned,
                   phase>>
-----------------------------------------------------------------------------
\* Variant, for the sensitivity of MarkComplete: no thread is waited for.
thread_in_safepoint_assumed(h) == TRUE
thread_in_safepoint(h) == h \notin running

\* The collector gives up gc_mutex until the thread is in a safepoint.
Arrive ==
    /\ Walking("wait")
    /\ thread_in_safepoint(handler)
    /\ part' = "words"
    /\ todo' = words[handler]
    /\ UNCHANGED <<inputVars, tableVars, handler, stack_overflow, goVars,
                   deref_marked, flagVars, phase>>

\* The next thread, or the end of the list: the fake roots of a full
\* collection, none otherwise.
NextHandler ==
    /\ handler' = handler + 1
    /\ IF handler < HandlerCount
       THEN part' = "wait" /\ todo' = {}
       ELSE part' = "fake" /\ todo' = (IF full THEN fake_roots ELSE {})

WordsDone ==
    /\ Walking("words")
    /\ todo = {}
    /\ IF full
       THEN part' = "stack_map" /\ todo' = stack_map[handler]
                                /\ UNCHANGED handler
       ELSE NextHandler
    /\ stack_overflow' = FALSE
    /\ UNCHANGED <<inputVars, tableVars, goVars, deref_marked, flagVars, phase>>

StackMapDone ==
    /\ Walking("stack_map")
    /\ todo = {}
    /\ ~stack_overflow
    /\ NextHandler
    /\ UNCHANGED <<inputVars, tableVars, stack_overflow, goVars, deref_marked,
                   flagVars, phase>>

(* mark_after_overflow calls go() with the address of the meta information *)
(* of each marked block instead of the address of the object, so go()      *)
(* takes the words before the block for a base_meta.  It sets MARK_FLAG in *)
(* the word before these, which may be a gc_ptr of another object or a     *)
(* link of the pages, and follows what it takes for a shell: it may find   *)
(* no gc_ptrs there, mark any objects and overflow again, or crash.        *)
Damage ==
    /\ steps < MaxSteps
    /\ steps' = steps + 1
    /\ \E o \in Objects, i \in 1..FieldCount, p \in Objects \cup {Null} :
           field' = [field EXCEPT ![o][i] = p]

mark_after_overflow ==
    /\ Walking("stack_map")
    /\ todo = {}
    /\ stack_overflow
    /\ \/ /\ phase' = "crashed"
          /\ UNCHANGED <<field, steps, marked, stack_overflow>>
       \/ /\ \E S \in SUBSET Objects : marked' = marked \cup S
          /\ Damage \/ UNCHANGED <<field, steps>>
          /\ stack_overflow' \in BOOLEAN
          /\ UNCHANGED phase
    /\ UNCHANGED <<full, running, raced, began, plain, words, stack_map,
                   fake_roots, tableVars, walkVars, goVars, deref_marked, pinned,
                   lost>>

(* After the last root, sweep() for a full collection (another module),    *)
(* then sweep_dereferenced_roots.                                          *)
\* Variant, for the sensitivity of HandlesExact: the handle that follows an
\* unlinked one is skipped.
Unselected_kept(p) == p \in deref_marked \/ deref_marked = {}
Kept(p) == p \in deref_marked

sweep_dereferenced_roots ==
    /\ Walking("fake")
    /\ todo = {}
    /\ roots' = {p \in roots : Kept(p)}
    /\ deref_marked' = {}
    /\ fresh' = {}
    /\ phase' = "done"
    /\ UNCHANGED <<inputVars, walkVars, stack_overflow, goVars, flagVars>>

Collect ==
    \/ \E p \in Objects : mark_dereferenced_root(p) \/ mark_root(p)
    \/ Pop \/ ScanField
    \/ Arrive \/ WordsDone \/ StackMapDone \/ mark_after_overflow
    \/ sweep_dereferenced_roots

Next == Collect \/ \E t \in Threads : Mutate(t) \/ Park(t)

Spec == Init /\ [][Next]_vars
FairSpec ==
    Spec /\ WF_vars(Collect) /\ \A t \in Threads : WF_vars(Park(t))
-----------------------------------------------------------------------------
TypeOK ==
    /\ full \in BOOLEAN
    /\ running \in SUBSET Threads
    /\ steps \in 0..MaxSteps
    /\ field \in [Objects -> [1..FieldCount -> Objects \cup {Null}]]
    /\ words \in [Threads -> SUBSET Objects]
    /\ plain \in [Threads -> SUBSET Objects]
    /\ stack_map \in [Threads -> SUBSET Objects]
    /\ fake_roots \subseteq Objects
    /\ roots \subseteq Objects
    /\ handler \in 1..HandlerCount + 1
    /\ part \in {"wait", "words", "stack_map", "fake"}
    /\ todo \subseteq Objects
    /\ stack_overflow \in BOOLEAN
    /\ stack \in Seq(Objects)
    /\ Len(stack) <= max_stack_size
    /\ v \in Objects \cup {Null}
    /\ j \in 1..FieldCount
    /\ deref_marked \subseteq roots
    /\ fresh \subseteq deref_marked
    /\ marked \subseteq Objects
    /\ pinned \subseteq Objects
    /\ phase \in {"mark", "crashed", "done"}
    /\ lost \in BOOLEAN
    /\ raced \in BOOLEAN
    /\ began \subseteq Objects

(* What go() relies on when it skips marked objects (go.cpp:140): a gc_ptr *)
(* already read of a marked object leads to a marked object or to one on   *)
(* the mark stack.  Of all that running threads do between and during the  *)
(* walks of other threads, only an assignment to a gc_ptr already read, of *)
(* an object not yet seen, breaks this: a barrier in gc_ptr::operator=     *)
(* would be enough.                                                        *)
TriColour ==
    ~lost /\ ~raced =>
        \A o \in Objects, i \in 1..FieldCount :
            Scanned(o, i) => field[o][i] \in marked \cup OnStack \cup {Null}

\* All roots have been walked.
AtSweep == Walking("fake") /\ todo = {}

(* When a full collection comes to the sweep, everything that the program  *)
(* can reach by then is marked, although threads moved their gc_ptrs while *)
(* others had been walked, unless one stored an unseen object behind the   *)
(* walk, or a push failed (go.cpp:265-301).                                *)
MarkComplete ==
    AtSweep /\ full /\ ~lost /\ ~raced => Reachable \subseteq marked

(* Nothing else is marked, not even by the search of the threads' stacks   *)
(* for possible pointers (go.cpp:226-240) or through what running threads  *)
(* load and store: what the sweep keeps was reachable when the collection  *)
(* began.                                                                  *)
MarkSound == ~lost => marked \subseteq began

(* The objects that must not move (go.cpp:108-110): when it comes to the   *)
(* sweep, those behind the plain pointers that threads have by then are    *)
(* pinned, also when another root had marked them before, and only those   *)
(* with a handle and a word on some stack; a collection that only cleans   *)
(* the table pins and marks nothing.                                       *)
Mentioned == roots \cap UNION {words[h] : h \in Threads}
InUse == UNION {plain[h] : h \in Threads}
PinExact ==
    /\ AtSweep => IF full THEN InUse \subseteq pinned /\ pinned \subseteq Mentioned
                          ELSE pinned = {}
    /\ ~full => marked = {}

(* Both kinds of collection leave in the table the handles of all plain    *)
(* pointers in use, of none that no thread's stack mentions, and all with  *)
(* their mark bits reset (deref_roots.cpp:87-110): the next collection     *)
(* pins them again.                                                        *)
HandlesExact ==
    [][phase' = "done" =>
           /\ InUse \subseteq roots'
           /\ roots' \subseteq Mentioned
           /\ deref_marked' = {}]_vars

(* "mark all available objects with mbit = 1" (go.cpp:280), in a "stop the *)
(* world algorithm" (go.cpp:258): at the sweep of a full collection all    *)
(* that the program can reach is marked, unless a push failed.             *)
AllMarked == AtSweep /\ full /\ ~lost => Reachable \subseteq marked

(* An overflow of the mark stack is repaired: what is reachable is marked  *)
(* although a push has failed, at least when every root is automatic, for  *)
(* which mark_after_overflow is called (go.cpp:295-301, malloc.cpp:        *)
(* 108-125; "tests stack-overflow mark phase case",                        *)
(* tests/gc_tests/README.md:3).                                            *)
OverflowRecovered ==
    AtSweep /\ full /\ Roots = UNION {stack_map[h] : h \in Threads} =>
        Reachable \subseteq marked

(* The mark phase ends, cycles and objects pushed twice included, when the *)
(* threads reach their safepoints.  (Once a push has failed, this depends  *)
(* on the words that mark_after_overflow takes for meta information.)      *)
MarkingEnds == <>(phase # "mark" \/ lost)
=============================================================================
