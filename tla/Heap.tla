-------------------------------- MODULE Heap --------------------------------
(***************************************************************************)
(* The heap of libprecisegc: pages, blocks and big blocks, allocation, and *)
(* the sweep that copies the live blocks of pages without pinned blocks    *)
(* and frees these pages (sources/malloc.cpp), with get_next_obj, move_ptr *)
(* and fix_roots of sources/go.cpp.                                        *)
(*                                                                         *)
(* Lengths are counted in headers of a block: a block with s units of data *)
(* takes s + 1 units of its page.  A page's list of blocks is a sequence;  *)
(* what lies behind it, from page::free_block on, is `free'.  A pointer is *)
(* the pair of a page (0 for a big block) and a position.                  *)
(*                                                                         *)
(* The program runs until the mark phase ends, for the walk stops the      *)
(* threads one by one: mark is this end, and what it has found need not be *)
(* what can be reached by then (see Marking).  The program does not run    *)
(* during the sweep (see Safepoint).  When a collection has missed an      *)
(* object that the program may use, what the program does after it has no  *)
(* defined meaning: the model stops there.                                 *)
(*                                                                         *)
(* Several threads allocate: between the two halves of gcmalloc, which are *)
(* sections under malloc_mutex, another one may allocate, collect, or take *)
(* the pages that a collection has freed.  Composite pointers are not      *)
(* modelled.  Each block carries the name of the object that was           *)
(* constructed in it, for the refinement of ManagedHeap; the code does not *)
(* read it.                                                                *)
(***************************************************************************)
EXTENDS Integers, FiniteSets, SequencesExt

CONSTANTS Threads,
          Objects,      \* names of objects
          Cells,        \* gc_ptr variables outside the heap
          Raws,         \* plain pointers obtained through a gc_ptr
          FieldCount,   \* the number of gc_ptrs in each object
          Sizes,        \* the lengths that the data of each object may have
          Threshold,    \* BIG_BLOCK_THRESHOLD
          FirstMap,     \* the initial page_per_map
          EXPAND_FACTOR,
          MaxPages,     \* bound: pages mapped by morecore
          MaxBig,       \* bound: big blocks at a time
          Null

ASSUME ConstantsAssumption ==
    /\ FieldCount \in [Objects -> Nat]
    /\ Sizes \in [Objects -> SUBSET (Nat \ {0})]
    /\ Threshold \in Nat \ {0}
    /\ FirstMap \in Nat \ {0}
    /\ EXPAND_FACTOR \in Nat \ {0}
    /\ MaxPages \in Nat
    /\ MaxBig \in Nat
    /\ Null \notin Objects \cup (Nat \X Nat)

VARIABLES
    cell,          \* the gc_ptrs outside the heap
    raw,           \* the plain pointers; each has a dereferenced root
    block,         \* the blocks of each page
    free,          \* block_size(p->free_block) of each page p
    pages,         \* the list that begins with first_page
    last_page,
    free_list,     \* the free pages; a set: they hold nothing
    mapped,        \* how many pages morecore has provided
    page_per_map,
    big,           \* the big blocks
    pc,            \* "run", or the part of gc() to come next
    want,          \* of each thread: what gcmalloc wants, before and after gc()
    alive_pages,
    curr,          \* sweep: the pages that the first loop has still to visit
    free_blocks,   \* pages with room, by the size of their free block
    max_free_block,
    missed         \* history: a gc_ptr of a marked object led to an unmarked
                   \* one when a mark phase ended

programVars == <<cell, raw>>
pageVars    == <<block, free>>
listVars    == <<pages, last_page>>
poolVars    == <<free_list, mapped, page_per_map>>
sweepVars   == <<alive_pages, curr>>
roomVars    == <<free_blocks, max_free_block>>
vars == <<programVars, pageVars, listVars, poolVars, big, pc, want, sweepVars,
          roomVars, missed>>

Pages == 1..MaxPages
MaxFields == Max(Range(FieldCount))
NoFields(o) == [i \in 1..FieldCount[o] |-> Null]

Init ==
    /\ cell = [x \in Cells |-> Null]
    /\ raw = [p \in Raws |-> Null]
    /\ block = [p \in Pages |-> <<>>]
    /\ free = [p \in Pages |-> Threshold]
    /\ pages = <<>>
    /\ last_page = Null
    /\ free_list = {}
    /\ mapped = 0
    /\ page_per_map = FirstMap
    /\ big = <<>>
    /\ pc = "run"
    /\ want = [t \in Threads |-> Null]
    /\ alive_pages = <<>>
    /\ curr = <<>>
    /\ free_blocks = [s \in 1..Threshold |-> <<>>]
    /\ max_free_block = 0
    /\ missed = FALSE
-----------------------------------------------------------------------------
(* Blocks and pointers.                                                    *)
Allocated(q) == IF q[1] = 0 THEN q[2] \in DOMAIN big
                            ELSE q[2] \in DOMAIN block[q[1]]
At(q) == IF q[1] = 0 THEN big[q[2]] ELSE block[q[1]][q[2]]
Positions == {<<0, k>> : k \in DOMAIN big} \cup
             UNION {{<<p, i>> : i \in DOMAIN block[p]} : p \in Pages}

NewBlock(o, s) ==
    [size |-> s, obj |-> o, field |-> NoFields(o), forward |-> Null,
     marked |-> FALSE, pinned |-> FALSE, dead |-> FALSE]

\* Of the pointers in S, those that lead to a block; and what the program can
\* reach, which is in every set that holds what its variables lead to and is
\* closed under the fields of its members.
Blocks(S) == {q \in S \ {Null} : Allocated(q)}
Roots == Blocks({cell[x] : x \in Cells} \cup {raw[p] : p \in Raws})
Closed(C) ==
    /\ Roots \subseteq C
    /\ \A q \in C : Blocks(Range(At(q).field)) \subseteq C
Reached ==
    {q \in Positions : \A C \in SUBSET Positions : Closed(C) => q \in C}
-----------------------------------------------------------------------------
(* Allocation.  A page is full when its free block has no data.            *)
page_is_full(p) == free[p] <= 0

\* Variant, for the sensitivity of TypeOK: any room is enough.
HasRoom_any(p, s) == ~page_is_full(p)
HasRoom(p, s) == ~page_is_full(p) /\ free[p] >= s

\* What is left of the free block behind a new block of s units.
\* Variant, for the sensitivity of PageFilled: the header is forgotten.
Remaining_headless(p, s) == free[p] - s
Remaining(p, s) == free[p] - (s + 1)

(* request_new_page: p is a free page; when there is none, `expand' maps   *)
(* page_per_map pages.                                                     *)
request_new_page(p, expand) ==
    IF free_list # {}
    THEN /\ p = Min(free_list)
         /\ free_list' = free_list \ {p}
         /\ UNCHANGED <<mapped, page_per_map>>
    ELSE /\ expand
         /\ mapped + page_per_map <= MaxPages
         /\ p = mapped + page_per_map
         /\ free_list' = mapped + 1..p - 1
         /\ mapped' = p
         /\ page_per_map' = EXPAND_FACTOR * page_per_map

malloc_in_page(p, new) ==
    /\ block' = [block EXCEPT ![p] = Append(@, new)]
    /\ free' = [free EXCEPT ![p] = Remaining(p, new.size)]

\* p is last_page when gcmalloc(s) comes to malloc_in_page.
LastPage(p, s, expand) ==
    \/ /\ pages = <<>>
       /\ request_new_page(p, TRUE)
       /\ pages' = <<p>>
       /\ last_page' = p
    \/ /\ pages # <<>>
       /\ s > Threshold \/ HasRoom(last_page, s)
       /\ p = last_page
       /\ UNCHANGED <<listVars, poolVars>>
    \/ /\ pages # <<>>
       /\ ~(s > Threshold \/ HasRoom(last_page, s))
       /\ request_new_page(p, expand)
       /\ pages' = Append(pages, p)
       /\ last_page' = p

(* gc_new: the cell x points to the new object once gcmalloc returns.      *)
Allocate(x, o, s, expand) ==
    /\ \E p \in Pages :
           /\ LastPage(p, s, expand)
           /\ IF s > Threshold
              THEN \E k \in 1..MaxBig \ DOMAIN big :
                       /\ \A l \in 1..k - 1 : l \in DOMAIN big
                       /\ big' = [i \in DOMAIN big \cup {k} |->
                                     IF i = k THEN NewBlock(o, s) ELSE big[i]]
                       /\ cell' = [cell EXCEPT ![x] = <<0, k>>]
                       /\ UNCHANGED pageVars
              ELSE /\ malloc_in_page(p, NewBlock(o, s))
                   /\ cell' = [cell EXCEPT ![x] = <<p, Len(block[p]) + 1>>]
                   /\ UNCHANGED big
    /\ UNCHANGED <<raw, sweepVars, roomVars>>

\* Between two collections, as long as no object has been lost.
Running == pc = "run" /\ ~missed

(* gcmalloc by t, which collects when the last page is full and none is    *)
(* free: then the lock is given up, and what gc() has left may be used by  *)
(* others before t has the lock again.                                     *)
Asks(t, stage) == want[t] # Null /\ want[t].stage = stage

gcmalloc(t, x, o, s) ==
    /\ Running
    /\ want[t] = Null
    /\ \A q \in Positions : At(q).obj # o
    /\ \A u \in Threads : want[u] # Null => want[u].obj # o
    /\ \/ /\ Allocate(x, o, s, FALSE)
          /\ UNCHANGED want
       \/ /\ pages # <<>>
          /\ ~(s > Threshold \/ HasRoom(last_page, s))
          /\ free_list = {}
          /\ want' = [want EXCEPT ![t] =
                         [stage |-> "gc", cell |-> x, obj |-> o, size |-> s]]
          /\ UNCHANGED <<programVars, pageVars, listVars, poolVars, big,
                         sweepVars, roomVars>>
    /\ UNCHANGED pc

\* Variant, for the sensitivity of RetrySucceeds: no page is mapped.
Expand_never == FALSE
Expand == TRUE

gcmalloc_retry(t) ==
    /\ Running
    /\ Asks(t, "retry")
    /\ Allocate(want[t].cell, want[t].obj, want[t].size, Expand)
    /\ want' = [want EXCEPT ![t] = Null]
    /\ UNCHANGED pc
-----------------------------------------------------------------------------
(* The program between two calls of the collector.  As long as nothing     *)
(* dangles, Allocated is true of every pointer that is followed.           *)
SetCell(x, q) ==
    /\ Running
    /\ cell' = [cell EXCEPT ![x] = q]
    /\ UNCHANGED <<raw, pageVars, listVars, poolVars, big, pc, want, sweepVars,
                   roomVars>>

SetRaw(p, q) ==
    /\ Running
    /\ raw' = [raw EXCEPT ![p] = q]
    /\ UNCHANGED <<cell, pageVars, listVars, poolVars, big, pc, want, sweepVars,
                   roomVars>>

SetField(q, i, r) ==
    /\ Running
    /\ IF q[1] = 0
       THEN big' = [big EXCEPT ![q[2]].field[i] = r] /\ UNCHANGED block
       ELSE block' = [block EXCEPT ![q[1]][q[2]].field[i] = r] /\ UNCHANGED big
    /\ UNCHANGED <<programVars, free, listVars, poolVars, pc, want, sweepVars,
                   roomVars>>

Clear(x)     == SetCell(x, Null)
Assign(x, y) == SetCell(x, cell[y])
Load(x, y, i) ==
    /\ cell[y] # Null
    /\ Allocated(cell[y])
    /\ i \in DOMAIN At(cell[y]).field
    /\ SetCell(x, At(cell[y]).field[i])
Store(x, i, y) ==
    /\ cell[x] # Null
    /\ Allocated(cell[x])
    /\ i \in DOMAIN At(cell[x]).field
    /\ SetField(cell[x], i, cell[y])
Dereference(p, x) == SetRaw(p, cell[x])
Forget(p) == SetRaw(p, Null)
-----------------------------------------------------------------------------
(* gc(): the end of the mark phase.  By then all roots have been walked    *)
(* (Marking!MarkComplete).  While a thread runs and others are walked, it  *)
(* may let go of objects that are marked already, and it may store behind  *)
(* the walk an object that is not marked, which is missed then; objects    *)
(* that could not be reached when the collection began are not marked      *)
(* (Marking!MarkSound), nor are those that an earlier one has found dead.  *)
(* When there is one thread, the walk finds what this thread can reach.    *)
(* That the mark stack overflows is left out.                              *)
Alone == \A t, u \in Threads : t = u
Found ==
    IF Alone
    THEN {Reached}
    ELSE {F \in SUBSET {q \in Positions : q \in Reached \/ ~At(q).dead} :
             Roots \subseteq F}

Flagged(q, found) ==
    [At(q) EXCEPT !.marked = @ \/ q \in found,
                  !.pinned = @ \/ \E p \in Raws : raw[p] = q]

\* A thread collects that is in gc(), or that has nothing to do with gcmalloc;
\* the others that are in gc() wait for it.
mark ==
    /\ Running
    /\ \A t \in Threads : ~Asks(t, "retry")
    /\ \E found \in Found :
           /\ block' = [p \in Pages |->
                           [i \in DOMAIN block[p] |-> Flagged(<<p, i>>, found)]]
           /\ big' = [k \in DOMAIN big |-> Flagged(<<0, k>>, found)]
           /\ missed' = ~Closed(found)
    /\ pc' = "sweep"
    /\ UNCHANGED <<programVars, free, listVars, poolVars, want, sweepVars,
                   roomVars>>

(* A constructor that gc_new runs has allocated: gc() does not collect     *)
(* while nesting_level is positive.  Or gc() has met a partial collection  *)
(* of another thread and only waited for it (go.cpp:182-187).              *)
gc_refused(t) ==
    /\ Running
    /\ Asks(t, "gc")
    /\ want' = [want EXCEPT ![t].stage = "retry"]
    /\ UNCHANGED <<programVars, pageVars, listVars, poolVars, big, pc,
                   sweepVars, roomVars>>

(* sweep: the big blocks, and the state in which the loops begin.          *)
sweep_big_blocks ==
    /\ pc = "sweep"
    /\ big' = [k \in {l \in DOMAIN big : big[l].marked \/ big[l].pinned} |->
                  [big[k] EXCEPT !.marked = FALSE, !.pinned = FALSE]]
    /\ max_free_block' = 0
    /\ alive_pages' = <<>>
    /\ last_page' = Null
    /\ curr' = pages
    /\ pc' = "classify"
    /\ UNCHANGED <<programVars, pageVars, pages, poolVars, want, free_blocks>>

\* The page p, whose free block has s > 0 units, can be copied to.
\* Variant, for the sensitivity of RoomExact: max_free_block is not raised.
AddRoom_unseen(fb, p, s) ==
    /\ free_blocks' = [fb EXCEPT ![s] = <<p>> \o @]
    /\ UNCHANGED max_free_block
AddRoom(fb, p, s) ==
    /\ free_blocks' = [fb EXCEPT ![s] = <<p>> \o @]
    /\ max_free_block' = IF max_free_block < s THEN s ELSE max_free_block

\* A block of a page with a pinned block stays where it is.
\* Variant, for the sensitivity of SweepAsserts: the flags of a block are not
\* reset when it is pinned.
Stays_pinned(x) ==
    IF x.pinned THEN x ELSE [x EXCEPT !.dead = @ \/ ~x.marked, !.marked = FALSE]
\* Variant, for the sensitivity of DeadUnreachable: the mark is reset before
\* it is tested.
Stays_unmarked(x) ==
    [x EXCEPT !.dead = @ \/ ~x.pinned, !.marked = FALSE, !.pinned = FALSE]
Stays(x) ==
    [x EXCEPT !.dead = @ \/ (~x.marked /\ ~x.pinned),
              !.marked = FALSE, !.pinned = FALSE]

\* Variant, for the sensitivity of PinnedStay: only the first block counts.
HasPinned_first(p) == block[p] # <<>> /\ block[p][1].pinned
HasPinned(p) == \E i \in DOMAIN block[p] : block[p][i].pinned

(* The loop that takes the pages with pinned blocks out of the list; those *)
(* in front of curr_page stay.                                             *)
curr_page == Len(pages) - Len(curr) + 1

classify_page ==
    /\ pc = "classify"
    /\ curr # <<>>
    /\ curr' = Tail(curr)
    /\ LET p == Head(curr) IN
       IF HasPinned(p)
       THEN /\ pages' = RemoveAt(pages, curr_page)
            /\ alive_pages' = <<p>> \o alive_pages
            /\ last_page' = IF alive_pages = <<>> THEN p ELSE last_page
            /\ block' = [block EXCEPT ![p] = [i \in DOMAIN @ |-> Stays(@[i])]]
            /\ IF page_is_full(p)
               THEN UNCHANGED roomVars
               ELSE AddRoom(free_blocks, p, free[p])
       ELSE UNCHANGED <<block, listVars, alive_pages, roomVars>>
    /\ UNCHANGED <<programVars, free, poolVars, big, pc, want>>

classify_done ==
    /\ pc = "classify"
    /\ curr = <<>>
    /\ pc' = "copy"
    /\ UNCHANGED <<programVars, pageVars, listVars, poolVars, big, want,
                   sweepVars, roomVars>>
-----------------------------------------------------------------------------
(* The loop that copies the marked blocks of the remaining pages, in their *)
(* order.  A block that is copied has a forward pointer.                   *)
Waiting(p) == {i \in DOMAIN block[p] : block[p][i].marked /\ block[p][i].forward = Null}
WaitingPages == {n \in DOMAIN pages : Waiting(pages[n]) # {}}

\* The next block, while WaitingPages is not empty.
NextBlock == LET p == pages[Min(WaitingPages)] IN <<p, Min(Waiting(p))>>

first_alive_page ==
    /\ pc = "copy"
    /\ WaitingPages # {}
    /\ alive_pages = <<>>
    /\ \E p \in Pages :
           /\ request_new_page(p, TRUE)
           /\ alive_pages' = <<p>>
           /\ last_page' = p
           /\ free_blocks' = [free_blocks EXCEPT ![Threshold] = <<p>> \o @]
    /\ max_free_block' = Threshold
    /\ UNCHANGED <<programVars, pageVars, pages, big, pc, want, curr>>

\* The next block is copied to the page p; fb is free_blocks without p.
CopyTo(p, fb) ==
    LET b    == NextBlock
        room == Remaining(p, At(b).size)
    IN  /\ block' = [block EXCEPT
               ![p] = Append(@, [At(b) EXCEPT !.marked = FALSE, !.pinned = FALSE,
                                          !.dead = FALSE]),
               ![b[1]][b[2]].forward = <<p, Len(block[p]) + 1>>]
        /\ free' = [free EXCEPT ![p] = room]
        /\ IF room <= 0
           THEN free_blocks' = fb /\ UNCHANGED max_free_block
           ELSE AddRoom(fb, p, room)

\* The sizes of free blocks that suffice for it.
Fits == {f \in At(NextBlock).size..max_free_block : free_blocks[f] # <<>>}

copy_block ==
    /\ pc = "copy"
    /\ WaitingPages # {}
    /\ alive_pages # <<>>
    /\ \/ /\ Fits # {}
          /\ LET f == Min(Fits)
             IN  CopyTo(Head(free_blocks[f]), [free_blocks EXCEPT ![f] = Tail(@)])
          /\ UNCHANGED <<alive_pages, last_page, poolVars>>
       \/ /\ Fits = {}
          /\ \E p \in Pages :
                 /\ request_new_page(p, TRUE)
                 /\ alive_pages' = Append(alive_pages, p)
                 /\ last_page' = p
                 /\ CopyTo(p, free_blocks)
    /\ UNCHANGED <<programVars, pages, big, pc, want, curr>>
-----------------------------------------------------------------------------
(* fix_ptr: what a gc_ptr with value q becomes.                            *)
fix_ptr(q) ==
    IF q # Null /\ Allocated(q) /\ At(q).marked THEN At(q).forward ELSE q

FixFields(x) ==
    IF x.dead THEN x
              ELSE [x EXCEPT !.field = [i \in DOMAIN @ |-> fix_ptr(@[i])]]

\* The loop over the surviving pages.
fix_pages ==
    /\ pc = "copy"
    /\ WaitingPages = {}
    /\ block' = [p \in Pages |->
                    IF p \in ToSet(alive_pages)
                    THEN [i \in DOMAIN block[p] |-> FixFields(block[p][i])]
                    ELSE block[p]]
    /\ pc' = "fix"
    /\ UNCHANGED <<programVars, free, listVars, poolVars, big, want, sweepVars,
                   roomVars>>

\* The registered gc_ptrs.  (The fake roots are not on the root stacks: the
\* code does not update them.)
\* Variant, for the sensitivity of ImplementsManagedHeap: one is missed.
Fixed_short == Cells \ {CHOOSE x \in Cells : TRUE}
Fixed == Cells

fix_roots ==
    /\ pc = "fix"
    /\ cell' = [x \in Cells |-> IF x \in Fixed THEN fix_ptr(cell[x]) ELSE cell[x]]
    /\ pc' = "release"
    /\ UNCHANGED <<raw, pageVars, listVars, poolVars, big, want, sweepVars,
                   roomVars>>

(* The old pages go to the free list: nothing is allocated in them.        *)
Reset(fb) ==
    [s \in 1..Threshold |-> IF s <= max_free_block THEN <<>> ELSE fb[s]]

\* Variant, for the sensitivity of PagesKept: the loop ends at the last page.
Freed_short == IF pages = <<>> THEN {} ELSE ToSet(Front(pages))
Freed == ToSet(pages)

release ==
    /\ pc = "release"
    /\ free_list' = free_list \cup Freed
    /\ block' = [p \in Pages |-> IF p \in Freed THEN <<>> ELSE block[p]]
    /\ free' = [p \in Pages |-> IF p \in Freed THEN Threshold ELSE free[p]]
    /\ pages' = alive_pages
    /\ alive_pages' = <<>>
    /\ free_blocks' = Reset(free_blocks)
    /\ max_free_block' = 0
    /\ want' = [t \in Threads |-> IF Asks(t, "gc")
                                  THEN [want[t] EXCEPT !.stage = "retry"]
                                  ELSE want[t]]
    /\ pc' = "run"
    /\ UNCHANGED <<programVars, last_page, mapped, page_per_map, big, curr>>
-----------------------------------------------------------------------------
Program ==
    /\ \E t \in Threads : want[t] = Null
    /\ \/ \E x \in Cells : Clear(x)
       \/ \E x, y \in Cells :
              \/ Assign(x, y)
              \/ \E i \in 1..MaxFields : Load(x, y, i) \/ Store(x, i, y)
       \/ \E p \in Raws : Forget(p) \/ \E x \in Cells : Dereference(p, x)

Allocation == \E t \in Threads :
    \/ \E x \in Cells, o \in Objects : \E s \in Sizes[o] : gcmalloc(t, x, o, s)
    \/ gc_refused(t)
    \/ gcmalloc_retry(t)

Sweep ==
    \/ sweep_big_blocks
    \/ classify_page \/ classify_done
    \/ first_alive_page \/ copy_block
    \/ fix_pages \/ fix_roots
    \/ release

Next ==
    \/ mark
    \/ (Program \/ Allocation \/ Sweep) /\ UNCHANGED missed

Spec == Init /\ [][Next]_vars
-----------------------------------------------------------------------------
Pointers == {Null} \cup ((0..MaxPages) \X (Nat \ {0}))
Block ==
    [size : Nat \ {0}, obj : Objects, field : Seq(Pointers),
     forward : Pointers, marked : BOOLEAN, pinned : BOOLEAN, dead : BOOLEAN]
Request ==
    [stage : {"gc", "retry"}, cell : Cells, obj : Objects, size : Nat \ {0}]

\* The types of the variables; no block is longer than its page or its list
\* of big blocks has room for.
TypeOK ==
    /\ cell \in [Cells -> Pointers]
    /\ raw \in [Raws -> Pointers]
    /\ block \in [Pages -> Seq(Block)]
    /\ free \in [Pages -> -1..Threshold]
    /\ pages \in Seq(Pages)
    /\ last_page \in Pages \cup {Null}
    /\ free_list \subseteq Pages
    /\ mapped \in 0..MaxPages
    /\ page_per_map \in Nat \ {0}
    /\ DOMAIN big \subseteq 1..MaxBig
    /\ \A k \in DOMAIN big : big[k] \in Block
    /\ pc \in {"run", "sweep", "classify", "copy", "fix", "release"}
    /\ want \in [Threads -> Request \cup {Null}]
    /\ alive_pages \in Seq(Pages)
    /\ curr \in Seq(Pages)
    /\ free_blocks \in [1..Threshold -> Seq(Pages)]
    /\ max_free_block \in 0..Threshold
    /\ missed \in BOOLEAN

(* No page is lost, and none is on two lists, whatever the sweep has moved *)
(* so far; and last_page, behind which the next page is linked             *)
(* (malloc.cpp:198, 258), is the end of the list being built.              *)
PagesKept ==
    LET used  == pages \o alive_pages
        built == IF pc \in {"classify", "copy", "fix", "release"}
                 THEN alive_pages ELSE pages
    IN  /\ Len(used) + Cardinality(free_list) = mapped
        /\ ToSet(used) \cup free_list = 1..mapped
        /\ pc # "sweep" => last_page = IF built = <<>> THEN Null ELSE Last(built)

(* free_blocks has exactly the surviving pages with room, each under the   *)
(* present size of its free block and where copy_block still searches; and *)
(* nothing is left in it for the next sweep, when these pages may be full  *)
(* or free (malloc.cpp:247-273, 335-342, 409-412).                         *)
RoomExact ==
    \A s \in 1..Threshold :
        /\ ToSet(free_blocks[s]) =
               {p \in ToSet(alive_pages) : ~page_is_full(p) /\ free[p] = s}
        /\ \A i, j \in DOMAIN free_blocks[s] :
               free_blocks[s][i] = free_blocks[s][j] => i = j
        /\ free_blocks[s] # <<>> => s <= max_free_block

(* A page never holds more than fits: behind its blocks, each of which     *)
(* begins where the one before it ends, lies its free block, and behind    *)
(* this the page ends (malloc.cpp:173-183).                                *)
Begins(b) ==
    LET at[i \in 1..Len(b) + 1] ==
            IF i = 1 THEN 0 ELSE at[i - 1] + b[i - 1].size + 1
    IN  at
PageFilled ==
    \A p \in Pages : Begins(block[p])[Len(block[p]) + 1] + free[p] = Threshold

(* The assertions of sweep, of the pages it copies from and of those that  *)
(* survive (malloc.cpp:351-352, 372-373), hold until a mark phase misses   *)
(* an object: a later one would meet the lost object and mark a dead block *)
(* through it.                                                             *)
SweepAsserts ==
    pc = "copy" /\ ~missed =>
        /\ \A p \in ToSet(pages) : \A i \in DOMAIN block[p] :
               ~block[p][i].pinned /\ ~(block[p][i].dead /\ block[p][i].marked)
        /\ \A p \in ToSet(alive_pages) : \A i \in DOMAIN block[p] :
               ~block[p][i].pinned /\ ~block[p][i].marked

(* When a collection is over whose mark phase has missed nothing, no block *)
(* that the program can reach is dead, whether it was copied or lies in a  *)
(* page that stayed, and whichever collections went before                 *)
(* (malloc.cpp:328-329).                                                   *)
DeadUnreachable ==
    pc = "release" /\ ~missed =>
        LET found == Reached
        IN  \A p \in ToSet(alive_pages) : \A i \in DOMAIN block[p] :
                block[p][i].dead => <<p, i>> \notin found

(* An object behind a plain pointer does not move: what the program reads  *)
(* through this pointer is the object until the program forgets it, over   *)
(* any number of collections (malloc.cpp:308-320).                         *)
PinnedStay ==
    [][\A p \in Raws : raw[p] # Null /\ raw'[p] = raw[p] =>
          /\ Allocated(raw[p])'
          /\ At(raw[p])'.obj = At(raw[p]).obj]_vars

(* A request that made gcmalloc collect is granted, also when nothing was  *)
(* collected, no page is alive, or another thread has taken what was free: *)
(* gcmalloc asserts that its result is not null (malloc.cpp:217-229).      *)
RetrySucceeds ==
    Running =>
        \A t \in Threads : Asks(t, "retry") => ENABLED gcmalloc_retry(t)
-----------------------------------------------------------------------------
(* No gc_ptr that the program can use dangles, as long as no mark phase    *)
(* has missed an object: after a collection those on the root stacks and   *)
(* those in objects, wherever these lie, follow what was moved             *)
(* (tests/mark-and-copy/test.cpp:48).                                      *)
NoneDangles ==
    Running =>
        \A q \in {cell[x] : x \in Cells} \cup UNION {Range(At(r).field) : r \in Reached} :
            q = Null \/ Allocated(q)
-----------------------------------------------------------------------------
(* What the program sees: the object a pointer leads to, and the fields of *)
(* each object (of one of its copies, while it is being moved).            *)
ObjectAt(q) ==
    IF q = Null THEN Null ELSE IF Allocated(q) THEN At(q).obj ELSE "dangling"
Contents(q) == [i \in DOMAIN At(q).field |-> ObjectAt(At(q).field[i])]
Copies(o) == {q \in Positions : At(q).obj = o}
FieldsOf(o) ==
    LET F == {Contents(q) : q \in Copies(o)}
    IN  IF F = {} THEN NoFields(o) ELSE CHOOSE f \in F : TRUE

Promised == INSTANCE ManagedHeap WITH
    cell  <- [x \in Cells |-> ObjectAt(cell[x])],
    raw   <- [p \in Raws |-> ObjectAt(raw[p])],
    field <- [o \in Objects |-> FieldsOf(o)],
    broken <- missed

(* Whatever the collector moves, frees or reuses, and however much garbage *)
(* it takes for objects, the program finds the objects that it can reach   *)
(* as it left them, until a mark phase misses one of them: a run of this   *)
(* heap is a run of ManagedHeap, in which there are no collections         *)
(* (malloc.cpp:275-415).                                                   *)
ImplementsManagedHeap == Promised!Spec
=============================================================================
