# Verification of libprecisegc

libprecisegc is a precise mark-and-copy garbage collector for C++, which calls
itself a stop-the-world collector: a program uses `gc_ptr<T>` in place of `T*`,
allocates with `gc_new<T>`, and starts its threads with `thread_create`. This
directory holds TLA+ models of the collector, TLC instances of them, and TLAPS
proofs about them. Source paths below are relative to `src/sources/`.
`PROJECT.json` relates every definition of the models to the lines it stands for.

## 1. Inventory

| Component | State | Operations | Interacts with |
|---|---|---|---|
| Safepoint protocol (`threading.h`, `threading.cpp`, `go.cpp:160-191, 242-308`) | `first_thread` list of handlers, flags, `gc_thread`, `more_than_one`, `gc_mutex`, two condition variables | `safepoint`, `gc`, `start_routine`, `thread_create/join/exit/cancel`, `remove_thread`, the walk over the handlers | calls marking and sweeping of each handler's roots; called by every access through a `gc_ptr` |
| Mark phase (`go.cpp:70-151, 226-308`) | mark stack, mark and pin flags in block headers | `go`, `mark_stack`, walks over StackMaps and fake roots, `mark_after_overflow` | reads all kinds of roots and objects |
| Dereferenced roots (`deref_roots.cpp`) | hash table of handles, free list, growth counters | register, mark, sweep, ask for a partial `gc(false)` | registered by `gc_ptr::operator->`, swept by every collection |
| Heap (`malloc.cpp`, `go.cpp:20-54, 310-319`) | pages and their blocks, alive and free lists, `free_blocks`, big blocks | `gcmalloc`, `sweep`, `fix_ptr`, `fix_roots` | collects when the last page is full; moves objects, updates `gc_ptr`s |
| `gc_ptr`, StackMap (`gc_ptr.h`, `stack.cpp`) | pointer with two tag bits, per-thread list of roots | construct, destroy, copy, move, assign, dereference, `attach`, `setNULL` | registers roots; safepoints |
| `gc_new`, meta information (`gc_new.h`, `meta_information.h`, `tlvars.h`) | thread-local flags, nesting level, offsets per type | construct objects and arrays; discover the offsets of a type's `gc_ptr`s | allocates; forbids collections inside constructors |
| Fake roots (`fake_roots.h`) | AVL tree of addresses | register, unregister, mark | roots of the mark phase |
| Handler pool (`threading.cpp:23-48`) | free list under its own mutex | get, put | handlers of threads |
| Not the program's logic | `taginfo` (unused), `gc_ref.h` (not included anywhere), `debug_print.h`, tests, evaluation | | |

What makes each component correct, and what is hard about it:

* **Safepoint protocol**: no thread runs user code while objects move, nor after
  its roots have been walked; every root of every thread is walked; nobody sleeps
  for ever. Hard: threads start, end, wait and collect in any order; condition
  variables are waited for once, without a loop around the condition; unlocked
  reads. The protocol does not stop all threads before the first roots are walked.
* **Mark phase**: everything reachable is marked, nothing that was garbage when it
  began is, and what plain pointers refer to is pinned. Hard: threads that are not
  reached yet run and change objects that others have been walked for; cycles and
  sharing, the bounded stack, two kinds of collection that share the table.
* **Heap**: the program never notices that an object moves. Hard: half-updated
  pointers, four page lists, pages with room found by size, blocks that cannot
  move, dead blocks on pages that survive, requests that start a collection.
* **Dereferenced roots**: a plain pointer in use keeps its handle, and the
  object behind it stays where it is. Hard: handles are swept by partial
  collections between full ones; counters are updated outside the lock; the
  pointer is read before a safepoint and registered after it.
* **gc_ptr, StackMap**: each live automatic `gc_ptr` is a root, and nothing else
  should be one: the places of `gc_ptr`s that `setNULL` has cleared stay roots for
  good (finding `cleared_root`). Hard: destruction in any order, tag bits lost in
  assignments and moves, `setNULL`, shared composite pointers.
* **gc_new, meta information**: the collector finds the `gc_ptr`s of an object by
  offsets that were recorded while the first object of the type was constructed.
  Hard: constructors that call `gc_new`, also for their own type; arrays; flags
  that have to be restored; two threads at the first construction of a type.
* **Fake roots**: the tree has the registered addresses. Hard: rotations, equal
  addresses, no lock.

The list of hazards, each at its line, is in `PROJECT.json`.

## 2. Modules

| Module | What it is |
|---|---|
| `CollectionBarrier` | abstract: what "stop the world" means for threads, collector and roots |
| `Safepoint` | the protocol and the thread registry, one action per section under `gc_mutex` |
| `MCSafepoint`, `MCSafepoint*.cfg` | its instances |
| `SafepointProofs` | proofs about it, for any set of threads |
| `Marking` | the mark phase of full and partial collections, one action per loop iteration |
| `MCMarking`, `MCMarking*.cfg` | its instances: which object graphs |
| `MarkingProofs` | proofs about it, for any graph, roots, threads and stack size |
| `ManagedHeap` | abstract: objects that stay as the program left them; no collections |
| `Heap` | allocation by several threads and the moving sweep |
| `MCHeap`, `MCHeap*.cfg` | its instances |
| `HeapProofs` | proofs about its pages, for any number of threads, objects, sizes and pages |
| `HeapReachProofs` | proofs about its blocks and pointers: what the program can reach |
| `HeapRefinesProofs` | the proof that `Heap` implements `ManagedHeap` |
| `DerefRoots` | dereferencing, the table of handles and its growth, collections |
| `MCDerefRoots`, `MCDerefRoots.cfg` | its instance |
| `DerefRootsProofs` | proofs about it, for any number of threads, objects and handles |
| `GcPtr` | the operations on `gc_ptr`s, the StackMap, composite pointers |
| `GcNew` | composes `GcPtr` with `gc_new`, constructors and meta information |
| `MCGcNew`, `MCGcNew*.cfg` | its instances |
| `GcNewProofs` | proofs about both, for any number of `gc_ptr`s and any nesting |
| `FakeRoots`, `MCFakeRoots.cfg` | the AVL tree |
| `FakeRootsProofs` | proofs about it, for any addresses and trees of any height |

How they fit together. `Safepoint` implements `CollectionBarrier`: a thread runs
until its own roots are captured, and then not before the collection ends; at the
sweep nobody runs. So the *sweep* works on a program that stands still, and `Heap`
takes that for granted; the *mark phase* does not. `Marking` therefore lets the
threads that the walk has not come to run, and shows what can be said of the marks
at its end: nothing that was garbage is marked, and all that is reachable is,
unless a thread has stored an unseen object behind the walk. `Heap!mark` is a step
with any outcome that this allows. `DerefRoots!Collect` is one step of a whole
collection, of which only the pins and handles matter; `PinExact` and
`HandlesExact` show that they are right although threads run during the walk.
`GcNew` shows that the offsets and the automatic roots that `Marking` is given are
the right ones.

### Safepoint

A thread's `pc` names the place where it is: in user code (`run`), blocked on
`gc_is_finished` in one of the four functions that wait for it (`startWait`,
`spWait`, `gcWait`, `exitWait`), joining, ending, or collecting (`scan`,
`scanWait`, `sweep`). Condition variables are sets of sleeping threads; a
signal removes one, a broadcast all, and a woken thread goes on in a step of
its own, when `gc_mutex` is free - in whatever state the protocol is then.
`next` is the real linked list, so that unlinking, pushing at the head and the
collector's cursor have the effect they have in the code. What marking and
sweeping do to the heap is not in this module: a handler is `marked` when its
roots have been walked. Not modelled: `thread_cancel`, `remove_thread` of the
first thread.

### Marking

The walk takes the handlers one by one and waits for each thread only when it
comes to it (`Arrive`, `Park`). Until then the thread runs: it copies and drops
`gc_ptr`s (`SetRoot`, `SetFakeRoot`), assigns those in objects to which it has a
plain pointer (`Store`), dereferences (`Dereference`, which registers a handle that
may hide a marked one: `fresh`) and forgets. `go()` is modelled with its explicit
stack: an action pops an object (`Pop`) or looks at one `gc_ptr` of the object
popped (`ScanField`), and threads may act between any two of them; a `push` on a
full stack is lost, and sets `stack_overflow` for the roots for which the code
looks at the result. `mark_dereferenced_root` marks and pins; `gc(false)` only
looks up handles. `sweep_dereferenced_roots` ends a collection.

`mark_after_overflow` passes `go()` an address that is one header too low
(`malloc.cpp:111, 117`). What `go()` then takes for a header are words of something
else: it sets a bit in one of them (`Damage`), marks whatever they lead to, may
report another overflow, or crashes. The model allows all of it.

Three history variables say what has gone wrong: `lost` (a push has failed),
`raced` (a thread has stored an object that was neither marked nor on the mark
stack into a `gc_ptr` that the walk had read), and `began`, what was reachable when
the collection began. Not modelled: which stack words address the inside of an
object (an input), composite pointers, threads that start or end during the walk.
An allocation during the walk needs no action: the new object is like one that its
thread alone held from the beginning, which is unmarked as well.

### Heap

A page is a sequence of blocks and the size of its free block (`free`, in
headers); `free` of a page that is exactly used up is 0 or -1, as `page_is_full`
expects. `gcmalloc` takes the last page, asks for a page, or collects and retries
with `expand`; a collection that a constructor asks for is refused and the retry
maps pages. `sweep` is modelled loop by loop: the big blocks, `classify_page`
(pages with a pinned block leave the list, their unmarked blocks die),
`first_alive_page` and `copy_block` (search in `free_blocks`, else a new page; the
old block gets the forward pointer, by which the place of the loop is known),
`fix_pages`, `fix_roots`, `release`. The mark phase is one step, its end; the
program's steps before it are those of the time during which the walk was going
on. What it flags is any set in `Found`: it has what the roots lead to by then,
may have garbage, but nothing that an earlier sweep found dead, and need not be
closed under the `gc_ptr`s of its members. If it is not, an object in use may have
been missed (`missed`); the sweep then goes on as in the code, and after it the
model stops, since a program that follows a dangling pointer has no defined
behaviour. With several threads `Found` allows more than `Marking` does, so what
holds here holds of the code. With one thread there is nobody to run during the
walk, and `Found` is exactly `Reached`. An overflow of the mark stack
(`mark_overflow`) is left out. The free list is a set: free pages hold nothing
that tells them apart. Each block carries the name of the object constructed in
it, for the refinement only. Several threads allocate: `gcmalloc` gives up
`malloc_mutex` before it calls `gc()`, so between its two halves (`gcmalloc`,
`gcmalloc_retry`) another thread may allocate, collect, or take the pages that a
collection has freed; `want` holds what each thread is waiting for. Not modelled:
composite pointers, failing `mmap`, the limit of 100 mapped parts.

### DerefRoots

A thread's `pc` follows `operator->`: the pointer is passed by value (`loaded`),
then comes the safepoint, then `register_dereferenced_root`, one step under
`deref_mutex`; after `gc(false)` the counters are changed outside the mutex, in
the steps of the source: `Reset`, `Test`, which reads `expand_factor`, `Load`, which
reads it again, and `Halve`, which stores the half. When `expand_factor` has become
0, the next registration that finds the pool used up divides by it
(`divide_by_zero`). The table is a number of handles per
address (`Table` is the set of these handles, which `CountExact` compares `count`
with) and a pool. A collection is one step of a thread while every other one is
at a safepoint; it keeps one handle for each address that a stack mentions, and
a full one moves any objects without a handle to any free addresses. `target` and
`leads` are history: which object the pointer was read for, and led to when it was
registered.

### GcPtr and GcNew

One thread, since the StackMap and `tlvars` are `thread_local`. A `gc_ptr` is a
place with the stack bit and the composite pointer, if any; to which object it
leads is left out. `top` is the StackMap as a sequence, from the top on:
`delete_stack_root` writes the address on the top over the first occurrence of
its argument and pops the top, so the order of the others changes. `CountRefs` is
what all operations do to `Composite_pointer::ref_count`. `setNULL` clears the stack
bit with the pointer, so that the destructor does not take the place off the
StackMap, and assignments do not set the bit again: `cleared` counts these entries,
which `RootsExact` excepts by name and `NoDeadRoot` does not.

`frames` are the calls of `gc_new` in progress with their local variables
(`known`, the saved flags `old`, the element under construction and how many
`gc_ptr`s it has constructed). `gc_new`, `NextElement` and the end of the call are
where the code sets or restores `tlflags`; between them the constructor is
arbitrary code: it constructs its members in their order (`BuildMember`), calls
`gc_new`, and uses automatic `gc_ptr`s that end before it does. A call ends in one
of three ways, according to what is done with the `gc_ptr` that it returns:
`ReturnToVariable`, `ReturnToMember` (the member of an object under construction,
which reports its offset to the call around), `ReturnToTemporary`.
`create_meta_elsewhere` is another thread that publishes the offsets of the same
type; that it publishes the right ones is what `OffsetsExact` says of this one.

### FakeRoots

The recursive functions of `fake_roots.h` as recursive functions on trees: a tree
is `Null` or a record (`Trees[n]`: those no deeper than `n`). The state is the tree
and, as history, how often each address is registered. The height is an `unsigned
char`: `MaxHeight` is at most 255. A higher AVL tree has more nodes than there are
addresses.

## 3. What is checked

| Run | Instance | Shows |
|---|---|---|
| `barrier_pair` | first thread and one more | types; `StopTheWorld`, `AllRootsMarked`; the protocol implements `CollectionBarrier` |
| `three_threads` | three threads, fair, spurious wakeups | flags, one collector, no lost wakeup, no orphan waiter, handler list and `more_than_one` exact; until a spurious wakeup: collections end, sleepers are woken, the cursor stays on the list |
| `stop_the_world_three` | three threads | **violated**: a waiter of one collection runs during the next |
| `mark_phase` | two threads, one of which may take two steps during the walk; three objects with two `gc_ptr`s, stack of two | nothing reachable unmarked unless `raced` or `lost`, nothing marked that was garbage, pins and table right, marking ends |
| `mark_race` | two threads, two objects | **violated**: an object stored behind the walk is in use and unmarked |
| `mark_overflow` | one thread, 496 graphs of three objects, stack of one | **violated**: after an overflow a reachable object is unmarked |
| `heap_sweep` | two allocating threads, two `gc_ptr`s, one plain pointer, three objects of three types | pages and free space consistent, pinned objects stay, requests granted; until an object is missed: nothing dead reachable, `assert`s of `sweep`, heap implements `ManagedHeap` |
| `heap_big_block` | one big object with a `gc_ptr` | **violated**: its `gc_ptr` is not updated |
| `construction` | two automatic `gc_ptr`s, two composite pointers, types with one and two `gc_ptr`s, `gc_new` two deep | no root lost, nothing else in the StackMap at places never cleared, `ref_count` exact, recorded offsets and flags right |
| `cleared_root` | the same with the move constructor | **violated**: a `gc_ptr` that was cleared and destroyed stays a root |
| `deref_roots` | three threads, two objects, three addresses | handles accounted for, plain pointers stay valid |
| `fake_roots` | trees of up to twelve nodes over five addresses | the tree has each address as often as it is registered, ordered, balanced |

The violated runs are described under "findings" in `PROJECT.json`. They were
met while modelling. The stack overflow and the big block were also reproduced by
compiling the library. In short:

* `mark_race`: go.cpp:273 gives up `gc_mutex` in the middle of the walk, and
  `gc_ptr::operator=` has neither a lock nor a write barrier. Everything in this
  project that is about reachability is subject to it: `TriColour` and
  `MarkComplete` have the hypothesis `~raced`, and `SweepAsserts`,
  `DeadUnreachable`, `NoneDangles` and the refinement of `ManagedHeap` have
  `~missed`. Pages, free space, pins, handles and `MarkSound` do not depend on it.
* `stop_the_world_three`: with three threads, one that waits for the end of a
  collection can run in the next one, also during its sweep. `Heap`, and
  `DerefRoots!Collect`, assume that it does not; `Marking` that a thread that has
  parked stays parked.
* `cleared_root`: see `GcPtr`; `mark_overflow`, `heap_big_block`: see `Marking`,
  `Heap`.

### Seen without a run

These were met while modelling as well. They are wrong by the shape of the code,
so that a run would only repeat it.

* *A moved `gc_ptr` is no root.* The move constructor (`gc_ptr.h:213-215`) neither
  registers the new `gc_ptr` nor sets its stack flag, and does not count a
  composite pointer. A function that returns its parameter moves it
  (`tests/immutable_AVL_tree/avl.cpp:106`). `Move` is in `GcPtr`, enabled by
  `Moves`; `NoRootLost` in `MCGcNewClears.cfg` in place of `NoDeadRoot` gives the
  behaviour. Reproduced by compiling: after `gc()` the object reads as a later one.
* *The factor becomes 0.* Two threads that come out of `gc(false)` when
  `expand_factor` is 2 both pass the test of `deref_roots.cpp:61`; one stores 1,
  the other reads this 1 and stores 0. The next registration that uses up the pool
  computes `expand_count % 0` (line 55). In the run `deref_roots` this is the
  action `divide_by_zero`. A compiler that keeps the first read in a register
  hides it.
* *Construction is no shelter.* `safepoint()` (`threading.h:47`) does not look at
  `nesting_level`: a thread whose constructor dereferences a `gc_ptr` parks there
  for a collection of another thread, although neither the object under
  construction nor the automatic `gc_ptr`s of the constructor are roots. `gc()`
  itself is refused while `nesting_level` is positive, and
  `tests/gc_tests/test3.cpp:6` relies on it.
* *Fake roots are not updated.* `fix_roots` (`go.cpp:310`) visits the StackMaps;
  what `register_object` has registered is marked and keeps the old address.
  Reproduced by compiling.
* *A new thread is behind the walk.* `start_routine` pushes its handler at the head
  of the list (`threading.cpp:83`); with three threads the collector may sleep
  further down, so that its roots are not walked. It needs the wakeup of
  `stop_the_world_three`; with two threads `AllRootsMarked` is proved. `Marking`
  has no such thread.
* *Composite pointers are taken for objects.* A `Composite_pointer` lies in a block
  of `gcmalloc` (`gc_ptr.h:310`); the sweep copies it, and the `gc_ptr`s that
  lead to it are followed as if it were an object. Reproduced by compiling
  (segmentation fault).
* *The pointer is older than the safepoint.* `get_ptr` (`gc_ptr.h:104`) takes the
  pointer by value, then waits for a collection that may move the object, and
  registers the old address. `DerefRoots` reaches these states: `leads` is `Null`
  there, and `PlainValid` is about the others.

### Bounds

* *Safepoint.* The false property needs three threads: one that waits, one
  that collects again, one that makes the collector sleep. With two it holds
  (also proved). In `three_threads` the list is changed in front of and behind
  a handler, and two threads wait for a third; the safety properties of that run are
  proved for any number of threads. `MaxNesting = 1`: only
  zero and positive are told apart.
* *Marking.* `mark_phase` begins with one of two graphs of three objects (no
  `gc_ptr` set, or one object that leads to both others, which lead twice to each
  other: a cycle, sharing, and more pushes than a stack of two has room for), and
  each kind of root of each thread is one of two objects. A running thread takes
  two steps (`MaxSteps`): a store behind the walk needs two, a `Store` and the
  loss of the root it came from. `mark_overflow` has 496 graphs (`Tangles`, see
  `MCMarking`) and no steps. The proofs need none of these bounds.
* *Heap.* With `Threshold = 4` a page has room for a small and a medium block or
  for one that leaves no room, so pages are full exactly, over-full by the header,
  or have room for some sizes and not for others. Three objects are enough for a
  pinned object beside a dead one on a page with room into which a third is
  copied, and for both threads to find their page full at once. `FirstMap = 1` and
  `EXPAND_FACTOR = 1` (32 and 2 in the code) make pages scarce: most page requests
  map one, and free pages are reused at once. `MaxPages = 4` is never what stops a
  retry, since `RetrySucceeds` holds. Cells and threads are interchangeable
  (`SYMMETRY`).
* *GcNew.* Two places, because `delete_stack_root` tells apart only the top, the
  argument and the rest, and stale entries of `setNULL` (at most one per place,
  `MaxClears`) add to the StackMap; two calls deep gives known in unknown,
  unknown in known, and a type within itself; arrays of length 2 have a first and
  a last element. The proofs need none of these bounds.
* *DerefRoots.* Three threads: two that change the factor at once and one that
  registers. `FirstFactor = 4` is halved twice, and a third time by the race,
  `mmap_count = 2` makes the pool grow while handles are in use, `MaxHandles = 4`
  ends it. Three addresses for two objects let an object move, and move back.
* *FakeRoots.* Twelve nodes are the first size at which the removal of one node
  may need rotations at two levels (the smallest AVL tree of height 5); five
  addresses make most of them equal to others. `MaxHeight = 5` stops no step, since
  a tree of eleven nodes is no higher than 4. The proofs have neither bound on the
  nodes nor on the addresses.

`CHECK_DEADLOCK FALSE` is used where a behaviour may end: in `Marking` it is one
collection, in `Heap` it ends after a collection that has missed an object, and in
`DerefRoots` with a division by zero.

### Fairness

`Safepoint!Fairness` has weak fairness for every thread's protocol steps (the
scheduler runs every thread, `pthread` mutexes are assumed not to starve one) and
strong fairness for `safepoint(t)`: user code that computes for ever meets
safepoints again and again, since every access through a `gc_ptr` is one. The
collector relies on that; a thread that loops without one stops every collection.
Strong fairness is needed because a safepoint of a thread is disabled whenever it
does something else. `CollectionEnds` and `WaiterWoken` hold until there is a
spurious wakeup: a thread that sleeps on `gc_is_finished` then runs, and may end
and take the handler that the collector is at off the list. `Marking!FairSpec`
says that the collector keeps running and that every thread parks at last, for the
same reason as above.

## 4. What is proved

TLAPS proves these theorems for every value of the constants allowed by the
assumptions of each module (`ConstantsAssumption`; in `GcPtr` and `GcNew`
`PlacesAssumption`, `ValueAssumption` and `TypesAssumption`).

**`SafepointProofs`**, for any set of threads, any nesting and with spurious
wakeups unless said otherwise: `TypeCorrect`, `CollectorExclusion`,
`FlagsTruthful`, `WakeupsKept`, `WaitersHaveCollection`, `RegistryCorrect`,
`MoreThanOneCorrect`, and `CursorStays`, which is about the time before the first
spurious wakeup (history variable `disturbed`). For two threads, without spurious
wakeups: `PairStopsTheWorld`, `PairMarksAllRoots`, `PairImplementsBarrier`
(initial states and every step map to the barrier). The invariant is built in
layers, each inductive relative to those before:

1. `TypeOK`, `OneCollector`, `SafepointFlags`;
2. `WakeInv`: sleepers are where they fell asleep, so a wakeup moves nobody else;
3. `ListInv`: the links are one-to-one, join live threads, end at the first
   thread and reach every registered one. This is what makes unlinking in the
   middle safe; from it follow `RegistryComplete` and `MoreThanOneExact`;
4. `CursorInv`: if the thread under the cursor has come to a safepoint, it
   sleeps on `gc_is_finished` or joins, so it cannot end before the collector
   goes on. A spurious wakeup breaks it, so it is shown until there is one;
5. `PairInv`: with two threads the collector does not sleep again once it has
   passed the other one, so it holds `gc_mutex` until it has swept. With three
   threads it can sleep there, and the theorems are false.

**`MarkingProofs`**, for every graph, root sets, number of threads, size of the
mark stack, any number of steps of the running threads between and during the
walks of others, full and partial collections: `TypeCorrect`, `TriColourKept`,
`PinsCorrect`, `HandlesCorrect`, `MarkingComplete`, `MarkingSound`. The
invariant `MarkInv` joins

1. `Walk`: threads that the walk has passed are parked, and what is left to a loop
   belongs to the handler it is at;
2. `HandleMarks`: each thread's plain pointers are on its stack and have handles;
   those of the threads passed are marked, and pinned in a full collection. A thread
   that still runs may register again what a parked one has marked: then the new
   handle is in front (`fresh`), and the old one stays marked;
3. `TriColour`: a `gc_ptr` already read leads to what is marked or on the mark
   stack. This is where the running threads matter. Copying or dropping roots does
   not disturb it, and a `Store` does only if the object stored has not been seen
   and the `gc_ptr` has been read, which is `raced`;
4. `RootsSeen`: roots passed are marked or on the stack;
5. `SeenSound`: what is marked, on the stack, or in reach of any thread was
   reachable when the collection began: threads only hand on what they have.

Completeness: at the end the stack is empty, so by `TriColour` and `RootsSeen` the
marked set is closed and contains the roots. Its hypotheses `~raced` and `~lost`
are the findings `mark_race` and `mark_overflow`, and no weaker theorem holds: the
runs of these names violate what is left without them. `PinsCorrect` and
`HandlesCorrect` have no hypothesis.

**`DerefRootsProofs`**, for any number of threads, objects, addresses and
handles: `PointersStayValid` and `HandlesAccountedFor`. The invariant of the
first says that a valid plain pointer has a handle (`Handled`): a collection
keeps that handle because the pointer is on a stack, and moves nothing that has
one. For the second: a registration adds one handle to `Table`, and a sweep leaves
one for each address in `Kept`, so the handles that go to the pool are the
difference, although their number is nowhere counted.

**`HeapProofs`**, for any number of threads, objects, cells and pages and any
sizes: `TypesOfTheHeap`, `PagesAreKept`, `RoomIsExact` and `PagesAreFilled`. The
invariant joins `ListInv` and the types of the data. `Parted`: the two lists
repeat no page, and with the free list they divide up the pages that were mapped,
so a count follows from sets (`LengthIsSize`). `Ahead`: what the first loop of the
sweep has still to visit is the end of the list, so the page that it unlinks is
the one it looks at. `EmptyOutside`: a page that is on no list of used pages has
all its room, which is why a new page takes any block that is not big. `Roomy`:
`free_blocks` has a page under the room it has now, so the page that `copy_block`
finds takes the block; what a copy or a pinned page adds is below
`max_free_block`, so `Reset` leaves nothing behind. `PageBlock`: a block of a page
is no longer than a page. For `PagesAreFilled` a step does one of three things to
a page (`Change`): its blocks keep their sizes, one is added whose size its free
block loses, or it is emptied. `Begins`, where each block begins, is a recursive
function; what is said of it for every page (`BeginsSame`, `BeginsTyped`) is shown
by looking at the first block for which it would be false.

**`HeapReachProofs`**, for the same constants, if no object with `gc_ptr`s lies in
a big block (`NoBigPointers`): `AssertionsHold`, `DeadIsUnreachable`, `PointersHold`
and `PinnedBlocksStay`. The hypothesis is the complement of the finding
`heap_big_block`: the sweep does not fix the `gc_ptr`s in big blocks, and with one
of them `NoneDangles` is false, as the run of that name shows. It allows big
objects without `gc_ptr`s, and the constants of `heap_sweep` satisfy it. The first
three hold until a mark phase misses an object (`missed`), the complement of the
finding `mark_race`; the mark phases before that may have found any garbage and any
set that is closed, which is all that `MarkingComplete` and `MarkingSound` give.
`PinnedBlocksStay` holds in any case. The invariant
`RInv` rests on that of `HeapProofs`. It is about the blocks that are *live* at this
place of the collection: those not dead, on pages that are not to be copied from
(`Settled`), and those marked, on the others.

1. `Placed`: blocks are on the pages of the two lists, and have the `gc_ptr`s of
   their objects.
2. `Flags`: marks and pins are there from the mark phase until the page is
   classified or given up; pinned is what a plain pointer leads to, and its page
   leaves the list of those to copy from. Hence the assertions of `sweep`.
3. `LiveClosed`: the variables lead to live blocks, and, unless an object has been
   missed, the `gc_ptr`s of live blocks do. It is what a dead or reused block would
   break, and it is not inductive without the next ones. Hence what is reachable is
   live, also although not all that is live is reachable, and what is dead is not.
4. `Forwards`: a forward pointer leads from a marked block to its copy, which has
   the same `gc_ptr`s until they are fixed; when the copying has ended every marked
   block has one.
5. `FixedAway`: when they have been fixed, no `gc_ptr` leads to a page that is about
   to be freed, so `release` leaves nothing dangling.

**`HeapRefinesProofs`** (`HeapImplementsManagedHeap`, under the same hypothesis):
every step of the program is the step of `ManagedHeap` with the same objects, and
every step of the collector and every request is its `Collect` or a stutter, until
a mark phase misses an object, which is its `Break`.
The refinement mapping reads a pointer as the object that its block was made for.
The invariant `NInv` makes this a function: an object has one block, or a block
and its copy (`Names`), which have the same contents read through the mapping
(`Same`), and a request is for an object that does not exist yet (`Asked`).

**`GcNewProofs`**, for any places, types, array lengths, composite pointers and
depth of nesting: `OffsetsAreExact` and `FlagsAreTruthful`; and for programs that
do not use the move constructor (`~Moves`) `TypesOfGcPtrs`, `RootsAreExact`,
`NoRootIsLost` and `RefCountsAreExact`. Two invariants:

1. `CallsInv`. The flags that are right for a constructor (`Right`) are those it
   has now, or, if it waits for a call of `gc_new`, those saved by that call
   (`Saved`). A call for a type that is already known passes the offsets of its
   caller through unchanged (`Passed`). So what is restored at the end of a call
   is exactly what it found (`RestoredIsOld`), and at the end of a call for an
   unknown type the offsets are those of the whole object (`OffsetsComplete`).
2. `PtrInv`. `Times(top, v)`, how often a place is in the StackMap, equals the
   number of entries that `setNULL` has left behind there plus one for a registered
   `gc_ptr` (`Rooted`): so `RootsAreExact` is about places where `setNULL` was never
   called, and the others have the entries of the finding `cleared_root`; the lemmas
   `PushCount`, `PopCount` and `DeleteCount` count through the overwriting and
   popping of `delete_stack_root`. `Counted` counts the holders of each composite
   pointer. `Flagged`: a `gc_ptr` constructed outside `gc_new` has its stack bit
   or has lost it to `setNULL`. The two meet in one fact: outside `gc_new`,
   `new_active` is false, so a `gc_ptr` there is registered. For a `gc_ptr` that
   `setNULL` has cleared and that has been assigned since, `NoRootIsLost` rests on
   the entry that nobody removes.

With moves `PtrInv` is false: a moved `gc_ptr` is not registered.

**`FakeRootsProofs`**, for any addresses and any trees: `TreeIsExact`,
`TreeIsBalanced`, and `HeightStep` (a call changes the height by at most one). The
induction over trees that this needs is not in the library in a form that the
installed provers can use (its theorems take an operator), so it is stated with
sets: a set of numbers that has 0 and successors has all numbers (`Induction`, by
the least number that is missing), a set that has `Null` and every node whose
children it has, has all trees (`TreeInduction`). The same way a function given by
recursion over a tree exists (`Recursion`); from it follow the equations of
`insert`, `findmin`, `removemin`, `remove`, `Times` and `Nodes` (`InsertDef` and so
on). The invariant (`TreeInvariant`) says that every node is ordered and balanced
(`Good`), and that the tree has what is registered. The argument is bottom-up:

1. `NodeGood`: a node made of good trees that fit together is good.
2. `BalanceGood`: `balance` makes a good tree of two good trees whose heights differ
   by two at most; it is as high as the higher of them or one higher, and the latter
   if the heights differ by one at most (`BalanceRight`, `BalanceLeft`: the single
   and the double rotation). Equal addresses may be on both sides of a node, so the
   bounds (`Below`, `Above`) are not strict.
3. `InsertGood`, `RemoveminGood`, `JoinedGood`, `RemoveGood`, by induction over the
   tree: the height grows or shrinks by at most one, so the difference seen by
   `balance` one level up is at most two. This is why one call of it is enough.

`NullAssumption` says that `Null`, which stands for `NULL`, is not a node.

`ConstantsAssumption` of `Heap` says of `Null`, which stands for `nullptr`, that it
is neither an object nor the place of a block.

Only model-checked: liveness (`CollectionEnds`, `WaiterWoken`, `MarkingEnds`),
which needs fairness and `ENABLED` and is out of the prover's reach, and the same
for `RetrySucceeds`. The refinement of
`CollectionBarrier` beyond two threads does not hold.

## 5. Not modelled

* `thread_cancel`, ending the first thread by `thread_exit` or
  `remove_thread`, and the pool of handlers (a free list under its own mutex).
* Constructors that throw: `nesting_level` and the flags stay as they are, and
  the library has no handler for it. `gc_new` of no elements: `T[count - 1]` has
  no meaning.
* Composite pointers in a heap with collections, plain pointers to the inside of
  an object, words in callee-saved registers when a thread parks.
* What a program does after a collection has missed an object in use: `Heap` stops
  there. Threads that start, end or leave their safepoint during the walk
  (`stop_the_world_three`) are in `Safepoint`, not in `Marking`.
* Failing `mmap`, the limit of 100 mapped parts, big blocks beyond the bound.
* Two threads that register fake roots at once: the code has no lock, every
  interleaving is undefined.
* `taginfo` (not built), `gc_ref.h` (not included), the debug output, the tests.

## 6. Plan

Done: `CollectionBarrier`, `Safepoint`, `Marking`, `ManagedHeap`, `Heap`,
`DerefRoots`, `GcPtr`, `GcNew` and `FakeRoots`, all with proofs.

Left: `thread_cancel`, ending of the first thread and the handler pool.
