------------------------- MODULE HeapRefinesProofs -------------------------
(***************************************************************************)
(* Heap implements ManagedHeap: what the program sees of a heap with       *)
(* collections is, until one of them misses an object, a run of a heap     *)
(* that has none.                                                          *)
(***************************************************************************)
EXTENDS HeapReachProofs

\* The blocks that will outlive the step: those in use, but for the old pages
\* when they have been copied and fixed.
Lasts(q) == q \in Positions /\ Live(q) /\ (pc = "release" => q[1] \notin Old)

\* An object has one block, or a block and its copy, which the program cannot
\* tell apart; and what gcmalloc is asked for does not exist yet.
Names == \A q, r \in Positions :
    At(q).obj = At(r).obj => q = r \/ At(q).forward = r \/ At(r).forward = q

Same == ~missed => \A q \in Positions : At(q).forward # Null =>
    /\ At(At(q).forward).obj = At(q).obj
    /\ Contents(At(q).forward) = Contents(q)

Asked == \A t \in Threads : want[t] # Null =>
    /\ \A q \in Positions : At(q).obj # want[t].obj
    /\ \A u \in Threads \ {t} : want[u] # Null => want[u].obj # want[t].obj

NInv == Names /\ Same /\ Asked

\* An object that has been missed is not found again.
LEMMA NoneMissed ==
    ASSUME [Next]_vars, ~missed'
    PROVE  ~missed
BY DEF Next, mark, Running, vars
-----------------------------------------------------------------------------
LEMMA VariablesStay ==
    ASSUME IInv, RInv, ~missed
    PROVE  /\ \A x \in Cells : cell[x] = Null \/ Lasts(cell[x])
           /\ \A p \in Raws : raw[p] = Null \/ Lasts(raw[p])
           /\ \A q : Lasts(q) => \A i \in DOMAIN At(q).field :
                  At(q).field[i] = Null \/ Lasts(At(q).field[i])
<1>1. Flags /\ LiveClosed /\ FixedAway
  BY DEF RInv
<1>2. \A x \in Cells : cell[x] = Null \/ Lasts(cell[x])
  BY <1>1 DEF LiveClosed, Valid, FixedAway, Away, Lasts
<1>3. ASSUME NEW p \in Raws, raw[p] # Null
      PROVE  Lasts(raw[p])
  <2>1. raw[p] \in Positions /\ Live(raw[p])
    BY <1>1, <1>3 DEF LiveClosed, Valid
  <2>2. pc = "release" => raw[p][1] \notin Old
    BY <1>1, <2>1 DEF Flags, Settled
  <2> QED BY <2>1, <2>2 DEF Lasts
<1>4. ASSUME NEW q, Lasts(q), NEW i \in DOMAIN At(q).field, At(q).field[i] # Null
      PROVE  Lasts(At(q).field[i])
  <2>1. At(q).field[i] \in Positions /\ Live(At(q).field[i])
    BY <1>1, <1>4 DEF LiveClosed, Valid, Lasts
  <2>2. pc = "release" => q[1] \notin Old /\ ~At(q).dead
    BY <1>4 DEF Lasts, Live, Settled
  <2>3. pc = "release" => At(q).field[i][1] \notin Old
    BY <1>1, <1>4, <2>2 DEF FixedAway, Away, Lasts
  <2> QED BY <2>1, <2>3 DEF Lasts
<1> QED BY <1>2, <1>3, <1>4

\* What the program sees behind a pointer to such a block stays the same.
LEMMA SeenKept ==
    ASSUME IInv, RInv, IInv', [Next]_vars
    PROVE  \A v : v = Null \/ Lasts(v) => ObjectAt(v)' = ObjectAt(v)
<1>1. ASSUME NEW v, Lasts(v)
      PROVE  ObjectAt(v)' = ObjectAt(v)
  <2>1. v \in Positions' /\ At(v)'.obj = At(v).obj
    BY <1>1, ObjectsKept DEF Lasts
  <2>2. v # Null /\ Allocated(v) /\ Allocated(v)'
    BY <1>1, <2>1, PlaceTyped, PlaceTypedNext DEF Lasts, IInv
  <2> QED BY <2>1, <2>2 DEF ObjectAt
<1>2. ObjectAt(Null)' = ObjectAt(Null)
  BY DEF ObjectAt
<1> QED BY <1>1, <1>2

\* And what a gc_ptr shows does not depend on whether it has been fixed.
LEMMA FixSeen ==
    ASSUME IInv, RInv, Same, ~missed, pc \in {"copy", "fix", "release"},
           \A q \in Positions : q[1] \in Old /\ At(q).marked => At(q).forward # Null
    PROVE  \A v : Valid(v) => ObjectAt(fix_ptr(v)) = ObjectAt(v)
<1>1. ASSUME NEW v, Valid(v)
      PROVE  ObjectAt(fix_ptr(v)) = ObjectAt(v)
  <2>1. CASE v # Null /\ Allocated(v) /\ At(v).marked
    <3>1. v \in Positions /\ fix_ptr(v) = At(v).forward
      BY <1>1, <2>1 DEF Valid, fix_ptr
    <3>2. v[1] \in Old
      BY <2>1, <3>1 DEF RInv, Flags, Settled
    <3>3. At(v).forward # Null /\ At(v).forward \in Positions
      BY <2>1, <3>1, <3>2 DEF RInv, Forwards
    <3>4. Allocated(At(v).forward) /\ At(At(v).forward).obj = At(v).obj
      BY <3>1, <3>3, PlaceTyped DEF Same, IInv
    <3> QED BY <2>1, <3>1, <3>3, <3>4 DEF ObjectAt
  <2>2. CASE ~(v # Null /\ Allocated(v) /\ At(v).marked)
    BY <2>2 DEF fix_ptr
  <2> QED BY <2>1, <2>2
<1> QED BY <1>1

LEMMA AllForwarded ==
    ASSUME IInv, RInv, pc \in {"copy", "fix", "release"}, pc = "copy" => WaitingPages = {}
    PROVE  \A q \in Positions : q[1] \in Old /\ At(q).marked => At(q).forward # Null
<1>1. CASE pc # "copy"
  BY <1>1 DEF RInv, Forwards
<1>2. ASSUME pc = "copy", NEW q \in Positions, q[1] \in Old, At(q).marked,
             At(q).forward = Null
      PROVE  FALSE
  <2>1. pages \in Seq(Pages) /\ 0 \notin Old
    BY ListsOfPages DEF IInv, ListInv, ListTypes
  <2>2. PICK n \in DOMAIN pages : pages[n] = q[1]
    BY <1>2, <2>1, Elements DEF Old
  <2>3. q[2] \in DOMAIN block[q[1]] /\ At(q) = block[q[1]][q[2]]
    BY <1>2, <2>1, PlaceIs DEF Place, At
  <2>4. q[2] \in Waiting(pages[n])
    BY <1>2, <2>2, <2>3 DEF Waiting
  <2> QED BY <1>2, <2>4 DEF WaitingPages
<1> QED BY <1>1, <1>2

\* The fields of an object are those of any of its blocks.
LEMMA FieldsAreContents ==
    ASSUME BlocksTyped, Names, Same, ~missed
    PROVE  /\ \A q \in Positions : FieldsOf(At(q).obj) = Contents(q)
           /\ \A o : (\A q \in Positions : At(q).obj # o) => FieldsOf(o) = NoFields(o)
<1>1. ASSUME NEW q \in Positions
      PROVE  FieldsOf(At(q).obj) = Contents(q)
  <2> DEFINE F == {Contents(r) : r \in Copies(At(q).obj)}
  <2>1. Contents(q) \in F
    BY DEF Copies
  <2>2. ASSUME NEW r \in Positions, At(r).obj = At(q).obj
        PROVE  Contents(r) = Contents(q)
    BY <2>2, PlaceTyped DEF Names, Same
  <2>3. \A f \in F : f = Contents(q)
    BY <2>2 DEF Copies
  <2>4. FieldsOf(At(q).obj) = IF F = {} THEN NoFields(At(q).obj) ELSE CHOOSE f \in F : TRUE
    BY DEF FieldsOf
  <2> HIDE DEF F
  <2> QED BY <2>1, <2>3, <2>4
<1>2. ASSUME NEW o, \A q \in Positions : At(q).obj # o
      PROVE  FieldsOf(o) = NoFields(o)
  <2>1. {Contents(r) : r \in Copies(o)} = {}
    BY <1>2 DEF Copies
  <2> QED BY <2>1 DEF FieldsOf
<1> QED BY <1>1, <1>2

LEMMA FieldsAreContentsNext ==
    (BlocksTyped /\ Names /\ Same /\ ~missed =>
        /\ \A q \in Positions : FieldsOf(At(q).obj) = Contents(q)
        /\ \A o : (\A q \in Positions : At(q).obj # o) => FieldsOf(o) = NoFields(o))'
<1>1. BlocksTyped /\ Names /\ Same /\ ~missed =>
        /\ \A q \in Positions : FieldsOf(At(q).obj) = Contents(q)
        /\ \A o : (\A q \in Positions : At(q).obj # o) => FieldsOf(o) = NoFields(o)
  BY FieldsAreContents
<1> QED BY <1>1, PTL
-----------------------------------------------------------------------------
(* What a step does to the names of objects: it takes blocks away, copies  *)
(* one, or makes a new one.                                                *)
Shrinks ==
    /\ Positions' \subseteq Positions
    /\ \A q \in Positions' : At(q)'.obj = At(q).obj /\ At(q)'.forward = At(q).forward

SameRequests == \A t \in Threads :
    want'[t] # Null => want[t] # Null /\ want'[t].obj = want[t].obj

LEMMA ProgramShrinks ==
    ASSUME IInv, LiveClosed, Program
    PROVE  Shrinks /\ want' = want
<1>1. CASE block' = block /\ big' = big /\ want' = want
  BY <1>1, UnmovedBlocks DEF Unmoved, Shrinks
<1>2. CASE \E x, y \in Cells : \E i \in 1..MaxFields : Store(x, i, y)
  <2>1. PICK x \in Cells, y \in Cells, i \in 1..MaxFields : Store(x, i, y)
    BY <1>2
  <2>2. cell[x] \in Positions /\ i \in DOMAIN At(cell[x]).field
    BY <2>1 DEF Store, LiveClosed, Valid
  <2>3. PICK r : r = cell[x]
    OBVIOUS
  <2>4. At(r) \in Block
    BY <2>2, <2>3, PlaceTyped DEF IInv
  <2>5. /\ Positions' = Positions
        /\ \A q \in Positions \ {r} : At(q)' = At(q)
        /\ At(r)' = [At(r) EXCEPT !.field[i] = cell[y]]
    BY <2>1, <2>2, <2>3, SetFieldBlocks DEF Store, IInv
  <2>6. At(r)'.obj = At(r).obj /\ At(r)'.forward = At(r).forward
    BY <2>4, <2>5 DEF Block
  <2>7. want' = want
    BY <2>1 DEF Store, SetField
  <2> QED BY <2>5, <2>6, <2>7 DEF Shrinks
<1> QED BY <1>1, <1>2 DEF Program, Clear, Assign, Load, Dereference, Forget,
          SetCell, SetRaw, pageVars

LEMMA SweepShrinks ==
    ASSUME IInv, RInv, mark \/ Sweep, ~copy_block
    PROVE  Shrinks /\ SameRequests
<1>1. BlocksTyped /\ alive_pages \in Seq(Pages) /\ curr \in Seq(Pages)
  BY DEF IInv, ListInv, ListTypes
<1>2. ASSUME block' = block, big' = big
      PROVE  Shrinks
  BY <1>2, UnmovedBlocks DEF Unmoved, Shrinks
<1>3. CASE mark
  BY <1>1, <1>3, markBlocks DEF Shrinks, SameRequests, mark
<1>4. CASE sweep_big_blocks
  <2>1. Shrinks
    BY <1>1, <1>4, sweep_big_blocksBlocks DEF Shrinks
  <2> QED BY <1>4, <2>1 DEF sweep_big_blocks, SameRequests
<1>5. CASE classify_page
  <2>1. ASSUME HasPinned(Head(curr))
        PROVE  Shrinks
    BY <1>1, <1>5, <2>1, classify_pageBlocks DEF Shrinks
  <2>2. ASSUME ~HasPinned(Head(curr))
        PROVE  Shrinks
    BY <1>2, <1>5, <2>2 DEF classify_page
  <2>3. want' = want
    BY <1>5 DEF classify_page
  <2> QED BY <2>1, <2>2, <2>3 DEF SameRequests
<1>6. CASE fix_pages
  <2>1. Shrinks
    BY <1>1, <1>6, fix_pagesFields DEF Shrinks
  <2> QED BY <1>6, <2>1 DEF fix_pages, SameRequests
<1>7. CASE release
  <2>1. ToSet(pages) \subseteq Pages
    BY ListsOfPages DEF Old
  <2>2. Shrinks
    BY <1>1, <1>7, <2>1, releaseBlocks DEF Shrinks
  <2>3. ASSUME NEW t \in Threads, want'[t] # Null
        PROVE  want[t] # Null /\ want'[t].obj = want[t].obj
    <3>1. want'[t] = IF Asks(t, "gc") THEN [want[t] EXCEPT !.stage = "retry"] ELSE want[t]
      BY <1>7 DEF release
    <3>2. want[t] \in Request \cup {Null}
      BY DEF IInv, ProgramTyped
    <3> QED BY <2>3, <3>1, <3>2 DEF Asks, Request
  <2> QED BY <2>2, <2>3 DEF SameRequests
<1>8. CASE classify_done \/ first_alive_page \/ fix_roots
  BY <1>2, <1>8 DEF classify_done, first_alive_page, fix_roots, pageVars, SameRequests
<1> QED BY <1>3, <1>4, <1>5, <1>6, <1>7, <1>8 DEF Sweep

\* A new object x points to; no other has its name, then or later.
Makes(x, o, s, e) ==
    /\ Running /\ pc' = pc
    /\ Allocate(x, o, s, e)
    /\ \A q \in Positions : At(q).obj # o
    /\ \A t \in Threads : want'[t] # Null => want'[t] = want[t] /\ want[t].obj # o

\* A new request or an answered one.
Waits ==
    /\ Running /\ pc' = pc
    /\ UNCHANGED <<cell, raw, block, big>>
    /\ Asked'

LEMMA AllocationIs ==
    ASSUME IInv, Asked, Allocation
    PROVE  \/ \E x \in Cells, o \in Objects, s \in Nat \ {0}, e \in BOOLEAN :
                  Makes(x, o, s, e)
           \/ Waits
<1>1. want \in [Threads -> Request \cup {Null}]
  BY DEF IInv, ProgramTyped
<1>2. ASSUME block' = block, big' = big
      PROVE  Positions' = Positions /\ \A q \in Positions : At(q)' = At(q)
  BY <1>2, UnmovedBlocks DEF Unmoved
<1>3. ASSUME NEW t \in Threads, NEW x \in Cells, NEW o \in Objects, NEW s \in Sizes[o],
             gcmalloc(t, x, o, s)
      PROVE  Makes(x, o, s, FALSE) \/ Waits
  <2>1. /\ Running /\ pc' = pc
        /\ \A q \in Positions : At(q).obj # o
        /\ \A u \in Threads : want[u] # Null => want[u].obj # o
    BY <1>3 DEF gcmalloc
  <2>2. CASE Allocate(x, o, s, FALSE) /\ UNCHANGED want
    BY <2>1, <2>2 DEF Makes
  <2>3. CASE /\ want' = [want EXCEPT ![t] =
                            [stage |-> "gc", cell |-> x, obj |-> o, size |-> s]]
             /\ UNCHANGED <<programVars, pageVars, listVars, poolVars, big,
                            sweepVars, roomVars>>
    <3>1. UNCHANGED <<cell, raw, block, big>>
      BY <2>3 DEF programVars, pageVars
    <3>2. Positions' = Positions /\ \A q \in Positions : At(q)' = At(q)
      BY <1>2, <3>1
    <3>3. /\ want'[t].obj = o
          /\ \A u \in Threads \ {t} : want'[u] = want[u]
      BY <1>1, <2>3
    <3>4. Asked'
      BY <2>1, <3>2, <3>3 DEF Asked
    <3> QED BY <2>1, <3>1, <3>4 DEF Waits
  <2> QED BY <1>3, <2>2, <2>3 DEF gcmalloc
<1>4. ASSUME NEW t \in Threads, gc_refused(t)
      PROVE  Waits
  <2>1. /\ Running /\ pc' = pc /\ UNCHANGED <<cell, raw, block, big>>
        /\ want[t] # Null /\ want' = [want EXCEPT ![t].stage = "retry"]
    BY <1>4 DEF gc_refused, Asks, programVars, pageVars
  <2>2. want[t] \in Request
    BY <1>1, <2>1
  <2>3. \A u \in Threads : want'[u] # Null => want[u] # Null /\ want'[u].obj = want[u].obj
    BY <1>1, <2>1, <2>2 DEF Request
  <2>4. Positions' = Positions /\ \A q \in Positions : At(q)' = At(q)
    BY <1>2, <2>1
  <2>5. Asked'
    BY <2>3, <2>4 DEF Asked
  <2> QED BY <2>1, <2>5 DEF Waits
<1>5. ASSUME NEW t \in Threads, gcmalloc_retry(t)
      PROVE  /\ want[t].cell \in Cells /\ want[t].obj \in Objects
             /\ want[t].size \in Nat \ {0}
             /\ Makes(want[t].cell, want[t].obj, want[t].size, TRUE)
  <2>1. /\ Running /\ pc' = pc /\ want[t] # Null /\ want' = [want EXCEPT ![t] = Null]
        /\ Allocate(want[t].cell, want[t].obj, want[t].size, TRUE)
    BY <1>5 DEF gcmalloc_retry, Asks, Expand
  <2>2. want[t] \in Request
    BY <1>1, <2>1
  <2>3. \A q \in Positions : At(q).obj # want[t].obj
    BY <2>1 DEF Asked
  <2>4. \A u \in Threads : want'[u] # Null => want'[u] = want[u] /\ want[u].obj # want[t].obj
    BY <1>1, <2>1 DEF Asked
  <2> QED BY <2>1, <2>2, <2>3, <2>4 DEF Makes, Request
<1>6. ASSUME NEW o \in Objects, NEW s \in Sizes[o]
      PROVE  s \in Nat \ {0}
  BY ConstantsAssumption
<1>7. TRUE \in BOOLEAN /\ FALSE \in BOOLEAN
  OBVIOUS
<1>8. CASE \E t \in Threads : \E x \in Cells, o \in Objects : \E s \in Sizes[o] :
               gcmalloc(t, x, o, s)
  BY <1>3, <1>6, <1>7, <1>8
<1>9. CASE \E t \in Threads : gc_refused(t)
  BY <1>4, <1>9
<1>10. CASE \E t \in Threads : gcmalloc_retry(t)
  BY <1>5, <1>7, <1>10
<1> QED BY <1>8, <1>9, <1>10 DEF Allocation
-----------------------------------------------------------------------------
LEMMA NamesInit ==
    ASSUME Init
    PROVE  NInv
<1>1. Positions = {}
  <2>1. DOMAIN big = {} /\ \A p \in Pages : DOMAIN block[p] = {}
    BY DEF Init
  <2> QED BY <2>1, PlaceIs DEF Place
<1>2. \A t \in Threads : want[t] = Null
  BY DEF Init
<1> QED BY <1>1, <1>2 DEF NInv, Names, Same, Asked

\* Same says nothing but while blocks have copies; and what it says of the
\* contents follows as long as the copies have not been fixed.
LEMMA SameNext ==
    ASSUME RInv',
           ~missed' /\ pc' \in {"copy", "fix", "release"} =>
               \A q \in Positions' : At(q)'.forward # Null =>
                   (At(At(q).forward).obj)' = At(q)'.obj,
           ~missed' /\ pc' \in {"fix", "release"} =>
               \A q \in Positions' : At(q)'.forward # Null =>
                   Contents(At(q).forward)' = Contents(q)'
    PROVE  Same'
<1>1. ASSUME ~missed', NEW q \in Positions', At(q)'.forward # Null
      PROVE  /\ (At(At(q).forward).obj)' = At(q)'.obj
             /\ Contents(At(q).forward)' = Contents(q)'
  <2>1. /\ pc' \in {"copy", "fix", "release"}
        /\ pc' = "copy" => At(At(q).forward)'.field = At(q)'.field
    BY <1>1 DEF RInv, Forwards
  <2>2. CASE pc' = "copy"
    <3>1. PICK w : w = At(q)'.forward
      OBVIOUS
    <3>2. At(w)'.field = At(q)'.field
      BY <2>1, <2>2, <3>1
    <3>3. Contents(w)' = Contents(q)'
      BY <3>2 DEF Contents
    <3> QED BY <1>1, <2>1, <3>1, <3>3
  <2> QED BY <1>1, <2>1, <2>2
<1> QED BY <1>1 DEF Same

LEMMA ContentsNext ==
    (\A q, f : At(q).field = f => Contents(q) = [i \in DOMAIN f |-> ObjectAt(f[i])])'
BY DEF Contents

LEMMA ShrinksNames ==
    ASSUME Names, Asked, Shrinks, SameRequests
    PROVE  Names' /\ Asked'
<1>1. Names'
  BY DEF Names, Shrinks
<1>2. Asked'
  BY DEF Asked, Shrinks, SameRequests
<1> QED BY <1>1, <1>2

LEMMA CopyNames ==
    ASSUME IInv, RInv, NInv, IInv', RInv', copy_block, missed' = missed
    PROVE  NInv'
<1>1. PICK b, to : /\ b = NextBlock /\ Copied(b, to)
                   /\ to \in Pointers /\ to # Null
                   /\ to[1] \in Pages /\ to[1] \notin Old
  BY copy_blockBlocks
<1>2. pc' = "copy" /\ want' = want /\ WaitingPages # {}
  BY DEF copy_block
<1>3. b \in Positions /\ b[1] \in Old /\ At(b).forward = Null
  BY <1>1, <1>2, NextBlockIs, ListsOfPages DEF Copied, IInv, Old
<1>4. /\ \A q : q \in Positions' <=> q \in Positions \/ q = to
      /\ to \notin Positions /\ b # to
      /\ At(to)'.obj = At(b).obj /\ At(to)'.forward = Null
      /\ At(b)'.obj = At(b).obj /\ At(b)'.forward = to
      /\ \A q \in Positions \ {b} : At(q)' = At(q)
  BY <1>1, <1>3 DEF Copied
<1>5. \A q \in Positions : At(q)'.obj = At(q).obj
  BY <1>4
<1>6. Null \notin Positions /\ Names /\ Same /\ Asked
  BY PlaceTyped DEF NInv, IInv
<1>7. ASSUME NEW r \in Positions, At(r).obj = At(b).obj
      PROVE  r = b
  <2>1. CASE At(r).forward = b
    <3>1. At(r).forward # Null
      BY <1>3, <1>6, <2>1
    <3>2. b[1] \in Alive
      BY <2>1, <3>1 DEF RInv, Forwards
    <3> QED BY <1>3, <3>2, ListsOfPages
  <2>2. At(b).forward # r
    BY <1>3, <1>6
  <2> QED BY <1>3, <1>6, <1>7, <2>1, <2>2 DEF Names
<1>8. Names'
  <2>1. ASSUME NEW q \in Positions', NEW r \in Positions', At(q)'.obj = At(r)'.obj
        PROVE  q = r \/ At(q)'.forward = r \/ At(r)'.forward = q
    <3>1. CASE q \in Positions /\ r \in Positions
      <4>1. q = r \/ At(q).forward = r \/ At(r).forward = q
        BY <1>5, <1>6, <2>1, <3>1 DEF Names
      <4> QED BY <1>3, <1>4, <1>6, <3>1, <4>1
    <3>2. CASE q = to
      BY <1>4, <1>5, <1>7, <2>1, <3>2
    <3>3. CASE r = to
      BY <1>4, <1>5, <1>7, <2>1, <3>3
    <3> QED BY <1>4, <3>1, <3>2, <3>3
  <2> QED BY <2>1 DEF Names
<1>9. Same'
  <2>1. ASSUME ~missed', NEW q \in Positions', At(q)'.forward # Null
        PROVE  (At(At(q).forward).obj)' = At(q)'.obj
    <3>1. PICK w : w = At(q)'.forward
      OBVIOUS
    <3>2. CASE q = b
      BY <1>4, <3>1, <3>2
    <3>3. CASE q # b
      <4>1. q \in Positions /\ At(q)' = At(q)
        BY <1>4, <2>1, <3>3
      <4>2. w \in Positions /\ At(w).obj = At(q).obj
        BY <1>6, <2>1, <3>1, <4>1 DEF Same, RInv, Forwards
      <4>3. At(w)'.obj = At(q)'.obj
        BY <1>5, <4>1, <4>2
      <4> QED BY <3>1, <4>3
    <3> QED BY <3>2, <3>3
  <2> QED BY <1>2, <2>1, SameNext
<1>10. Asked'
  <2>1. \A q \in Positions' : \E r \in Positions : At(q)'.obj = At(r).obj
    BY <1>3, <1>4, <1>5
  <2> QED BY <1>2, <1>6, <2>1 DEF Asked
<1> QED BY <1>8, <1>9, <1>10 DEF NInv

LEMMA AllocationNames ==
    ASSUME IInv, RInv, NInv, IInv', RInv', Allocation
    PROVE  NInv'
<1>1. Names /\ Same /\ Asked
  BY DEF NInv
<1>2. CASE Waits
  <2>1. Positions' = Positions /\ \A q \in Positions : At(q)' = At(q)
    BY <1>2, UnmovedBlocks DEF Unmoved, Waits
  <2>2. Names'
    BY <1>1, <2>1 DEF Names
  <2>3. Same'
    BY <1>2, SameNext DEF Waits, Running
  <2> QED BY <1>2, <2>2, <2>3 DEF NInv, Waits
<1>3. ASSUME NEW x \in Cells, NEW o \in Objects, NEW s \in Nat \ {0}, NEW e \in BOOLEAN,
             Makes(x, o, s, e)
      PROVE  NInv'
  <2>1. PICK to :
          /\ \A q : q \in Positions' <=> q \in Positions \/ q = to
          /\ to \notin Positions
          /\ At(to)' = NewBlock(o, s)
          /\ \A q \in Positions : At(q)' = At(q)
    BY <1>3, AllocateBlocks DEF Makes, Running
  <2>2. At(to)'.obj = o
    BY <2>1 DEF NewBlock
  <2>3. /\ pc' = "run" /\ \A q \in Positions : At(q).obj # o
        /\ \A t \in Threads : want'[t] # Null => want'[t] = want[t] /\ want[t].obj # o
    BY <1>3 DEF Makes, Running
  <2>4. Names'
    BY <1>1, <2>1, <2>2, <2>3 DEF Names
  <2>5. Same'
    BY <2>3, SameNext
  <2>6. Asked'
    BY <1>1, <2>1, <2>2, <2>3 DEF Asked
  <2> QED BY <2>4, <2>5, <2>6 DEF NInv
<1> QED BY <1>1, <1>2, <1>3, AllocationIs

LEMMA CollectionNames ==
    ASSUME IInv, RInv, NInv, IInv', RInv', mark \/ (Sweep /\ missed' = missed)
    PROVE  NInv'
<1>1. Names /\ Same /\ Asked /\ (~missed' => ~missed) /\ (copy_block => missed' = missed)
  <2>1. CASE mark
    BY <2>1 DEF NInv, mark, Running, copy_block
  <2>2. CASE Sweep /\ missed' = missed
    BY <2>2 DEF NInv
  <2> QED BY <2>1, <2>2
<1>2. CASE copy_block
  BY <1>1, <1>2, CopyNames
<1>3. CASE ~copy_block
  <2>1. Shrinks /\ SameRequests /\ Names' /\ Asked'
    BY <1>1, <1>3, SweepShrinks, ShrinksNames
  <2>2. ASSUME ~missed', NEW q \in Positions', At(q)'.forward # Null,
               pc' \in {"copy", "fix", "release"}
        PROVE  (At(At(q).forward).obj)' = At(q)'.obj
    <3>1. q \in Positions /\ At(q)'.forward = At(q).forward /\ At(q)'.obj = At(q).obj
      BY <2>1, <2>2 DEF Shrinks
    <3>2. PICK w : w = At(q).forward
      OBVIOUS
    <3>3. At(w).obj = At(q).obj
      BY <1>1, <2>2, <3>1, <3>2 DEF Same
    <3>4. w \in Positions'
      BY <2>2, <3>1, <3>2 DEF RInv, Forwards
    <3>5. At(w)'.obj = At(w).obj
      BY <2>1, <3>4 DEF Shrinks
    <3> QED BY <3>1, <3>2, <3>3, <3>5
  <2>3. CASE pc' \notin {"fix", "release"}
    BY <2>1, <2>2, <2>3, SameNext DEF NInv
  <2>4. CASE fix_pages
    <3>1. /\ pc = "copy" /\ WaitingPages = {} /\ pc' = "fix"
          /\ alive_pages \in Seq(Pages) /\ Old \cap Alive = {}
          /\ BlocksTyped /\ pages' = pages /\ alive_pages' = alive_pages
      BY <2>4, ListsOfPages DEF fix_pages, IInv, ListInv, ListTypes, listVars, sweepVars
    <3>2. ~missed => \A v : Valid(v) => ObjectAt(fix_ptr(v)) = ObjectAt(v)
      BY <1>1, <3>1, AllForwarded, FixSeen
    <3>3. /\ Positions' = Positions
          /\ \A q \in Positions :
                 /\ At(q)'.obj = At(q).obj /\ At(q)'.forward = At(q).forward
                 /\ At(q)'.marked = At(q).marked /\ At(q)'.dead = At(q).dead
                 /\ At(q)'.field = IF q[1] \in Alive /\ ~At(q).dead
                                   THEN FieldsFixed(q) ELSE At(q).field
      BY <2>4, <3>1, fix_pagesFields
    <3>4. ASSUME ~missed', NEW q \in Positions', At(q)'.forward # Null
          PROVE  Contents(At(q).forward)' = Contents(q)'
      <4>1. PICK w : w = At(q).forward
        OBVIOUS
      <4>2. PICK f : f = At(q).field
        OBVIOUS
      <4>3. /\ q \in Positions /\ w # Null /\ w = At(q)'.forward
            /\ q[1] \in Old /\ At(q).marked
            /\ w \in Positions /\ w[1] \in Alive /\ ~At(w).dead /\ At(w).field = f
        BY <3>1, <3>3, <3>4, <4>1, <4>2 DEF RInv, Forwards
      <4>4. At(q)'.field = f /\ At(w)'.field = FieldsFixed(w)
        BY <3>1, <3>3, <4>2, <4>3
      <4>5. PICK g : g = FieldsFixed(w)
        OBVIOUS
      <4>6. DOMAIN g = DOMAIN f /\ \A i \in DOMAIN f : g[i] = fix_ptr(f[i])
        BY <4>3, <4>5 DEF FieldsFixed
      <4>7. Live(q)
        BY <3>1, <4>3 DEF Live, Settled
      <4>8. ASSUME NEW i \in DOMAIN f
            PROVE  ObjectAt(g[i])' = ObjectAt(f[i])'
        <5>1. Valid(f[i])
          BY <1>1, <3>4, <4>2, <4>3, <4>7 DEF RInv, LiveClosed
        <5>2. Valid(g[i]) /\ ObjectAt(g[i]) = ObjectAt(f[i])
          BY <1>1, <3>1, <3>2, <3>4, <4>6, <5>1, AllForwarded, FixedIsValid
        <5>3. ASSUME NEW v, Valid(v)
              PROVE  ObjectAt(v)' = ObjectAt(v)
          <6>1. CASE v = Null
            BY <6>1 DEF ObjectAt
          <6>2. CASE v # Null
            <7>1. v \in Positions /\ v \in Positions' /\ At(v)'.obj = At(v).obj
              BY <3>3, <5>3, <6>2 DEF Valid
            <7>2. Allocated(v) /\ Allocated(v)'
              BY <7>1, PlaceTyped, PlaceTypedNext DEF IInv
            <7> QED BY <6>2, <7>1, <7>2 DEF ObjectAt
          <6> QED BY <6>1, <6>2
        <5>4. ObjectAt(g[i])' = ObjectAt(g[i])
          BY <5>2, <5>3
        <5>5. ObjectAt(f[i])' = ObjectAt(f[i])
          BY <5>1, <5>3
        <5> QED BY <5>2, <5>4, <5>5
      <4>9. Contents(w)' = [i \in DOMAIN f |-> ObjectAt(g[i])']
        BY <4>4, <4>5, <4>6, ContentsNext
      <4>10. Contents(q)' = [i \in DOMAIN f |-> ObjectAt(f[i])']
        BY <4>4, ContentsNext
      <4>11. Contents(w)' = Contents(q)'
        BY <4>8, <4>9, <4>10
      <4> QED BY <4>3, <4>11
    <3> QED BY <2>1, <2>2, <3>4, SameNext DEF NInv
  <2>5. CASE fix_roots
    <3>1. \A q : At(q)' = At(q) /\ (Allocated(q)' <=> Allocated(q))
      BY <2>5 DEF fix_roots, pageVars, At, Allocated
    <3>2. \A v : ObjectAt(v)' = ObjectAt(v)
      BY <3>1 DEF ObjectAt
    <3>3. \A q : Contents(q)' = Contents(q)
      BY <3>1, <3>2 DEF Contents
    <3>4. \A q \in Positions' : q \in Positions
      BY <2>1 DEF Shrinks
    <3>5. Same'
      BY <1>1, <3>1, <3>3, <3>4 DEF Same
    <3> QED BY <2>1, <3>5 DEF NInv
  <2>6. fix_pages \/ fix_roots \/ pc' \notin {"fix", "release"}
    BY <1>3 DEF mark, Sweep, sweep_big_blocks, classify_page, classify_done,
       first_alive_page, release
  <2> QED BY <2>3, <2>4, <2>5, <2>6
<1> QED BY <1>2, <1>3

LEMMA NamesNext ==
    ASSUME IInv, RInv, NInv, IInv', RInv', [Next]_vars
    PROVE  NInv'
<1>1. CASE Program
  <2>1. Shrinks /\ SameRequests
    BY <1>1, ProgramShrinks DEF RInv, SameRequests
  <2>2. pc' = "run"
    BY <1>1 DEF Running, Program, Clear, Assign, Load, Store, Dereference, Forget, SetCell, SetRaw,
       SetField
  <2> QED BY <2>1, <2>2, ShrinksNames, SameNext DEF NInv
<1>2. CASE Allocation
  BY <1>2, AllocationNames
<1>3. CASE mark \/ (Sweep /\ missed' = missed)
  BY <1>3, CollectionNames
<1>4. CASE UNCHANGED vars
  <2>1. block' = block /\ big' = big /\ want' = want /\ missed' = missed
    BY <1>4 DEF vars, pageVars
  <2>2. /\ Positions' = Positions
        /\ \A q : At(q)' = At(q) /\ (Allocated(q)' <=> Allocated(q))
    BY <2>1, UnmovedBlocks DEF Unmoved, At
  <2>3. \A v : ObjectAt(v)' = ObjectAt(v)
    BY <2>2 DEF ObjectAt
  <2>4. \A q : Contents(q)' = Contents(q)
    BY <2>2, <2>3 DEF Contents
  <2> QED BY <2>1, <2>2, <2>4 DEF NInv, Names, Same, Asked
<1>5. \/ Program \/ Allocation
      \/ mark
      \/ Sweep /\ missed' = missed
      \/ UNCHANGED vars
  <2>1. CASE Next
    BY <2>1 DEF Next
  <2>2. CASE UNCHANGED vars
    BY <2>2
  <2> QED BY <2>1, <2>2
<1> QED BY <1>1, <1>2, <1>3, <1>4, <1>5

LEMMA NamesAlways == NoBigPointers => (Spec => [](IInv /\ RInv /\ NInv))
<1> SUFFICES ASSUME NoBigPointers
             PROVE  Spec => [](IInv /\ RInv /\ NInv)
  OBVIOUS
<1>1. Init => IInv /\ RInv /\ NInv
  BY InvInit, ReachInit, NamesInit
<1>2. IInv /\ RInv /\ NInv /\ [Next]_vars => (IInv /\ RInv /\ NInv)'
  BY InvNext, ReachNext, NamesNext
<1> QED BY <1>1, <1>2, PTL DEF Spec
-----------------------------------------------------------------------------
(* The refinement mapping.                                                 *)
aCell  == [x \in Cells |-> ObjectAt(cell[x])]
aRaw   == [p \in Raws |-> ObjectAt(raw[p])]
aField == [o \in Objects |-> FieldsOf(o)]

LEMMA HoldsBounds ==
    ASSUME NEW c, NEW r, NEW f, NEW S \in SUBSET Objects,
           (Range(c) \cup Range(r)) \cap Objects \subseteq S,
           \A o \in S : Range(f[o]) \cap Objects \subseteq S
    PROVE  Promised!Reachable(c, r, f) \subseteq S
BY DEF Promised!Reachable, Promised!Holds, Promised!Range, Range

\* The objects with a block that lasts.
InUse == {At(q).obj : q \in {p \in Positions : Lasts(p)}}

LEMMA SeenInUse ==
    ASSUME IInv, RInv, NInv, ~missed
    PROVE  /\ InUse \subseteq Objects
           /\ \A v : v = Null \/ Lasts(v) => ObjectAt(v) \in InUse \cup {Null}
           /\ (Range(aCell) \cup Range(aRaw)) \subseteq InUse \cup {Null}
           /\ \A o \in InUse : Range(aField[o]) \subseteq InUse \cup {Null}
<1>1. InUse \subseteq Objects
  <2>1. \A q \in Positions : At(q).obj \in Objects
    BY PlaceTyped DEF IInv, Block
  <2> QED BY <2>1 DEF InUse
<1>2. ASSUME NEW v, v = Null \/ Lasts(v)
      PROVE  ObjectAt(v) \in InUse \cup {Null}
  <2>1. Lasts(v) => v # Null /\ Allocated(v) /\ At(v).obj \in InUse
    BY PlaceTyped DEF IInv, Lasts, InUse
  <2> QED BY <1>2, <2>1 DEF ObjectAt
<1>3. Range(aCell) \subseteq InUse \cup {Null} /\ Range(aRaw) \subseteq InUse \cup {Null}
  BY <1>2, VariablesStay DEF Range, aCell, aRaw
<1>4. ASSUME NEW o \in InUse
      PROVE  Range(aField[o]) \subseteq InUse \cup {Null}
  <2>1. PICK q \in Positions : Lasts(q) /\ At(q).obj = o
    BY DEF InUse
  <2>2. aField[o] = Contents(q)
    BY <1>1, <2>1, FieldsAreContents DEF aField, NInv, IInv
  <2>3. \A i \in DOMAIN At(q).field : ObjectAt(At(q).field[i]) \in InUse \cup {Null}
    BY <1>2, <2>1, VariablesStay
  <2> QED BY <2>2, <2>3 DEF Contents, Range
<1> QED BY <1>1, <1>2, <1>3, <1>4

LEMMA ReachableInUse ==
    ASSUME IInv, RInv, NInv, ~missed
    PROVE  Promised!Reachable(aCell, aRaw, aField) \subseteq InUse
<1>1. Null \notin Objects
  BY ConstantsAssumption
<1>2. /\ InUse \in SUBSET Objects
      /\ (Range(aCell) \cup Range(aRaw)) \cap Objects \subseteq InUse
      /\ \A o \in InUse : Range(aField[o]) \cap Objects \subseteq InUse
  BY <1>1, SeenInUse
<1> QED BY <1>2, HoldsBounds

LEMMA BecomeIs ==
    ASSUME NEW c, NEW r, NEW f, aCell' = c, aRaw' = r,
           \A o \in Promised!Reachable(c, r, f) : o \in Objects => aField'[o] = f[o]
    PROVE  Promised!Become(c, r, f)
<1>1. \A o \in Promised!Reachable(c, r, f) : o \in Objects
  BY DEF Promised!Reachable
<1> QED BY <1>1 DEF Promised!Become, aCell, aRaw, aField
-----------------------------------------------------------------------------
(* A step of the collector changes nothing that the program can see.       *)
LEMMA GcPtrsKept ==
    ASSUME IInv, RInv, mark \/ Sweep, ~fix_pages
    PROVE  \A q : Lasts(q) => At(q)'.field = At(q).field
<1>1. BlocksTyped /\ curr \in Seq(Pages) /\ ToSet(pages) \subseteq Pages
  BY ListsOfPages DEF IInv, ListInv, ListTypes, Old
<1>2. ASSUME block' = block, big' = big
      PROVE  \A q : Lasts(q) => At(q)'.field = At(q).field
  BY <1>2 DEF At
<1>3. CASE mark
  BY <1>1, <1>3, markBlocks DEF Lasts
<1>4. CASE sweep_big_blocks
  <2>1. \A q : Live(q) <=> At(q).marked
    BY <1>4 DEF sweep_big_blocks, Settled, Live
  <2> QED BY <1>1, <1>4, <2>1, sweep_big_blocksBlocks DEF Lasts
<1>5. CASE classify_page
  <2>1. CASE HasPinned(Head(curr))
    BY <1>1, <1>5, <2>1, classify_pageBlocks DEF Lasts
  <2>2. CASE ~HasPinned(Head(curr))
    BY <1>2, <1>5, <2>2 DEF classify_page
  <2> QED BY <2>1, <2>2
<1>6. CASE copy_block
  BY <1>6, copy_blockBlocks DEF Copied, Lasts
<1>7. CASE release
  <2>1. pc = "release"
    BY <1>7 DEF release
  <2> QED BY <1>1, <1>7, <2>1, releaseBlocks DEF Lasts, Old
<1>8. CASE classify_done \/ first_alive_page \/ fix_roots
  BY <1>2, <1>8 DEF classify_done, first_alive_page, fix_roots, pageVars
<1> QED BY <1>3, <1>4, <1>5, <1>6, <1>7, <1>8 DEF Sweep

LEMMA ContentsKept ==
    ASSUME IInv, RInv, NInv, IInv', mark \/ Sweep, [Next]_vars, ~missed
    PROVE  \A q : Lasts(q) => Contents(q)' = Contents(q)
<1>2. ASSUME NEW q, Lasts(q)
      PROVE  Contents(q)' = Contents(q)
  <2>1. PICK f : f = At(q).field
    OBVIOUS
  <2>2. PICK g : g = At(q)'.field
    OBVIOUS
  <2>3. Contents(q) = [i \in DOMAIN f |-> ObjectAt(f[i])]
    BY <2>1 DEF Contents
  <2>4. Contents(q)' = [i \in DOMAIN g |-> ObjectAt(g[i])']
    BY <2>2, ContentsNext
  <2>5. \A i \in DOMAIN f : f[i] = Null \/ Lasts(f[i])
    BY <1>2, <2>1, VariablesStay
  <2>6. \A i \in DOMAIN f : ObjectAt(f[i])' = ObjectAt(f[i])
    BY <2>5, SeenKept
  <2>7. CASE ~fix_pages
    <3>1. g = f
      BY <1>2, <2>1, <2>2, <2>7, GcPtrsKept
    <3> QED BY <2>3, <2>4, <2>6, <3>1
  <2>8. CASE fix_pages
    <3>1. /\ pc = "copy" /\ WaitingPages = {} /\ BlocksTyped /\ alive_pages \in Seq(Pages)
          /\ q \in Positions
      BY <1>2, <2>8 DEF fix_pages, IInv, ListInv, ListTypes, Lasts
    <3>2. g = IF q[1] \in Alive /\ ~At(q).dead THEN FieldsFixed(q) ELSE f
      BY <2>1, <2>2, <2>8, <3>1, fix_pagesFields
    <3>3. CASE g = f
      BY <2>3, <2>4, <2>6, <3>3
    <3>4. CASE g = FieldsFixed(q)
      <4>1. DOMAIN g = DOMAIN f /\ \A i \in DOMAIN f : g[i] = fix_ptr(f[i])
        BY <2>1, <3>4 DEF FieldsFixed
      <4>2. ASSUME NEW i \in DOMAIN f
            PROVE  ObjectAt(g[i])' = ObjectAt(f[i])
        <5>1. Valid(f[i])
          BY <2>5 DEF Lasts, Valid
        <5>2. Valid(g[i]) /\ ObjectAt(g[i]) = ObjectAt(f[i])
          BY <3>1, <4>1, <5>1, AllForwarded, FixedIsValid, FixSeen DEF NInv
        <5>3. g[i] = Null \/ Lasts(g[i])
          BY <3>1, <5>2 DEF Valid, Lasts
        <5>4. ObjectAt(g[i])' = ObjectAt(g[i])
          BY <5>3, SeenKept
        <5> QED BY <5>2, <5>4
      <4> QED BY <2>3, <2>4, <4>1, <4>2
    <3> QED BY <3>2, <3>3, <3>4
  <2> QED BY <2>7, <2>8
<1> QED BY <1>2

LEMMA CollectorStep ==
    ASSUME IInv, RInv, NInv, IInv', RInv', NInv', mark \/ Sweep, [Next]_vars, ~missed'
    PROVE  Promised!Collect
<1>1. ~missed
  BY NoneMissed
<1>2. aRaw' = aRaw
  <2>1. raw' = raw
    BY DEF mark, Sweep, sweep_big_blocks, classify_page, classify_done, first_alive_page,
       copy_block, fix_pages, fix_roots, release, programVars
  <2>2. ASSUME NEW p \in Raws
        PROVE  ObjectAt(raw[p])' = ObjectAt(raw[p])
    <3>1. PICK v : v = raw[p]
      OBVIOUS
    <3>2. ObjectAt(v)' = ObjectAt(v)
      BY <1>1, <3>1, VariablesStay, SeenKept
    <3> QED BY <2>1, <3>1, <3>2
  <2> QED BY <2>2 DEF aRaw
<1>3. aCell' = aCell
  <2>1. ASSUME NEW x \in Cells
        PROVE  ObjectAt(cell[x])' = ObjectAt(cell[x])
    <3>1. PICK v, w : v = cell[x] /\ w = cell'[x]
      OBVIOUS
    <3>2. v = Null \/ Lasts(v)
      BY <1>1, <3>1, VariablesStay
    <3>3. ObjectAt(v)' = ObjectAt(v)
      BY <1>1, <3>2, SeenKept
    <3>4. CASE w = v
      BY <3>1, <3>3, <3>4
    <3>5. CASE w # v
      <4>1. fix_roots
        BY <3>1, <3>5 DEF mark, Sweep, sweep_big_blocks, classify_page, classify_done,
           first_alive_page, copy_block, fix_pages, release, programVars
      <4>2. pc = "fix" /\ w = fix_ptr(v)
        BY <3>1, <3>5, <4>1 DEF fix_roots
      <4>3. Valid(v)
        BY <3>2 DEF Valid, Lasts
      <4>4. Valid(w) /\ ObjectAt(w) = ObjectAt(v)
        BY <1>1, <4>2, <4>3, AllForwarded, FixedIsValid, FixSeen DEF NInv
      <4>5. w = Null \/ Lasts(w)
        BY <4>2, <4>4 DEF Valid, Lasts
      <4>6. ObjectAt(w)' = ObjectAt(w)
        BY <1>1, <4>5, SeenKept
      <4> QED BY <3>1, <4>4, <4>6
    <3> QED BY <3>4, <3>5
  <2> QED BY <2>1 DEF aCell
<1>4. ASSUME NEW o \in InUse, o \in Objects
      PROVE  aField'[o] = aField[o]
  <2>1. PICK q \in Positions : Lasts(q) /\ At(q).obj = o
    BY <1>4 DEF InUse
  <2>2. q \in Positions' /\ At(q)'.obj = o
    BY <1>1, <2>1, ObjectsKept DEF Lasts
  <2>3. FieldsOf(o) = Contents(q)
    BY <1>1, <2>1, FieldsAreContents DEF NInv, IInv
  <2>4. FieldsOf(o)' = Contents(q)'
    BY <2>2, FieldsAreContentsNext DEF NInv, IInv
  <2>5. Contents(q)' = Contents(q)
    BY <1>1, <2>1, ContentsKept
  <2> QED BY <1>4, <2>3, <2>4, <2>5 DEF aField
<1>5. Promised!Become(aCell, aRaw, aField)
  BY <1>1, <1>2, <1>3, <1>4, ReachableInUse, BecomeIs
<1> QED BY <1>5 DEF Promised!Collect, aCell, aRaw, aField
-----------------------------------------------------------------------------
(* The steps of the program are those of the program of ManagedHeap.       *)
LEMMA SameBlocks ==
    ASSUME block' = block, big' = big
    PROVE  /\ \A v : ObjectAt(v)' = ObjectAt(v)
           /\ aField' = aField
<1>1. /\ Positions' = Positions
      /\ \A q : At(q)' = At(q) /\ (Allocated(q)' <=> Allocated(q))
  BY UnmovedBlocks DEF Unmoved, At
<1>2. \A v : ObjectAt(v)' = ObjectAt(v)
  BY <1>1 DEF ObjectAt
<1>3. \A q : Contents(q)' = Contents(q)
  BY <1>1, <1>2 DEF Contents
<1>4. \A o : FieldsOf(o)' = FieldsOf(o)
  BY <1>1, <1>3 DEF FieldsOf, Copies
<1> QED BY <1>2, <1>4 DEF aField

LEMMA SetCellSeen ==
    ASSUME IInv, NEW x \in Cells, NEW v, SetCell(x, v)
    PROVE  Promised!Become([aCell EXCEPT ![x] = ObjectAt(v)], aRaw, aField)
<1>1. /\ cell' = [cell EXCEPT ![x] = v] /\ raw' = raw /\ block' = block /\ big' = big
      /\ cell \in [Cells -> Pointers]
  BY DEF SetCell, pageVars, IInv, ProgramTyped
<1>2. (\A w : ObjectAt(w)' = ObjectAt(w)) /\ aField' = aField
  BY <1>1, SameBlocks
<1>3. aCell' = [aCell EXCEPT ![x] = ObjectAt(v)]
  <2>1. ASSUME NEW y \in Cells
        PROVE  ObjectAt(cell[y])' = IF y = x THEN ObjectAt(v) ELSE ObjectAt(cell[y])
    <3>1. PICK w : w = cell'[y]
      OBVIOUS
    <3>2. w = IF y = x THEN v ELSE cell[y]
      BY <1>1, <3>1
    <3>3. ObjectAt(w)' = ObjectAt(w)
      BY <1>2
    <3> QED BY <3>1, <3>2, <3>3
  <2> QED BY <2>1 DEF aCell
<1>4. aRaw' = aRaw
  BY <1>1, <1>2 DEF aRaw
<1> QED BY <1>2, <1>3, <1>4, BecomeIs

LEMMA SetRawSeen ==
    ASSUME IInv, NEW p \in Raws, NEW v, SetRaw(p, v)
    PROVE  Promised!Become(aCell, [aRaw EXCEPT ![p] = ObjectAt(v)], aField)
<1>1. /\ raw' = [raw EXCEPT ![p] = v] /\ cell' = cell /\ block' = block /\ big' = big
      /\ raw \in [Raws -> Pointers]
  BY DEF SetRaw, pageVars, IInv, ProgramTyped
<1>2. (\A w : ObjectAt(w)' = ObjectAt(w)) /\ aField' = aField
  BY <1>1, SameBlocks
<1>3. aRaw' = [aRaw EXCEPT ![p] = ObjectAt(v)]
  <2>1. ASSUME NEW y \in Raws
        PROVE  ObjectAt(raw[y])' = IF y = p THEN ObjectAt(v) ELSE ObjectAt(raw[y])
    <3>1. PICK w : w = raw'[y]
      OBVIOUS
    <3>2. w = IF y = p THEN v ELSE raw[y]
      BY <1>1, <3>1
    <3>3. ObjectAt(w)' = ObjectAt(w)
      BY <1>2
    <3> QED BY <3>1, <3>2, <3>3
  <2> QED BY <2>1 DEF aRaw
<1>4. aCell' = aCell
  BY <1>1, <1>2 DEF aCell
<1> QED BY <1>2, <1>3, <1>4, BecomeIs

\* A cell that is followed leads to an object with these fields.
LEMMA CellFollowed ==
    ASSUME IInv, RInv, NInv, Running, NEW x \in Cells, cell[x] # Null
    PROVE  /\ cell[x] \in Positions /\ Live(cell[x]) /\ Lasts(cell[x])
           /\ At(cell[x]).obj \in Objects /\ aCell[x] = At(cell[x]).obj
           /\ DOMAIN At(cell[x]).field = 1..FieldCount[aCell[x]]
           /\ aField[aCell[x]] = Contents(cell[x])
<1>1. cell[x] \in Positions /\ Live(cell[x]) /\ Lasts(cell[x])
  BY DEF Running, RInv, LiveClosed, Valid, Lasts
<1>2. Allocated(cell[x]) /\ At(cell[x]).obj \in Objects
  BY <1>1, PlaceTyped DEF IInv, Block
<1>3. aCell[x] = At(cell[x]).obj
  BY <1>2 DEF aCell, ObjectAt
<1>4. DOMAIN At(cell[x]).field = 1..FieldCount[aCell[x]]
  BY <1>1, <1>3 DEF RInv, Placed
<1>5. aField[aCell[x]] = Contents(cell[x])
  BY <1>1, <1>2, <1>3, FieldsAreContents DEF Running, NInv, IInv, aField
<1> QED BY <1>1, <1>2, <1>3, <1>4, <1>5

LEMMA PointersNext ==
    (BlocksTyped => /\ \A q \in Positions : q # Null /\ Allocated(q)
                    /\ \A q \in Pointers : q # Null /\ Allocated(q) => q \in Positions)'
<1>1. BlocksTyped => /\ \A q \in Positions : q # Null /\ Allocated(q)
                     /\ \A q \in Pointers : q # Null /\ Allocated(q) => q \in Positions
  BY PlaceTyped
<1> QED BY <1>1, PTL

LEMMA SeenPlaces ==
    ASSUME IInv, IInv', Positions' = Positions,
           \A p \in Positions : At(p)'.obj = At(p).obj
    PROVE  \A v \in Pointers : ObjectAt(v)' = ObjectAt(v)
<1>1. ASSUME NEW v \in Pointers, v # Null
      PROVE  (Allocated(v) <=> v \in Positions) /\ (Allocated(v)' <=> v \in Positions)
  <2>1. /\ \A q \in Positions : Allocated(q)
        /\ \A q \in Pointers : q # Null /\ Allocated(q) => q \in Positions
    BY PlaceTyped DEF IInv
  <2>2. /\ \A q \in Positions' : Allocated(q)'
        /\ \A q \in Pointers : q # Null /\ Allocated(q)' => q \in Positions'
    BY PointersNext DEF IInv, Pointers
  <2> QED BY <1>1, <2>1, <2>2
<1> QED BY <1>1 DEF ObjectAt

LEMMA StoreSeen ==
    ASSUME IInv, RInv, NInv, IInv', NInv', NEW x \in Cells, NEW y \in Cells,
           NEW i \in 1..MaxFields, Store(x, i, y), missed' = missed
    PROVE  Promised!Store(x, i, y)
<1>1. /\ Running /\ ~missed /\ ~missed' /\ cell[x] # Null /\ i \in DOMAIN At(cell[x]).field
      /\ UNCHANGED <<cell, raw>>
  BY DEF Store, SetField, Running, programVars
<1>2. PICK q, r, o : q = cell[x] /\ r = cell[y] /\ o = aCell[x]
  OBVIOUS
<1>3. /\ q \in Positions /\ At(q).obj = o /\ o \in Objects
      /\ DOMAIN At(q).field = 1..FieldCount[o] /\ i \in 1..FieldCount[o]
      /\ aField[o] = Contents(q)
  BY <1>1, <1>2, CellFollowed
<1>4. /\ Positions' = Positions
      /\ \A p \in Positions \ {q} : At(p)' = At(p)
      /\ At(q)' = [At(q) EXCEPT !.field[i] = r]
  <2>1. SetField(q, i, r) /\ q \in Positions /\ i \in DOMAIN At(q).field /\ BlocksTyped
    BY <1>2, <1>3 DEF Store, IInv
  <2>2. /\ Positions' = Positions
        /\ \A p \in Positions \ {q} : At(p)' = At(p)
    BY <2>1, SetFieldBlocks
  <2>3. At(q)' = [At(q) EXCEPT !.field[i] = r]
    BY <2>1, SetFieldBlocks
  <2> QED BY <2>2, <2>3
<1>5. PICK f : f = At(q).field
  OBVIOUS
<1>6. At(q)'.obj = o /\ At(q)'.field = [f EXCEPT ![i] = r]
  <2>1. At(q) \in Block
    BY <1>3, PlaceTyped DEF IInv
  <2> QED BY <1>3, <1>4, <1>5, <2>1 DEF Block
<1>7. \A p \in Positions : At(p)'.obj = At(p).obj
  BY <1>3, <1>4, <1>6
<1>8. \A v \in Pointers : ObjectAt(v)' = ObjectAt(v)
  BY <1>4, <1>7, SeenPlaces
<1>9. ASSUME NEW p \in Positions, NEW j \in DOMAIN At(p).field
      PROVE  At(p).field[j] \in Pointers
  <2>1. At(p).field \in Seq(Pointers)
    BY PlaceTyped, BlockFields DEF IInv
  <2> QED BY <2>1, Elements
<1>10. r \in Pointers /\ ObjectAt(r) = aCell[y]
  BY <1>2 DEF IInv, ProgramTyped, aCell
<1>11. FieldsOf(o)' = [aField[o] EXCEPT ![i] = aCell[y]]
  <2>1. PICK g : g = [f EXCEPT ![i] = r]
    OBVIOUS
  <2>2. Contents(q)' = [j \in DOMAIN g |-> ObjectAt(g[j])']
    <3>1. At(q)'.field = g
      BY <1>6, <2>1
    <3> QED BY <3>1, ContentsNext
  <2>3. /\ DOMAIN g = DOMAIN f /\ i \in DOMAIN f
        /\ \A j \in DOMAIN f : g[j] = IF j = i THEN r ELSE f[j]
    BY <1>1, <1>2, <1>5, <2>1
  <2>4. \A j \in DOMAIN f : ObjectAt(g[j])' = IF j = i THEN ObjectAt(r) ELSE ObjectAt(f[j])
    <3>1. ASSUME NEW j \in DOMAIN f
          PROVE  ObjectAt(g[j])' = ObjectAt(g[j])
      BY <1>3, <1>5, <1>8, <1>9, <1>10, <2>3
    <3> QED BY <2>3, <3>1
  <2>5. Contents(q) = [j \in DOMAIN f |-> ObjectAt(f[j])]
    BY <1>5 DEF Contents
  <2>6. Contents(q)' = [Contents(q) EXCEPT ![i] = ObjectAt(r)]
    BY <2>2, <2>3, <2>4, <2>5
  <2>7. FieldsOf(o)' = Contents(q)'
    BY <1>1, <1>3, <1>4, <1>6, FieldsAreContentsNext DEF NInv, IInv
  <2> QED BY <1>3, <1>10, <2>6, <2>7
<1>12. ASSUME NEW u \in Objects, u # o
       PROVE  FieldsOf(u)' = FieldsOf(u)
  <2>1. CASE \E p \in Positions : At(p).obj = u
    <3>1. PICK p \in Positions : At(p).obj = u
      BY <2>1
    <3>2. p # q /\ At(p)' = At(p) /\ p \in Positions'
      BY <1>3, <1>4, <1>12, <3>1
    <3>3. PICK g : g = At(p).field
      OBVIOUS
    <3>4. Contents(p)' = [j \in DOMAIN g |-> ObjectAt(g[j])']
      BY <3>2, <3>3, ContentsNext
    <3>5. Contents(p) = [j \in DOMAIN g |-> ObjectAt(g[j])]
      BY <3>3 DEF Contents
    <3>6. \A j \in DOMAIN g : ObjectAt(g[j])' = ObjectAt(g[j])
      BY <1>8, <1>9, <3>3
    <3>7. FieldsOf(u) = Contents(p)
      BY <1>1, <3>1, FieldsAreContents DEF NInv, IInv
    <3>8. FieldsOf(u)' = Contents(p)'
      BY <1>1, <3>1, <3>2, FieldsAreContentsNext DEF NInv, IInv
    <3> QED BY <3>4, <3>5, <3>6, <3>7, <3>8
  <2>2. CASE \A p \in Positions : At(p).obj # u
    <3>1. \A p \in Positions' : At(p)'.obj # u
      BY <1>4, <1>7, <2>2
    <3>2. FieldsOf(u) = NoFields(u)
      BY <1>1, <2>2, FieldsAreContents DEF NInv, IInv
    <3>3. FieldsOf(u)' = NoFields(u)
      BY <1>1, <3>1, FieldsAreContentsNext DEF NInv, IInv, NoFields
    <3> QED BY <3>2, <3>3
  <2> QED BY <2>1, <2>2
<1>13. aField' = [aField EXCEPT ![o][i] = aCell[y]]
  <2>1. aField' = [u \in Objects |-> FieldsOf(u)'] /\ aField = [u \in Objects |-> FieldsOf(u)]
    BY DEF aField
  <2> QED BY <1>3, <1>11, <1>12, <2>1
<1>14. aCell' = aCell /\ aRaw' = aRaw
  <2>1. \A z \in Cells : cell[z] \in Pointers
    BY DEF IInv, ProgramTyped
  <2>2. \A p \in Raws : raw[p] \in Pointers
    BY DEF IInv, ProgramTyped
  <2>3. ASSUME NEW z \in Cells
        PROVE  ObjectAt(cell[z])' = ObjectAt(cell[z])
    <3>1. PICK v : v = cell[z]
      OBVIOUS
    <3>2. ObjectAt(v)' = ObjectAt(v)
      BY <1>8, <2>1, <3>1
    <3> QED BY <1>1, <3>1, <3>2
  <2>4. ASSUME NEW p \in Raws
        PROVE  ObjectAt(raw[p])' = ObjectAt(raw[p])
    <3>1. PICK v : v = raw[p]
      OBVIOUS
    <3>2. ObjectAt(v)' = ObjectAt(v)
      BY <1>8, <2>2, <3>1
    <3> QED BY <1>1, <3>1, <3>2
  <2> QED BY <2>3, <2>4 DEF aCell, aRaw
<1>15. Promised!Become(aCell, aRaw, [aField EXCEPT ![o][i] = aCell[y]])
  BY <1>13, <1>14, BecomeIs
<1>16. o # Null
  BY <1>3, ConstantsAssumption
<1> QED BY <1>2, <1>3, <1>15, <1>16 DEF Promised!Store, aCell, aRaw, aField

LEMMA ProgramSeen ==
    ASSUME IInv, RInv, NInv, IInv', NInv', Program, missed' = missed
    PROVE  Promised!Keep
<1>1. Running /\ Null \notin Objects
  BY ConstantsAssumption DEF Program, Clear, Assign, Load, Store, Dereference, Forget,
     SetCell, SetRaw, SetField
<1>2. ObjectAt(Null) = Null /\ \A x \in Cells : ObjectAt(cell[x]) = aCell[x]
  BY DEF ObjectAt, aCell
<1>3. MaxFields = Promised!Max(Promised!Range(FieldCount))
  BY DEF MaxFields, Max, Range, Promised!Max, Promised!Range
<1>4. ASSUME NEW x \in Cells, Clear(x)
      PROVE  Promised!Clear(x)
  <2>1. Promised!Become([aCell EXCEPT ![x] = Null], aRaw, aField)
    BY <1>2, <1>4, SetCellSeen DEF Clear
  <2> QED BY <2>1 DEF Promised!Clear, aCell, aRaw, aField
<1>5. ASSUME NEW x \in Cells, NEW y \in Cells, Assign(x, y)
      PROVE  Promised!Assign(x, y)
  <2>1. PICK v : v = cell[y]
    OBVIOUS
  <2>2. Promised!Become([aCell EXCEPT ![x] = ObjectAt(v)], aRaw, aField)
    BY <1>5, <2>1, SetCellSeen DEF Assign
  <2>3. Promised!Become([aCell EXCEPT ![x] = aCell[y]], aRaw, aField)
    BY <1>2, <2>1, <2>2
  <2> QED BY <2>3 DEF Promised!Assign, aCell, aRaw, aField
<1>6. ASSUME NEW x \in Cells, NEW y \in Cells, NEW i \in 1..MaxFields, Load(x, y, i)
      PROVE  Promised!Load(x, y, i)
  <2>1. PICK v : v = At(cell[y]).field[i]
    OBVIOUS
  <2>2. cell[y] # Null /\ i \in DOMAIN At(cell[y]).field /\ SetCell(x, v)
    BY <1>6, <2>1 DEF Load
  <2>3. /\ aCell[y] \in Objects /\ i \in 1..FieldCount[aCell[y]]
        /\ aField[aCell[y]] = Contents(cell[y])
    BY <1>1, <2>2, CellFollowed
  <2>4. aField[aCell[y]][i] = ObjectAt(v)
    BY <2>1, <2>2, <2>3 DEF Contents
  <2>5. Promised!Become([aCell EXCEPT ![x] = ObjectAt(v)], aRaw, aField)
    BY <2>2, SetCellSeen
  <2>6. Promised!Become([aCell EXCEPT ![x] = aField[aCell[y]][i]], aRaw, aField)
    BY <2>4, <2>5
  <2>7. aCell[y] # Null
    BY <1>1, <2>3
  <2> QED BY <2>3, <2>6, <2>7 DEF Promised!Load, aCell, aRaw, aField
<1>7. ASSUME NEW p \in Raws, Forget(p)
      PROVE  Promised!Forget(p)
  <2>1. Promised!Become(aCell, [aRaw EXCEPT ![p] = Null], aField)
    BY <1>2, <1>7, SetRawSeen DEF Forget
  <2> QED BY <2>1 DEF Promised!Forget, aCell, aRaw, aField
<1>8. ASSUME NEW p \in Raws, NEW x \in Cells, Dereference(p, x)
      PROVE  Promised!Dereference(p, x)
  <2>1. PICK v : v = cell[x]
    OBVIOUS
  <2>2. Promised!Become(aCell, [aRaw EXCEPT ![p] = ObjectAt(v)], aField)
    BY <1>8, <2>1, SetRawSeen DEF Dereference
  <2>3. Promised!Become(aCell, [aRaw EXCEPT ![p] = aCell[x]], aField)
    BY <1>2, <2>1, <2>2
  <2> QED BY <2>3 DEF Promised!Dereference, aCell, aRaw, aField
<1> QED BY <1>3, <1>4, <1>5, <1>6, <1>7, <1>8, StoreSeen DEF Program, Promised!Keep

(* A new object: what the program could reach before is as it was.         *)
LEMMA MakesSeen ==
    ASSUME IInv, RInv, NInv, IInv', NInv', NEW x \in Cells, NEW o \in Objects,
           NEW s \in Nat \ {0}, NEW e \in BOOLEAN, Makes(x, o, s, e), [Next]_vars,
           missed' = missed
    PROVE  Promised!New(x, o)
<1>1. PICK to :
          /\ \A q : q \in Positions' <=> q \in Positions \/ q = to
          /\ to \notin Positions /\ to \in Pointers /\ to # Null
          /\ At(to)' = NewBlock(o, s)
          /\ \A q \in Positions : At(q)' = At(q)
          /\ cell' = [cell EXCEPT ![x] = to] /\ raw' = raw
  BY AllocateBlocks DEF Makes, Running
<1>2. /\ At(to)'.obj = o /\ At(to)'.field = NoFields(o)
      /\ cell \in [Cells -> Pointers] /\ Null \notin Objects
      /\ ~missed /\ ~missed' /\ \A q \in Positions : At(q).obj # o
  BY <1>1, ConstantsAssumption DEF NewBlock, IInv, ProgramTyped, Makes, Running
<1>3. ObjectAt(to)' = o
  <2>1. Allocated(to)'
    BY <1>1, PlaceTypedNext DEF IInv
  <2> QED BY <1>1, <1>2, <2>1 DEF ObjectAt
<1>4. \A v : v = Null \/ Lasts(v) => ObjectAt(v)' = ObjectAt(v)
  BY SeenKept
<1>5. aCell' = [aCell EXCEPT ![x] = o]
  <2>1. ASSUME NEW y \in Cells
        PROVE  ObjectAt(cell[y])' = IF y = x THEN o ELSE ObjectAt(cell[y])
    <3>1. PICK w : w = cell'[y]
      OBVIOUS
    <3>2. w = IF y = x THEN to ELSE cell[y]
      BY <1>1, <1>2, <3>1
    <3>3. y # x => ObjectAt(w)' = ObjectAt(w)
      BY <1>2, <1>4, <3>2, VariablesStay
    <3> QED BY <1>3, <3>1, <3>2, <3>3
  <2> QED BY <2>1 DEF aCell
<1>6. aRaw' = aRaw
  <2>1. ASSUME NEW p \in Raws
        PROVE  ObjectAt(raw[p])' = ObjectAt(raw[p])
    <3>1. PICK v : v = raw[p]
      OBVIOUS
    <3>2. ObjectAt(v)' = ObjectAt(v)
      BY <1>2, <1>4, <3>1, VariablesStay
    <3> QED BY <1>1, <3>1, <3>2
  <2> QED BY <2>1 DEF aRaw
<1>7. o \notin InUse
  BY <1>2 DEF InUse
<1>8. o \notin Promised!Reachable(aCell, aRaw, aField)
  BY <1>2, <1>7, ReachableInUse
<1> DEFINE c == [aCell EXCEPT ![x] = o]
           f == [aField EXCEPT ![o] = NoFields(o)]
<1>9. Promised!Reachable(c, aRaw, f) \subseteq InUse \cup {o}
  <2>1. InUse \cup {o} \in SUBSET Objects
    BY <1>2, SeenInUse
  <2>2. (Range(c) \cup Range(aRaw)) \cap Objects \subseteq InUse \cup {o}
    <3>1. Range(c) \subseteq Range(aCell) \cup {o}
      BY DEF Range, aCell
    <3> QED BY <1>2, <3>1, SeenInUse
  <2>3. ASSUME NEW u \in InUse \cup {o}
        PROVE  Range(f[u]) \cap Objects \subseteq InUse \cup {o}
    <3>1. CASE u = o
      <4>1. f[u] = NoFields(o)
        BY <3>1 DEF aField
      <4>2. Range(NoFields(o)) \subseteq {Null}
        BY DEF Range, NoFields
      <4> QED BY <1>2, <4>1, <4>2
    <3>2. CASE u # o
      <4>1. u \in InUse /\ f[u] = aField[u]
        BY <2>1, <3>2 DEF aField
      <4> QED BY <1>2, <4>1, SeenInUse
    <3> QED BY <3>1, <3>2
  <2> HIDE DEF c, f
  <2> QED BY <2>1, <2>2, <2>3, HoldsBounds
<1>10. ASSUME NEW u \in Objects, u \in InUse \cup {o}
       PROVE  FieldsOf(u)' = IF u = o THEN NoFields(o) ELSE FieldsOf(u)
  <2>1. CASE u = o
    <3>1. Contents(to)' = NoFields(o)
      <4>1. Contents(to)' = [j \in DOMAIN NoFields(o) |-> ObjectAt(NoFields(o)[j])']
        <5>1. PICK g : g = NoFields(o)
          OBVIOUS
        <5>2. At(to)'.field = g
          BY <1>2, <5>1
        <5>3. Contents(to)' = [j \in DOMAIN g |-> ObjectAt(g[j])']
          BY <5>2, ContentsNext
        <5> QED BY <5>1, <5>3
      <4>2. /\ DOMAIN NoFields(o) = 1..FieldCount[o]
            /\ \A j \in 1..FieldCount[o] : NoFields(o)[j] = Null
            /\ NoFields(o) = [j \in 1..FieldCount[o] |-> Null]
        BY DEF NoFields
      <4>3. ObjectAt(Null)' = Null
        BY DEF ObjectAt
      <4>4. \A j \in 1..FieldCount[o] : ObjectAt(NoFields(o)[j])' = Null
        BY <4>2, <4>3
      <4> QED BY <4>1, <4>2, <4>4
    <3>2. FieldsOf(o)' = Contents(to)'
      BY <1>1, <1>2, FieldsAreContentsNext DEF NInv, IInv
    <3> QED BY <2>1, <3>1, <3>2
  <2>2. CASE u # o
    <3>1. PICK p \in Positions : Lasts(p) /\ At(p).obj = u
      BY <1>10, <2>2 DEF InUse
    <3>2. p \in Positions' /\ At(p)' = At(p)
      BY <1>1
    <3>3. PICK g : g = At(p).field
      OBVIOUS
    <3>4. Contents(p)' = [j \in DOMAIN g |-> ObjectAt(g[j])']
      <4>1. At(p)'.field = g
        BY <3>2, <3>3
      <4> QED BY <4>1, ContentsNext
    <3>5. Contents(p) = [j \in DOMAIN g |-> ObjectAt(g[j])]
      BY <3>3 DEF Contents
    <3>6. \A j \in DOMAIN g : ObjectAt(g[j])' = ObjectAt(g[j])
      BY <1>2, <1>4, <3>1, <3>3, VariablesStay
    <3>7. FieldsOf(u) = Contents(p)
      BY <1>2, <3>1, FieldsAreContents DEF NInv, IInv
    <3>8. FieldsOf(u)' = Contents(p)'
      BY <1>2, <3>1, <3>2, FieldsAreContentsNext DEF NInv, IInv
    <3> QED BY <2>2, <3>4, <3>5, <3>6, <3>7, <3>8
  <2> QED BY <2>1, <2>2
<1>11. ASSUME NEW u \in Objects, u \in InUse \cup {o}
       PROVE  aField'[u] = f[u]
  BY <1>10, <1>11 DEF aField
<1>12. Promised!Become(c, aRaw, f)
  <2> HIDE DEF c, f
  <2>1. aCell' = c
    BY <1>5 DEF c
  <2> QED BY <1>6, <1>9, <1>11, <2>1, BecomeIs
<1> QED BY <1>8, <1>12 DEF Promised!New, Promised!NoFields, NoFields, aCell, aRaw, aField

LEMMA InitSeen ==
    ASSUME Init
    PROVE  Promised!Init
<1>1. Positions = {}
  <2>1. DOMAIN big = {} /\ \A p \in Pages : DOMAIN block[p] = {}
    BY DEF Init
  <2> QED BY <2>1, PlaceIs DEF Place
<1>2. aCell = [x \in Cells |-> Null] /\ aRaw = [p \in Raws |-> Null] /\ missed = FALSE
  BY DEF Init, aCell, aRaw, ObjectAt
<1>3. \A o \in Objects : FieldsOf(o) = NoFields(o)
  <2>1. \A o \in Objects : {Contents(q) : q \in Copies(o)} = {}
    BY <1>1 DEF Copies
  <2> QED BY <2>1 DEF FieldsOf
<1>4. aField = [o \in Objects |-> NoFields(o)]
  BY <1>3 DEF aField
<1> QED BY <1>2, <1>4 DEF Promised!Init, Promised!NoFields, NoFields, aCell, aRaw, aField

LEMMA StepSeen ==
    ASSUME IInv, RInv, NInv, missed \in BOOLEAN,
           IInv', RInv', NInv', (missed \in BOOLEAN)', [Next]_vars
    PROVE  [Promised!Next]_(Promised!vars)
<1>1. CASE missed'
  BY <1>1 DEF Promised!Next, Promised!Break
<1>2. CASE ~missed' /\ Program /\ missed' = missed
  <2>1. Promised!Keep
    BY <1>2, ProgramSeen
  <2> QED BY <1>2, <2>1 DEF Promised!Next
<1>3. CASE ~missed' /\ Allocation /\ missed' = missed
  <2>1. CASE \E x \in Cells, o \in Objects, s \in Nat \ {0}, e \in BOOLEAN :
                 Makes(x, o, s, e)
    <3>1. Promised!Keep
      BY <1>3, <2>1, MakesSeen DEF Promised!Keep
    <3> QED BY <1>3, <3>1 DEF Promised!Next
  <2>2. CASE Waits
    <3>1. aCell' = aCell /\ aRaw' = aRaw /\ aField' = aField
      <4>1. UNCHANGED <<cell, raw, block, big>>
        BY <2>2 DEF Waits
      <4>2. (\A v : ObjectAt(v)' = ObjectAt(v)) /\ aField' = aField
        BY <4>1, SameBlocks
      <4> QED BY <4>1, <4>2 DEF aCell, aRaw
    <3> QED BY <1>3, <3>1 DEF Promised!vars, aCell, aRaw, aField
  <2> QED BY <1>3, <2>1, <2>2, AllocationIs DEF NInv
<1>4. CASE ~missed' /\ (mark \/ Sweep)
  <2>1. Promised!Keep
    BY <1>4, CollectorStep DEF Promised!Keep
  <2>2. missed = FALSE /\ missed' = FALSE
    <3>1. ~missed
      BY <1>4, NoneMissed
    <3> QED BY <1>4, <3>1
  <2> QED BY <2>1, <2>2 DEF Promised!Next
<1>5. CASE UNCHANGED vars
  <2>1. UNCHANGED <<cell, raw, block, big, missed>>
    BY <1>5 DEF vars, programVars, pageVars
  <2>2. (\A v : ObjectAt(v)' = ObjectAt(v)) /\ aField' = aField
    BY <2>1, SameBlocks
  <2>3. aCell' = aCell /\ aRaw' = aRaw
    BY <2>1, <2>2 DEF aCell, aRaw
  <2> QED BY <2>1, <2>2, <2>3 DEF Promised!vars, aCell, aRaw, aField
<1> QED BY <1>1, <1>2, <1>3, <1>4, <1>5 DEF Next

(* Whatever the collector moves, frees or reuses, the program finds the    *)
(* objects that it can reach as it left them, until a mark phase misses    *)
(* one of them: gcmalloc and the sweep implement a heap without            *)
(* collections (malloc.cpp:208-238, 283-413).                              *)
THEOREM HeapImplementsManagedHeap == NoBigPointers => (Spec => ImplementsManagedHeap)
<1>1. Init => Promised!Init
  BY InitSeen
<1>2. Init => missed \in BOOLEAN
  BY DEF Init
<1>3. missed \in BOOLEAN /\ [Next]_vars => (missed \in BOOLEAN)'
  BY DEF Next, mark, vars
<1>4. (IInv /\ RInv /\ NInv) /\ missed \in BOOLEAN
          /\ (IInv /\ RInv /\ NInv)' /\ (missed \in BOOLEAN)' /\ [Next]_vars =>
          [Promised!Next]_(Promised!vars)
  BY StepSeen
<1>5. Spec => [](missed \in BOOLEAN)
  BY <1>2, <1>3, PTL DEF Spec
<1>6. Spec /\ [](IInv /\ RInv /\ NInv) => Promised!Spec
  BY <1>1, <1>4, <1>5, PTL DEF Spec, Promised!Spec
<1> QED BY <1>6, NamesAlways, PTL DEF ImplementsManagedHeap
=============================================================================
