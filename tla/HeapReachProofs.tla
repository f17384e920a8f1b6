-------------------------- MODULE HeapReachProofs --------------------------
(***************************************************************************)
(* What the collector does with the objects in the heap, for any number of *)
(* threads, objects, pages and sizes: what is pinned stays where it is;    *)
(* and as long as no mark phase has missed an object, what the program can *)
(* reach is kept, and all pointers to it follow it.                        *)
(***************************************************************************)
EXTENDS HeapProofs

\* No object with gc_ptrs lies in a big block: the sweep does not fix the
\* gc_ptrs in big blocks.
NoBigPointers ==
    \A o \in Objects : (\E s \in Sizes[o] : s > Threshold) => FieldCount[o] = 0
-----------------------------------------------------------------------------
(* Where blocks are.                                                       *)
Place(q, bl, bg) ==
    /\ q = <<q[1], q[2]>>
    /\ \/ q[1] = 0 /\ q[2] \in DOMAIN bg
       \/ q[1] \in Pages /\ q[1] # 0 /\ q[2] \in DOMAIN bl[q[1]]

LEMMA PlaceIs ==
    /\ \A q : q \in Positions <=> Place(q, block, big)
    /\ \A q : q \in Positions' <=> Place(q, block', big')
<1>1. 0 \notin Pages
  BY DEF Pages
<1>2. ASSUME NEW bl, NEW bg, NEW q
      PROVE  Place(q, bl, bg) <=>
                 \/ \E k \in DOMAIN bg : q = <<0, k>>
                 \/ \E p \in Pages : \E i \in DOMAIN bl[p] : q = <<p, i>>
  BY <1>1 DEF Place
<1>3. ASSUME NEW q
      PROVE  q \in Positions <=> Place(q, block, big)
  <2>1. q \in Positions <=> \/ \E k \in DOMAIN big : q = <<0, k>>
                            \/ \E p \in Pages : \E i \in DOMAIN block[p] : q = <<p, i>>
    BY DEF Positions
  <2> QED BY <1>2, <2>1
<1>4. ASSUME NEW q
      PROVE  q \in Positions' <=> Place(q, block', big')
  <2>1. q \in Positions' <=> \/ \E k \in DOMAIN big' : q = <<0, k>>
                             \/ \E p \in Pages : \E i \in DOMAIN block'[p] : q = <<p, i>>
    BY DEF Positions, Pages
  <2> QED BY <1>2, <2>1
<1> QED BY <1>3, <1>4

LEMMA PlaceTyped ==
    ASSUME BlocksTyped
    PROVE  /\ \A q \in Positions :
                  /\ q \in Pointers /\ q # Null /\ Allocated(q) /\ At(q) \in Block
                  /\ q[1] \in 0..MaxPages /\ (q[1] # 0 => q[1] \in Pages)
                  /\ q[2] \in Nat /\ q = <<q[1], q[2]>>
           /\ \A q \in Pointers : q # Null /\ Allocated(q) => q \in Positions
<1>1. /\ block \in [Pages -> Seq(PageBlock)] /\ DOMAIN big \subseteq 1..MaxBig
      /\ MaxPages \in Nat /\ MaxBig \in Nat /\ Null \notin Nat \X Nat
  BY ConstantsAssumption DEF BlocksTyped
<1>2. \A p \in Pages : /\ p \in Nat /\ p # 0 /\ p \in 0..MaxPages
                       /\ DOMAIN block[p] \subseteq Nat \ {0}
  <2>1. ASSUME NEW p \in Pages
        PROVE  DOMAIN block[p] \subseteq Nat \ {0}
    <3>1. block[p] \in Seq(PageBlock)
      BY <1>1
    <3>2. DOMAIN block[p] = 1..Len(block[p]) /\ Len(block[p]) \in Nat
      BY <3>1, Elements
    <3> QED BY <3>2
  <2> QED BY <1>1, <2>1 DEF Pages
<1>3. ASSUME NEW q \in Positions
      PROVE  /\ q \in Pointers /\ q # Null /\ Allocated(q)
             /\ q[1] \in 0..MaxPages /\ (q[1] # 0 => q[1] \in Pages)
             /\ q[2] \in Nat /\ q = <<q[1], q[2]>>
  <2>1. Place(q, block, big)
    BY PlaceIs
  <2>2. /\ q[1] \in 0..MaxPages /\ (q[1] # 0 => q[1] \in Pages)
        /\ q[2] \in Nat \ {0} /\ q = <<q[1], q[2]>>
    BY <1>1, <1>2, <2>1 DEF Place
  <2>3. q \in Nat \X Nat /\ q \in (0..MaxPages) \X (Nat \ {0})
    <3>1. \A m \in 0..MaxPages, n \in Nat \ {0} :
              <<m, n>> \in Nat \X Nat /\ <<m, n>> \in (0..MaxPages) \X (Nat \ {0})
      BY <1>1
    <3> QED BY <2>2, <3>1
  <2> QED BY <1>1, <2>1, <2>2, <2>3 DEF Place, Pointers, Allocated
<1>4. \A q \in Positions : At(q) \in Block
  BY <1>3, AtTyped
<1>5. ASSUME NEW q \in Pointers, q # Null, Allocated(q)
      PROVE  q \in Positions
  <2>1. /\ q[1] \in 0..MaxPages /\ q[2] \in Nat \ {0} /\ q = <<q[1], q[2]>>
    BY <1>5 DEF Pointers
  <2>2. q[1] # 0 => q[1] \in Pages
    BY <1>1, <2>1 DEF Pages
  <2>3. Place(q, block, big)
    BY <1>5, <2>1, <2>2 DEF Allocated, Place
  <2> QED BY <2>3, PlaceIs
<1> QED BY <1>3, <1>4, <1>5
-----------------------------------------------------------------------------
(* What each step does to the blocks, place by place.                      *)
Unmoved == Positions' = Positions /\ \A q \in Positions : At(q)' = At(q)

LEMMA UnmovedBlocks ==
    ASSUME block' = block, big' = big
    PROVE  Unmoved /\ \A q : Allocated(q)' <=> Allocated(q)
BY PlaceIs DEF Unmoved, At, Allocated

LEMMA SamePlaces ==
    ASSUME \A p \in Pages : DOMAIN block'[p] = DOMAIN block[p], DOMAIN big' = DOMAIN big
    PROVE  Positions' = Positions
<1>1. \A q : Place(q, block, big) <=> Place(q, block', big')
  BY DEF Place
<1>2. \A q : q \in Positions <=> q \in Positions'
  BY <1>1, PlaceIs
<1> QED BY <1>2

LEMMA markBlocks ==
    ASSUME BlocksTyped, mark
    PROVE  \E found \in Found :
               /\ missed' = ~Closed(found)
               /\ Positions' = Positions
               /\ \A q \in Positions :
                      /\ At(q)'.obj = At(q).obj /\ At(q)'.field = At(q).field
                      /\ At(q)'.forward = At(q).forward /\ At(q)'.dead = At(q).dead
                      /\ At(q)'.marked <=> At(q).marked \/ q \in found
                      /\ At(q)'.pinned <=> At(q).pinned \/ \E p \in Raws : raw[p] = q
<1>0. PICK found \in Found :
          /\ block' = [p \in Pages |-> [i \in DOMAIN block[p] |-> Flagged(<<p, i>>, found)]]
          /\ big' = [k \in DOMAIN big |-> Flagged(<<0, k>>, found)]
          /\ missed' = ~Closed(found)
  BY DEF mark
<1> DEFINE F(q) == Flagged(q, found)
<1>1. /\ block' = [p \in Pages |-> [i \in DOMAIN block[p] |-> F(<<p, i>>)]]
      /\ big' = [k \in DOMAIN big |-> F(<<0, k>>)]
  BY <1>0
<1> HIDE DEF F
<1>2. (\A p \in Pages : DOMAIN block'[p] = DOMAIN block[p]) /\ DOMAIN big' = DOMAIN big
  BY <1>1
<1>3. Positions' = Positions
  BY <1>2, SamePlaces
<1>4. ASSUME NEW q \in Positions
      PROVE  At(q)' = F(q)
  <2>1. Place(q, block, big)
    BY PlaceIs
  <2> QED BY <1>1, <2>1 DEF Place, At
<1>5. ASSUME NEW q \in Positions
      PROVE  /\ F(q).obj = At(q).obj /\ F(q).field = At(q).field
             /\ F(q).forward = At(q).forward /\ F(q).dead = At(q).dead
             /\ F(q).marked <=> At(q).marked \/ q \in found
             /\ F(q).pinned <=> At(q).pinned \/ \E p \in Raws : raw[p] = q
  <2>1. At(q) \in Block
    BY PlaceTyped
  <2> DEFINE m == At(q).marked \/ q \in found
             n == At(q).pinned \/ \E p \in Raws : raw[p] = q
  <2>2. F(q) = [At(q) EXCEPT !.marked = m, !.pinned = n]
    BY DEF F, Flagged
  <2> HIDE DEF m, n
  <2>3. /\ F(q).obj = At(q).obj /\ F(q).field = At(q).field
        /\ F(q).forward = At(q).forward /\ F(q).dead = At(q).dead
        /\ F(q).marked = m /\ F(q).pinned = n
    BY <2>1, <2>2 DEF Block
  <2> QED BY <2>3 DEF m, n
<1> QED BY <1>0, <1>3, <1>4, <1>5

LEMMA sweep_big_blocksBlocks ==
    ASSUME BlocksTyped, sweep_big_blocks
    PROVE  /\ \A q : q \in Positions' <=>
                  q \in Positions /\ (q[1] = 0 => At(q).marked \/ At(q).pinned)
           /\ \A q \in Positions' :
                  /\ At(q)'.obj = At(q).obj /\ At(q)'.field = At(q).field
                  /\ At(q)'.forward = At(q).forward /\ At(q)'.dead = At(q).dead
                  /\ q[1] = 0 => ~At(q)'.marked /\ ~At(q)'.pinned
                  /\ q[1] # 0 => At(q)' = At(q)
<1> DEFINE Kept == {k \in DOMAIN big : big[k].marked \/ big[k].pinned}
<1>1. /\ block' = block
      /\ big' = [k \in Kept |-> [big[k] EXCEPT !.marked = FALSE, !.pinned = FALSE]]
  BY DEF sweep_big_blocks, pageVars
<1>2. DOMAIN big' = Kept
  BY <1>1
<1>3. ASSUME NEW q
      PROVE  q \in Positions' <=>
                 q \in Positions /\ (q[1] = 0 => At(q).marked \/ At(q).pinned)
  <2>1. Place(q, block', big') <=>
            Place(q, block, big) /\ (q[1] = 0 => At(q).marked \/ At(q).pinned)
    BY <1>1, <1>2 DEF Place, At
  <2> QED BY <2>1, PlaceIs
<1>4. ASSUME NEW k \in Kept
      PROVE  /\ big'[k].obj = big[k].obj /\ big'[k].field = big[k].field
             /\ big'[k].forward = big[k].forward /\ big'[k].dead = big[k].dead
             /\ ~big'[k].marked /\ ~big'[k].pinned
  <2>1. big[k] \in Block /\ big'[k] = [big[k] EXCEPT !.marked = FALSE, !.pinned = FALSE]
    BY <1>1 DEF BlocksTyped
  <2> QED BY <2>1 DEF Block
<1> HIDE DEF Kept
<1>5. ASSUME NEW q \in Positions'
      PROVE  /\ At(q)'.obj = At(q).obj /\ At(q)'.field = At(q).field
             /\ At(q)'.forward = At(q).forward /\ At(q)'.dead = At(q).dead
             /\ q[1] = 0 => ~At(q)'.marked /\ ~At(q)'.pinned
             /\ q[1] # 0 => At(q)' = At(q)
  <2>1. Place(q, block', big')
    BY PlaceIs
  <2>2. CASE q[1] = 0
    <3>1. q[2] \in Kept /\ At(q) = big[q[2]] /\ At(q)' = big'[q[2]]
      BY <1>2, <2>1, <2>2 DEF Place, At
    <3> QED BY <1>4, <2>2, <3>1
  <2>3. CASE q[1] # 0
    BY <1>1, <2>3 DEF At
  <2> QED BY <2>2, <2>3
<1> QED BY <1>3, <1>5

LEMMA classify_pageBlocks ==
    ASSUME BlocksTyped, curr \in Seq(Pages), classify_page, HasPinned(Head(curr))
    PROVE  /\ Positions' = Positions
           /\ \A q \in Positions :
                  /\ At(q)'.obj = At(q).obj /\ At(q)'.field = At(q).field
                  /\ At(q)'.forward = At(q).forward
                  /\ q[1] # Head(curr) => At(q)' = At(q)
                  /\ q[1] = Head(curr) =>
                         /\ ~At(q)'.marked /\ ~At(q)'.pinned
                         /\ At(q)'.dead <=> At(q).dead \/ (~At(q).marked /\ ~At(q).pinned)
<1> DEFINE h == Head(curr)
<1>1. /\ block' = [block EXCEPT ![h] = [i \in DOMAIN block[h] |-> Stays(block[h][i])]]
      /\ big' = big
  BY DEF classify_page
<1>2. DOMAIN block = Pages /\ h \in Pages /\ h # 0
  <2>1. h \in Pages
    BY HeadTailProperties DEF classify_page
  <2> QED BY <2>1 DEF BlocksTyped, Pages
<1> HIDE DEF h
<1>3. \A p \in Pages : DOMAIN block'[p] = DOMAIN block[p]
  BY <1>1, <1>2
<1>4. Positions' = Positions
  BY <1>1, <1>3, SamePlaces
<1>6. ASSUME NEW x \in Block
      PROVE  /\ Stays(x).obj = x.obj /\ Stays(x).field = x.field
             /\ Stays(x).forward = x.forward
             /\ ~Stays(x).marked /\ ~Stays(x).pinned
             /\ Stays(x).dead <=> x.dead \/ (~x.marked /\ ~x.pinned)
  <2> DEFINE d == x.dead \/ (~x.marked /\ ~x.pinned)
  <2>1. Stays(x) = [x EXCEPT !.dead = d, !.marked = FALSE, !.pinned = FALSE]
    BY DEF Stays
  <2> HIDE DEF d
  <2>2. /\ Stays(x).obj = x.obj /\ Stays(x).field = x.field
        /\ Stays(x).forward = x.forward
        /\ Stays(x).marked = FALSE /\ Stays(x).pinned = FALSE /\ Stays(x).dead = d
    BY <2>1 DEF Block
  <2> QED BY <2>2 DEF d
<1>7. ASSUME NEW q \in Positions
      PROVE  At(q)' = IF q[1] = h THEN Stays(At(q)) ELSE At(q)
  <2>1. Place(q, block, big)
    BY PlaceIs
  <2> QED BY <1>1, <1>2, <2>1 DEF Place, At
<1>8. \A q \in Positions : At(q) \in Block
  BY PlaceTyped
<1> QED BY <1>4, <1>6, <1>7, <1>8 DEF h

\* What the copy of the block b to the place to does.
Copied(b, to) ==
    /\ \A q : q \in Positions' <=> q \in Positions \/ q = to
    /\ to \notin Positions /\ b \in Positions /\ b # to
    /\ At(to)'.obj = At(b).obj /\ At(to)'.field = At(b).field
    /\ At(to)'.forward = At(b).forward
    /\ ~At(to)'.marked /\ ~At(to)'.pinned /\ ~At(to)'.dead
    /\ At(b)'.obj = At(b).obj /\ At(b)'.field = At(b).field
    /\ At(b)'.forward = to
    /\ At(b)'.marked = At(b).marked /\ At(b)'.pinned = At(b).pinned
    /\ At(b)'.dead = At(b).dead
    /\ \A q \in Positions \ {b} : At(q)' = At(q)

LEMMA CopyToBlocks ==
    ASSUME IInv, WaitingPages # {}, NEW p \in Pages, p \notin ToSet(pages), NEW fb,
           big' = big, CopyTo(p, fb)
    PROVE  \E b, to : /\ b = NextBlock /\ to[1] = p /\ to \in Pointers /\ to # Null
                        /\ Copied(b, to)
<1>01. PICK b : b = NextBlock
  OBVIOUS
<1>02. PICK to : to = <<p, Len(block[p]) + 1>>
  OBVIOUS
<1> DEFINE x    == At(NextBlock)
           copy == [x EXCEPT !.marked = FALSE, !.pinned = FALSE, !.dead = FALSE]
           y    == [x EXCEPT !.forward = to]
<1>1. /\ b[1] \in Pages /\ b[1] \in ToSet(pages) /\ b[2] \in DOMAIN block[b[1]]
      /\ x = block[b[1]][b[2]] /\ x \in Block
  BY <1>01, NextBlockIs
<1>2. b = <<b[1], b[2]>>
  BY <1>01 DEF NextBlock
<1>3. block \in [Pages -> Seq(PageBlock)] /\ MaxPages \in Nat /\ Null \notin Nat \X Nat
  BY ConstantsAssumption DEF IInv, BlocksTyped
<1>4. block' = [block EXCEPT ![p] = Append(@, copy), ![b[1]][b[2]].forward = to]
  BY <1>01, <1>02 DEF CopyTo
<1>5. p # b[1]
  BY <1>1
<1>6. p # 0 /\ b[1] # 0 /\ p \in 0..MaxPages
  BY <1>1, <1>3 DEF Pages
<1>7. block[p] \in Seq(PageBlock) /\ Len(block[p]) \in Nat /\ DOMAIN block[p] = 1..Len(block[p])
  <2>1. block[p] \in Seq(PageBlock)
    BY <1>3
  <2> QED BY <2>1, Elements
<1>8. block' = [block EXCEPT ![p] = Append(block[p], copy),
                             ![b[1]] = [block[b[1]] EXCEPT ![b[2]] = y]]
  BY <1>1, <1>3, <1>4, <1>5
<1>9. /\ copy.obj = x.obj /\ copy.field = x.field /\ copy.forward = x.forward
      /\ ~copy.marked /\ ~copy.pinned /\ ~copy.dead
  BY <1>1 DEF Block
<1>10. /\ y.obj = x.obj /\ y.field = x.field /\ y.forward = to
       /\ y.marked = x.marked /\ y.pinned = x.pinned /\ y.dead = x.dead
  BY <1>1 DEF Block
<1>11. to[1] = p /\ to[2] = Len(block[p]) + 1 /\ to = <<to[1], to[2]>>
  BY <1>02
<1>12. to \in Pointers /\ to # Null
  <2>1. \A m \in 0..MaxPages, n \in Nat :
            <<m, n + 1>> \in Nat \X Nat /\ <<m, n + 1>> \in (0..MaxPages) \X (Nat \ {0})
    BY <1>3
  <2> QED BY <2>1, <1>02, <1>3, <1>6, <1>7 DEF Pointers
<1> HIDE DEF copy, y, x
<1>13. /\ block'[p] = Append(block[p], copy)
       /\ block'[b[1]] = [block[b[1]] EXCEPT ![b[2]] = y]
       /\ \A r \in Pages \ {p, b[1]} : block'[r] = block[r]
  BY <1>1, <1>3, <1>5, <1>8
<1>14. /\ DOMAIN block'[p] = 1..Len(block[p]) + 1
       /\ block'[p][Len(block[p]) + 1] = copy
       /\ \A i \in 1..Len(block[p]) : block'[p][i] = block[p][i]
  <2>1. \A s, e : s \in Seq(PageBlock) => 
            /\ DOMAIN Append(s, e) = 1..Len(s) + 1
            /\ Append(s, e)[Len(s) + 1] = e
            /\ \A i \in 1..Len(s) : Append(s, e)[i] = s[i]
    OBVIOUS
  <2> QED BY <1>7, <1>13, <2>1
<1>15. \A r \in Pages \ {p} : DOMAIN block'[r] = DOMAIN block[r]
  BY <1>13
<1>16. Len(block[p]) + 1 \notin DOMAIN block[p]
       /\ DOMAIN block'[p] = DOMAIN block[p] \cup {Len(block[p]) + 1}
  BY <1>7, <1>14
<1>17. ASSUME NEW q
       PROVE  q \in Positions' <=> q \in Positions \/ q = to
  <2>1. Place(q, block', big') <=> Place(q, block, big) \/ q = to
    BY <1>6, <1>11, <1>15, <1>16 DEF Place
  <2> QED BY <2>1, PlaceIs
<1>18. to \notin Positions /\ b \in Positions
  BY <1>1, <1>2, <1>6, <1>11, <1>16, PlaceIs DEF Place
<1>19. At(to)' = copy
  BY <1>6, <1>11, <1>14 DEF At
<1>20. At(b)' = y
  BY <1>1, <1>6, <1>13 DEF At
<1>21. ASSUME NEW q \in Positions, q # b
       PROVE  At(q)' = At(q)
  <2>1. Place(q, block, big)
    BY PlaceIs
  <2>2. CASE q[1] = 0
    BY <2>2 DEF At
  <2>3. CASE q[1] = p
    <3>1. q[2] \in 1..Len(block[p])
      BY <1>6, <1>7, <2>1, <2>3 DEF Place
    <3> QED BY <1>6, <1>14, <2>3, <3>1 DEF At
  <2>4. CASE q[1] = b[1]
    <3>1. q[2] # b[2]
      BY <1>2, <1>21, <2>1, <2>4 DEF Place
    <3>2. block'[b[1]][q[2]] = block[b[1]][q[2]]
      BY <1>13, <3>1
    <3> QED BY <1>6, <2>4, <3>2 DEF At
  <2>5. CASE q[1] # 0 /\ q[1] # p /\ q[1] # b[1]
    BY <1>13, <2>1, <2>5 DEF Place, At
  <2> QED BY <2>2, <2>3, <2>4, <2>5
<1>22. x = At(b)
  BY <1>01 DEF x
<1>23. Copied(b, to)
  BY <1>9, <1>10, <1>17, <1>18, <1>19, <1>20, <1>21, <1>22 DEF Copied
<1> QED BY <1>01, <1>11, <1>12, <1>23

LEMMA fix_pagesBlocks ==
    ASSUME BlocksTyped, alive_pages \in Seq(Pages), fix_pages
    PROVE  /\ Positions' = Positions
           /\ \A q \in Positions : At(q)' = IF q[1] \in ToSet(alive_pages)
                                            THEN FixFields(At(q)) ELSE At(q)
<1>1. /\ block' = [p \in Pages |-> IF p \in ToSet(alive_pages)
                                   THEN [i \in DOMAIN block[p] |-> FixFields(block[p][i])]
                                   ELSE block[p]]
      /\ big' = big
  BY DEF fix_pages
<1>2. Positions' = Positions
  BY <1>1, SamePlaces
<1>3. ASSUME NEW q \in Positions
      PROVE  At(q)' = IF q[1] \in ToSet(alive_pages) THEN FixFields(At(q)) ELSE At(q)
  <2>1. Place(q, block, big)
    BY PlaceIs
  <2>2. CASE q[1] = 0
    <3>1. ToSet(alive_pages) \subseteq Pages /\ 0 \notin Pages
      <4>1. ToSet(alive_pages) \subseteq Pages
        BY Elements
      <4> QED BY <4>1 DEF Pages
    <3> QED BY <1>1, <2>2, <3>1 DEF At
  <2>3. CASE q[1] # 0
    <3>1. q[1] \in Pages /\ q[2] \in DOMAIN block[q[1]]
      BY <2>1, <2>3 DEF Place
    <3>2. block'[q[1]][q[2]] = IF q[1] \in ToSet(alive_pages)
                               THEN FixFields(block[q[1]][q[2]]) ELSE block[q[1]][q[2]]
      BY <1>1, <3>1
    <3> QED BY <2>3, <3>2 DEF At
  <2> QED BY <2>2, <2>3
<1> QED BY <1>2, <1>3

LEMMA releaseBlocks ==
    ASSUME BlocksTyped, ToSet(pages) \subseteq Pages, release
    PROVE  /\ \A q : q \in Positions' <=> q \in Positions /\ q[1] \notin ToSet(pages)
           /\ \A q \in Positions' : At(q)' = At(q)
<1>1. /\ block' = [p \in Pages |-> IF p \in ToSet(pages) THEN <<>> ELSE block[p]]
      /\ big' = big
  BY DEF release, Freed
<1>2. 0 \notin Pages /\ DOMAIN <<>> = {}
  BY DEF Pages
<1>3. ASSUME NEW q
      PROVE  q \in Positions' <=> q \in Positions /\ q[1] \notin ToSet(pages)
  <2>1. Place(q, block', big') <=> Place(q, block, big) /\ q[1] \notin ToSet(pages)
    BY <1>1, <1>2 DEF Place
  <2> QED BY <2>1, PlaceIs
<1>4. ASSUME NEW q \in Positions'
      PROVE  At(q)' = At(q)
  <2>1. Place(q, block, big) /\ q[1] \notin ToSet(pages)
    BY <1>3, PlaceIs
  <2> QED BY <1>1, <2>1 DEF Place, At
<1> QED BY <1>3, <1>4

LEMMA AllocateBlocks ==
    ASSUME IInv, pc = "run", pc' = pc, NEW x \in Cells, NEW o \in Objects,
           NEW s \in Nat \ {0}, NEW expand \in BOOLEAN, Allocate(x, o, s, expand)
    PROVE  \E to :
             /\ \A q : q \in Positions' <=> q \in Positions \/ q = to
             /\ to \notin Positions /\ to \in Pointers /\ to # Null
             /\ At(to)' = NewBlock(o, s)
             /\ \A q \in Positions : At(q)' = At(q)
             /\ cell' = [cell EXCEPT ![x] = to] /\ raw' = raw
             /\ IF to[1] = 0 THEN s > Threshold ELSE to[1] \in ToSet(pages')
             /\ ToSet(pages) \subseteq ToSet(pages')
<1>1. PICK p \in Pages :
          /\ LastPage(p, s, expand)
          /\ IF s > Threshold
             THEN \E k \in 1..MaxBig \ DOMAIN big :
                      /\ big' = [i \in DOMAIN big \cup {k} |->
                                    IF i = k THEN NewBlock(o, s) ELSE big[i]]
                      /\ cell' = [cell EXCEPT ![x] = <<0, k>>]
                      /\ UNCHANGED pageVars
             ELSE /\ malloc_in_page(p, NewBlock(o, s))
                  /\ cell' = [cell EXCEPT ![x] = <<p, Len(block[p]) + 1>>]
                  /\ UNCHANGED big
  BY DEF Allocate
<1>2. UNCHANGED <<sweepVars, roomVars>> /\ raw' = raw
  BY DEF Allocate
<1>3. /\ block \in [Pages -> Seq(PageBlock)] /\ MaxPages \in Nat /\ MaxBig \in Nat
      /\ Null \notin Nat \X Nat /\ DOMAIN big \subseteq 1..MaxBig
  BY ConstantsAssumption DEF IInv, BlocksTyped
<1>4. \A m \in 0..MaxPages, n \in Nat \ {0} :
          <<m, n>> \in Pointers /\ <<m, n>> # Null
  <2>1. \A m \in 0..MaxPages, n \in Nat \ {0} : <<m, n>> \in Nat \X Nat
    BY <1>3
  <2> QED BY <1>3, <2>1 DEF Pointers
<1>5. 0 \notin Pages /\ Pages \subseteq 0..MaxPages /\ 0 \in 0..MaxPages
  BY <1>3 DEF Pages
<1> DEFINE b == NewBlock(o, s)
<1> HIDE DEF b
<1>6. CASE s > Threshold
  <2>1. PICK k \in 1..MaxBig \ DOMAIN big :
            /\ big' = [i \in DOMAIN big \cup {k} |-> IF i = k THEN b ELSE big[i]]
            /\ cell' = [cell EXCEPT ![x] = <<0, k>>]
            /\ UNCHANGED pageVars
    BY <1>1, <1>6 DEF b
  <2>2. PICK to : to = <<0, k>>
    OBVIOUS
  <2>3. block' = block /\ to[1] = 0 /\ to[2] = k /\ to = <<to[1], to[2]>>
    BY <2>1, <2>2 DEF pageVars
  <2>4. ToSet(pages') = ToSet(pages) \cup {p}
    BY <1>1, <1>2, <2>1, LastPageKeeps DEF IInv, pageVars
  <2>5. \A q : q \in Positions' <=> q \in Positions \/ q = to
    BY <1>5, <2>1, <2>3, PlaceIs DEF Place
  <2>6. to \notin Positions
    BY <1>5, <2>1, <2>3, PlaceIs DEF Place
  <2>7. At(to)' = b
    BY <2>1, <2>3 DEF At
  <2>8. \A q \in Positions : At(q)' = At(q)
    <3>1. ASSUME NEW q \in Positions
          PROVE  At(q)' = At(q)
      <4>1. Place(q, block, big)
        BY PlaceIs
      <4>2. CASE q[1] = 0
        <5>1. q[2] \in DOMAIN big /\ q[2] # k
          BY <1>5, <2>1, <4>1, <4>2 DEF Place
        <5>2. big'[q[2]] = big[q[2]]
          BY <2>1, <5>1
        <5> QED BY <4>2, <5>2 DEF At
      <4>3. CASE q[1] # 0
        BY <2>3, <4>3 DEF At
      <4> QED BY <4>2, <4>3
    <3> QED BY <3>1
  <2>9. to \in Pointers /\ to # Null
    <3>1. k \in Nat \ {0}
      BY <1>3, <2>1
    <3> QED BY <1>4, <1>5, <2>2, <3>1
  <2> QED BY <1>2, <1>6, <2>1, <2>2, <2>3, <2>4, <2>5, <2>6, <2>7, <2>8, <2>9 DEF b
<1>7. CASE ~(s > Threshold)
  <2>1. /\ block' = [block EXCEPT ![p] = Append(@, b)]
        /\ free' = [free EXCEPT ![p] = Remaining(p, b.size)]
        /\ cell' = [cell EXCEPT ![x] = <<p, Len(block[p]) + 1>>]
        /\ big' = big
    BY <1>1, <1>7 DEF b, malloc_in_page
  <2>2. PICK to : to = <<p, Len(block[p]) + 1>>
    OBVIOUS
  <2>3. block[p] \in Seq(PageBlock)
    BY <1>3
  <2>4. Len(block[p]) \in Nat /\ DOMAIN block[p] = 1..Len(block[p])
    BY <2>3, Elements
  <2>5. /\ to[1] = p /\ to[2] = Len(block[p]) + 1 /\ to = <<to[1], to[2]>> /\ p # 0
    BY <1>5, <2>2
  <2>6. ToSet(pages') = ToSet(pages) \cup {p}
    <3>1. b.size = s
      BY NewBlockTyped DEF b
    <3>2. s <= Threshold
      BY <1>7, ConstantsAssumption
    <3> QED BY <1>1, <1>2, <2>1, <3>1, <3>2, LastPageKeeps DEF IInv
  <2>7. block'[p] = Append(block[p], b) /\ \A r \in Pages \ {p} : block'[r] = block[r]
    BY <1>3, <2>1
  <2>8. /\ DOMAIN block'[p] = 1..Len(block[p]) + 1
        /\ block'[p][Len(block[p]) + 1] = b
        /\ \A i \in 1..Len(block[p]) : block'[p][i] = block[p][i]
    <3>1. \A r, e : r \in Seq(PageBlock) =>
              /\ DOMAIN Append(r, e) = 1..Len(r) + 1
              /\ Append(r, e)[Len(r) + 1] = e
              /\ \A i \in 1..Len(r) : Append(r, e)[i] = r[i]
      OBVIOUS
    <3> QED BY <2>3, <2>7, <3>1
  <2>9. Len(block[p]) + 1 \notin DOMAIN block[p]
        /\ DOMAIN block'[p] = DOMAIN block[p] \cup {Len(block[p]) + 1}
    BY <2>4, <2>8
  <2>10. ASSUME NEW q
         PROVE  q \in Positions' <=> q \in Positions \/ q = to
    <3>1. Place(q, block', big') <=> Place(q, block, big) \/ q = to
      BY <2>1, <2>5, <2>7, <2>9 DEF Place
    <3> QED BY <3>1, PlaceIs
  <2>11. to \notin Positions
    BY <2>5, <2>9, PlaceIs DEF Place
  <2>12. At(to)' = b
    BY <2>5, <2>8 DEF At
  <2>13. ASSUME NEW q \in Positions
         PROVE  At(q)' = At(q)
    <3>1. Place(q, block, big)
      BY PlaceIs
    <3>2. CASE q[1] = p
      <4>1. q[2] \in 1..Len(block[p])
        BY <2>4, <2>5, <3>1, <3>2 DEF Place
      <4> QED BY <2>5, <2>8, <3>2, <4>1 DEF At
    <3>3. CASE q[1] # p
      BY <2>1, <2>7, <3>1, <3>3 DEF Place, At
    <3> QED BY <3>2, <3>3
  <2>14. to \in Pointers /\ to # Null
    <3>1. p \in 0..MaxPages /\ Len(block[p]) + 1 \in Nat \ {0}
      BY <1>5, <2>4
    <3> QED BY <1>4, <2>2, <3>1
  <2> QED BY <1>2, <2>1, <2>2, <2>5, <2>6, <2>10, <2>11, <2>12, <2>13, <2>14 DEF b
<1> QED BY <1>6, <1>7

LEMMA SetFieldBlocks ==
    ASSUME BlocksTyped, NEW q \in Positions, NEW i \in DOMAIN At(q).field, NEW r,
           SetField(q, i, r)
    PROVE  /\ Positions' = Positions
           /\ \A p \in Positions \ {q} : At(p)' = At(p)
           /\ At(q)' = [At(q) EXCEPT !.field[i] = r]
<1>1. Place(q, block, big) /\ 0 \notin Pages /\ block \in [Pages -> Seq(PageBlock)]
  BY PlaceIs DEF Pages, BlocksTyped
<1>2. IF q[1] = 0
      THEN big' = [big EXCEPT ![q[2]].field[i] = r] /\ block' = block
      ELSE block' = [block EXCEPT ![q[1]][q[2]].field[i] = r] /\ big' = big
  BY DEF SetField
<1>3. CASE q[1] = 0
  <2>1. q[2] \in DOMAIN big
    BY <1>1, <1>3 DEF Place
  <2>2. /\ DOMAIN big' = DOMAIN big /\ block' = block
        /\ big'[q[2]] = [big[q[2]] EXCEPT !.field[i] = r]
        /\ \A k \in DOMAIN big \ {q[2]} : big'[k] = big[k]
    BY <1>2, <1>3, <2>1
  <2>3. Positions' = Positions
    BY <2>2, SamePlaces
  <2>4. ASSUME NEW p \in Positions \ {q}
        PROVE  At(p)' = At(p)
    <3>1. Place(p, block, big)
      BY PlaceIs
    <3>2. p[1] = 0 => p[2] \in DOMAIN big \ {q[2]}
      BY <1>1, <1>3, <3>1 DEF Place
    <3> QED BY <2>2, <3>2 DEF At
  <2>5. At(q)' = [At(q) EXCEPT !.field[i] = r]
    BY <1>3, <2>2 DEF At
  <2> QED BY <2>3, <2>4, <2>5
<1>4. CASE q[1] # 0
  <2>1. q[1] \in Pages /\ q[2] \in DOMAIN block[q[1]]
    BY <1>1, <1>4 DEF Place
  <2>2. /\ big' = big
        /\ \A p \in Pages \ {q[1]} : block'[p] = block[p]
        /\ DOMAIN block'[q[1]] = DOMAIN block[q[1]]
        /\ block'[q[1]][q[2]] = [block[q[1]][q[2]] EXCEPT !.field[i] = r]
        /\ \A k \in DOMAIN block[q[1]] \ {q[2]} : block'[q[1]][k] = block[q[1]][k]
    <3> DEFINE y == [block[q[1]][q[2]] EXCEPT !.field[i] = r]
    <3>1. block' = [block EXCEPT ![q[1]] = [block[q[1]] EXCEPT ![q[2]] = y]] /\ big' = big
      BY <1>2, <1>4
    <3> HIDE DEF y
    <3>2. block'[q[1]] = [block[q[1]] EXCEPT ![q[2]] = y]
      BY <1>1, <2>1, <3>1
    <3>3. \A p \in Pages \ {q[1]} : block'[p] = block[p]
      BY <1>1, <3>1
    <3>4. /\ DOMAIN [block[q[1]] EXCEPT ![q[2]] = y] = DOMAIN block[q[1]]
          /\ [block[q[1]] EXCEPT ![q[2]] = y][q[2]] = y
          /\ \A k \in DOMAIN block[q[1]] \ {q[2]} :
                 [block[q[1]] EXCEPT ![q[2]] = y][k] = block[q[1]][k]
      BY <2>1
    <3> QED BY <3>1, <3>2, <3>3, <3>4 DEF y
  <2>3. Positions' = Positions
    BY <2>2, SamePlaces
  <2>4. ASSUME NEW p \in Positions \ {q}
        PROVE  At(p)' = At(p)
    <3>1. Place(p, block, big)
      BY PlaceIs
    <3>2. CASE p[1] = 0
      BY <2>2, <3>2 DEF At
    <3>3. CASE p[1] = q[1]
      <4>1. p[2] \in DOMAIN block[q[1]] \ {q[2]}
        BY <1>1, <1>4, <3>1, <3>3 DEF Place
      <4> QED BY <1>4, <2>2, <3>3, <4>1 DEF At
    <3>4. CASE p[1] # 0 /\ p[1] # q[1]
      BY <2>2, <3>1, <3>4 DEF Place, At
    <3> QED BY <3>2, <3>3, <3>4
  <2>5. At(q)' = [At(q) EXCEPT !.field[i] = r]
    BY <1>4, <2>2 DEF At
  <2> QED BY <2>3, <2>4, <2>5
<1> QED BY <1>3, <1>4
-----------------------------------------------------------------------------
(* The least set of places that has those in V and is closed under F.      *)
Least(P, V, F) ==
    {q \in P : \A C \in SUBSET P :
                   V \cap P \subseteq C /\ (\A r \in C : F[r] \cap P \subseteq C)
                       => q \in C}

LEMMA LeastIsClosed ==
    ASSUME NEW P, NEW V, NEW F
    PROVE  /\ Least(P, V, F) \subseteq P
           /\ V \cap P \subseteq Least(P, V, F)
           /\ \A r \in Least(P, V, F) : F[r] \cap P \subseteq Least(P, V, F)
BY DEF Least

LEMMA LeastIsLeast ==
    ASSUME NEW P, NEW V, NEW F, NEW C \in SUBSET P, V \cap P \subseteq C,
           \A r \in C : F[r] \cap P \subseteq C
    PROVE  Least(P, V, F) \subseteq C
BY DEF Least

(* It depends on what lies in it alone.                                    *)
LEMMA LeastKept ==
    ASSUME NEW P, NEW V, NEW F, NEW Q, NEW W, NEW G,
           Least(P, V, F) \subseteq Q, W \cap Q = V \cap P,
           \A r \in Least(P, V, F) : G[r] \cap Q = F[r] \cap P
    PROVE  Least(Q, W, G) = Least(P, V, F)
<1> DEFINE L == Least(P, V, F)
           M == Least(Q, W, G)
<1>1. L \subseteq P /\ V \cap P \subseteq L /\ \A r \in L : F[r] \cap P \subseteq L
  BY LeastIsClosed
<1>2. M \subseteq Q /\ W \cap Q \subseteq M /\ \A r \in M : G[r] \cap Q \subseteq M
  BY LeastIsClosed
<1>3. M \subseteq L
  <2>1. L \in SUBSET Q /\ W \cap Q \subseteq L /\ \A r \in L : G[r] \cap Q \subseteq L
    BY <1>1
  <2> HIDE DEF L
  <2> QED BY <2>1, LeastIsLeast
<1>4. L \subseteq L \cap M
  <2> DEFINE C == L \cap M
  <2>1. C \in SUBSET P /\ V \cap P \subseteq C /\ \A r \in C : F[r] \cap P \subseteq C
    BY <1>1, <1>2
  <2> HIDE DEF C
  <2> QED BY <2>1, LeastIsLeast DEF C
<1> QED BY <1>3, <1>4

\* What the program's variables lead to, what the gc_ptrs of the blocks lead
\* to, and what follows from these.
Variables == {cell[x] : x \in Cells} \cup {raw[p] : p \in Raws}
Leads == [q \in Positions |-> Range(At(q).field)]

LEMMA ClosedIs ==
    ASSUME BlocksTyped, ProgramTyped
    PROVE  /\ Roots = Variables \cap Positions
           /\ \A C \in SUBSET Positions :
                  Closed(C) <=> /\ Variables \cap Positions \subseteq C
                                /\ \A r \in C : Leads[r] \cap Positions \subseteq C
<1>1. \A S : S \subseteq Pointers => Blocks(S) = S \cap Positions
  BY PlaceTyped DEF Blocks
<1>2. Variables \subseteq Pointers
  BY DEF ProgramTyped, Variables
<1>3. \A q \in Positions : Range(At(q).field) \subseteq Pointers
  <2>1. ASSUME NEW q \in Positions
        PROVE  Range(At(q).field) \subseteq Pointers
    <3>1. At(q).field \in Seq(Pointers)
      BY PlaceTyped, BlockFields
    <3> QED BY <3>1, Elements DEF Range
  <2> QED BY <2>1
<1>4. Roots = Variables \cap Positions
  BY <1>1, <1>2 DEF Roots, Variables
<1>5. \A q \in Positions : Blocks(Range(At(q).field)) = Leads[q] \cap Positions
  BY <1>1, <1>3 DEF Leads
<1> QED BY <1>4, <1>5 DEF Closed

LEMMA ReachedIsLeast ==
    ASSUME BlocksTyped, ProgramTyped
    PROVE  Reached = Least(Positions, Variables, Leads)
BY ClosedIs DEF Reached, Least

(* What the mark phase finds.                                              *)
LEMMA FoundIs ==
    ASSUME BlocksTyped, ProgramTyped, NEW found \in Found
    PROVE  /\ found \subseteq Positions
           /\ \A q \in found : q \in Reached \/ ~At(q).dead
           /\ Variables \cap Positions \subseteq found
           /\ Closed(found) => \A q \in found : Leads[q] \cap Positions \subseteq found
<1>1. CASE Alone
  <2>1. found = Least(Positions, Variables, Leads) /\ found = Reached
    BY <1>1, ReachedIsLeast DEF Found
  <2> QED BY <2>1, LeastIsClosed
<1>2. CASE ~Alone
  <2>1. /\ found \subseteq {q \in Positions : q \in Reached \/ ~At(q).dead}
        /\ Roots \subseteq found
    BY <1>2 DEF Found
  <2> QED BY <2>1, ClosedIs
<1> QED BY <1>1, <1>2

LEMMA NullIsNoPlaceNext == (BlocksTyped => Null \notin Positions)'
<1>1. BlocksTyped => Null \notin Positions
  BY PlaceTyped
<1> QED BY <1>1, PTL
-----------------------------------------------------------------------------
(* The invariant of the collection.  The sweep is done with a block when   *)
(* it is not in a page that is left to copy from; what is live is marked   *)
(* until then, and not dead from then on.                                  *)
Old   == ToSet(pages)
Alive == ToSet(alive_pages)
Settled(q) == pc = "run" \/ (pc # "sweep" /\ q[1] \notin Old)
Live(q) == IF Settled(q) THEN ~At(q).dead ELSE At(q).marked
Valid(q) == q = Null \/ (q \in Positions /\ Live(q))

\* Where there are blocks, and what they are like.
Placed ==
    /\ \A q \in Positions :
           /\ q[1] = 0 \/ q[1] \in Old \cup Alive
           /\ DOMAIN At(q).field = 1..FieldCount[At(q).obj]
           /\ q[1] = 0 => ~At(q).dead /\ FieldCount[At(q).obj] = 0
    /\ \A t \in Threads : want[t] # Null => want[t].size \in Sizes[want[t].obj]
    /\ pc \in {"copy", "fix", "release"} => curr = <<>>

\* What is dead was not marked; what is pinned is behind a plain pointer, and
\* its page does not stay among those to copy from.
Flags == \A q \in Positions :
    /\ Settled(q) => ~At(q).marked /\ ~At(q).pinned
    /\ ~Settled(q) => /\ At(q).marked => ~At(q).dead
                      /\ At(q).pinned <=> \E p \in Raws : raw[p] = q
    /\ pc # "sweep" /\ At(q).pinned => pc = "classify" /\ q[1] \in ToSet(curr)

\* The program's variables lead to what is live; and, unless an object has
\* been missed, what is live leads to nothing else.
LiveClosed ==
    /\ \A x \in Cells : Valid(cell[x])
    /\ \A p \in Raws : Valid(raw[p])
    /\ ~missed => \A q \in Positions : Live(q) =>
           \A i \in DOMAIN At(q).field : Valid(At(q).field[i])

\* A forward pointer leads from a marked block to its copy.
Forwards ==
    /\ \A q \in Positions : At(q).forward # Null =>
           /\ pc \in {"copy", "fix", "release"} /\ q[1] \in Old /\ At(q).marked
           /\ At(q).forward \in Positions
           /\ At(q).forward[1] \in Alive
           /\ ~At(At(q).forward).dead
           /\ pc = "copy" => At(At(q).forward).field = At(q).field
    /\ pc \in {"fix", "release"} =>
           \A q \in Positions : q[1] \in Old /\ At(q).marked => At(q).forward # Null

\* What is fixed does not lead to the old pages.
Away(q) == q = Null \/ q[1] \notin Old
FixedAway ==
    /\ pc \in {"fix", "release"} /\ ~missed =>
           \A q \in Positions : q[1] \notin Old /\ ~At(q).dead =>
               \A i \in DOMAIN At(q).field : Away(At(q).field[i])
    /\ pc = "release" => \A x \in Cells : Away(cell[x])

RInv == Placed /\ Flags /\ LiveClosed /\ Forwards /\ FixedAway

LEMMA ReachedIsLive ==
    ASSUME IInv, LiveClosed, ~missed
    PROVE  \A q \in Reached : q \in Positions /\ Live(q)
<1> DEFINE C == {q \in Positions : Live(q)}
<1>1. Null \notin Positions /\ BlocksTyped /\ ProgramTyped
  BY PlaceTyped DEF IInv
<1>2. Variables \cap Positions \subseteq C
  BY <1>1 DEF LiveClosed, Valid, Variables
<1>3. \A q \in C : Leads[q] \cap Positions \subseteq C
  BY <1>1 DEF LiveClosed, Valid, Leads, Range
<1> HIDE DEF C
<1>4. C \in SUBSET Positions
  BY DEF C
<1>5. Least(Positions, Variables, Leads) \subseteq C
  BY <1>2, <1>3, <1>4, LeastIsLeast
<1> QED BY <1>1, <1>5, ReachedIsLeast DEF C

-----------------------------------------------------------------------------
(* What a list of pages holds.                                             *)
LEMMA ListsOfPages ==
    ASSUME IInv
    PROVE  /\ Old \subseteq Pages /\ Alive \subseteq Pages /\ 0 \notin Pages
           /\ Old \cap Alive = {}
           /\ pc \in {"run", "sweep"} => Alive = {}
           /\ pc \in {"run", "sweep", "classify", "copy", "fix", "release"}
<1>1. /\ pages \in Seq(Pages) /\ alive_pages \in Seq(Pages)
      /\ ToSet(pages) \cap ToSet(alive_pages) = {}
      /\ pc \in {"run", "sweep"} => alive_pages = <<>>
      /\ pc \in {"run", "sweep", "classify", "copy", "fix", "release"}
  BY DEF IInv, ListInv, ListTypes, Parted, Quiet
<1>2. Old \subseteq Pages /\ Alive \subseteq Pages
  BY <1>1, Elements DEF Old, Alive
<1>3. 0 \notin Pages
  BY DEF Pages
<1> QED BY <1>1, <1>2, <1>3, Nothing DEF Old, Alive

LEMMA ReachInit ==
    ASSUME Init
    PROVE  RInv
<1>1. Positions = {}
  <2>1. DOMAIN big = {} /\ \A p \in Pages : DOMAIN block[p] = {}
    BY DEF Init
  <2> QED BY <2>1, PlaceIs DEF Place
<1>2. Placed /\ Flags
  BY <1>1 DEF Init, Placed, Flags
<1>3. LiveClosed
  BY <1>1 DEF Init, LiveClosed, Valid
<1>4. Forwards /\ FixedAway
  BY <1>1 DEF Init, Forwards, FixedAway
<1> QED BY <1>2, <1>3, <1>4 DEF RInv

LEMMA markReach ==
    ASSUME IInv, RInv, IInv', mark
    PROVE  RInv'
<1>1. /\ pc = "run" /\ pc' = "sweep" /\ ~missed
      /\ UNCHANGED <<cell, raw, pages, alive_pages, want, curr>>
  BY DEF mark, Running, programVars, listVars, sweepVars
<1>2. Placed /\ Flags /\ LiveClosed /\ Forwards
  BY DEF RInv
<1>3. PICK found \in Found :
          /\ missed' = ~Closed(found)
          /\ Positions' = Positions
          /\ \A q \in Positions :
                 /\ At(q)'.obj = At(q).obj /\ At(q)'.field = At(q).field
                 /\ At(q)'.forward = At(q).forward /\ At(q)'.dead = At(q).dead
                 /\ At(q)'.marked <=> At(q).marked \/ q \in found
                 /\ At(q)'.pinned <=> At(q).pinned \/ \E p \in Raws : raw[p] = q
  BY markBlocks DEF IInv
<1>4. /\ \A q \in Positions : Settled(q) /\ ~At(q).marked /\ ~At(q).pinned /\ At(q).forward = Null
      /\ \A q : ~Settled(q)'
      /\ \A q : Live(q)' <=> At(q)'.marked
  BY <1>1, <1>2 DEF Settled, Flags, Forwards, Live
<1>5. \A q \in Positions : Live(q)' <=> q \in found
  BY <1>3, <1>4
<1>6. /\ found \subseteq Positions
      /\ \A q \in found : q \in Reached \/ ~At(q).dead
      /\ Variables \cap Positions \subseteq found
      /\ ~missed' => \A q \in found : Leads[q] \cap Positions \subseteq found
  BY <1>3, FoundIs DEF IInv
<1>7. \A q \in found : q \in Positions /\ ~At(q).dead
  <2>1. \A q \in Reached : q \in Positions /\ ~At(q).dead
    BY <1>1, <1>2, <1>4, ReachedIsLive DEF Live
  <2> QED BY <1>6, <2>1
<1>8. Placed'
  BY <1>1, <1>2, <1>3 DEF Placed, Old, Alive
<1>9. Flags'
  BY <1>1, <1>3, <1>4, <1>7 DEF Flags
<1>10. LiveClosed'
  <2>1. \A v \in Variables : v = Null \/ v \in found
    BY <1>2, <1>6 DEF LiveClosed, Valid, Variables
  <2>2. ASSUME ~missed'
        PROVE  \A q \in found : \A i \in DOMAIN At(q).field :
                   At(q).field[i] = Null \/ At(q).field[i] \in found
    <3>1. \A q \in found : \A i \in DOMAIN At(q).field :
              At(q).field[i] = Null \/ At(q).field[i] \in Positions
      BY <1>1, <1>2, <1>4, <1>7 DEF LiveClosed, Valid, Live
    <3> QED BY <1>6, <1>7, <2>2, <3>1 DEF Leads, Range
  <2>3. \A q : q = Null \/ q \in found => Valid(q)'
    BY <1>3, <1>5, <1>6 DEF Valid
  <2> QED BY <1>1, <1>3, <1>5, <2>1, <2>2, <2>3 DEF LiveClosed, Variables
<1>11. Forwards' /\ FixedAway'
  BY <1>1, <1>3, <1>4 DEF Forwards, FixedAway
<1> QED BY <1>8, <1>9, <1>10, <1>11 DEF RInv

(* A step of the sweep that neither takes a live block, nor makes another  *)
(* one live, nor changes its gc_ptrs, leaves all uses of blocks valid.     *)
LEMMA LiveClosedKept ==
    ASSUME IInv, IInv', LiveClosed, cell' = cell, raw' = raw, missed' = missed,
           \A q \in Positions : Live(q) =>
               q \in Positions' /\ Live(q)' /\ At(q)'.field = At(q).field,
           \A q \in Positions' : Live(q)' => q \in Positions /\ Live(q)
    PROVE  LiveClosed'
<1>1. \A q : Valid(q) => Valid(q)'
  BY DEF Valid
<1>2. \A x \in Cells : Valid(cell[x])'
  BY <1>1 DEF LiveClosed
<1>3. \A p \in Raws : Valid(raw[p])'
  BY <1>1 DEF LiveClosed
<1>4. ASSUME ~missed', NEW q \in Positions', Live(q)', NEW i \in (DOMAIN At(q).field)'
      PROVE  Valid(At(q).field[i])'
  <2>1. q \in Positions /\ Live(q) /\ At(q)'.field = At(q).field
    BY <1>4
  <2>2. Valid(At(q).field[i])
    BY <1>4, <2>1 DEF LiveClosed
  <2> QED BY <1>1, <2>1, <2>2
<1> QED BY <1>2, <1>3, <1>4 DEF LiveClosed

LEMMA sweep_big_blocksReach ==
    ASSUME IInv, RInv, IInv', sweep_big_blocks, missed' = missed
    PROVE  RInv'
<1>1. /\ pc = "sweep" /\ pc' = "classify" /\ curr' = pages /\ alive_pages' = <<>>
      /\ UNCHANGED <<cell, raw, pages, want>>
  BY DEF sweep_big_blocks, programVars
<1>2. Placed /\ Flags /\ LiveClosed /\ Forwards
  BY DEF RInv
<1>3. /\ \A q : q \in Positions' <=>
             q \in Positions /\ (q[1] = 0 => At(q).marked \/ At(q).pinned)
      /\ \A q \in Positions' :
             /\ At(q)'.obj = At(q).obj /\ At(q)'.field = At(q).field
             /\ At(q)'.forward = At(q).forward /\ At(q)'.dead = At(q).dead
             /\ q[1] = 0 => ~At(q)'.marked /\ ~At(q)'.pinned
             /\ q[1] # 0 => At(q)' = At(q)
  BY sweep_big_blocksBlocks DEF IInv
<1>4. /\ Old' = Old /\ Alive' = {} /\ Alive = {} /\ 0 \notin Old
  BY <1>1, ListsOfPages, Nothing DEF Old, Alive
<1>5. \A q \in Positions : /\ ~Settled(q) /\ (Live(q) <=> At(q).marked)
                           /\ At(q).pinned => At(q).marked
                           /\ q[1] # 0 => q[1] \in Old
  <2>1. \A q \in Positions : ~Settled(q) /\ (Live(q) <=> At(q).marked)
    BY <1>1 DEF Settled, Live
  <2>2. ASSUME NEW q \in Positions, At(q).pinned
        PROVE  At(q).marked
    <3>1. PICK p \in Raws : raw[p] = q
      BY <1>2, <2>1, <2>2 DEF Flags
    <3>2. q # Null
      BY PlaceTyped DEF IInv
    <3> QED BY <1>2, <2>1, <3>1, <3>2 DEF LiveClosed, Valid
  <2> QED BY <1>2, <1>4, <2>1, <2>2 DEF Placed
<1>6. \A q \in Positions' : (Settled(q)' <=> q[1] = 0) /\ (Live(q)' <=> Live(q))
  <2>1. \A q \in Positions' : Settled(q)' <=> q[1] = 0
    BY <1>1, <1>3, <1>4, <1>5 DEF Settled
  <2>2. \A q \in Positions' : q[1] = 0 => ~At(q).dead /\ At(q).marked
    BY <1>2, <1>3, <1>5 DEF Placed
  <2> QED BY <1>3, <1>5, <2>1, <2>2 DEF Live
<1>7. \A q \in Positions : Live(q) => q \in Positions'
  BY <1>3, <1>5
<1>9. Placed'
  BY <1>1, <1>2, <1>3, <1>4 DEF Placed
<1>10. Flags'
  <2>1. ASSUME NEW q \in Positions'
        PROVE  /\ Settled(q)' => ~At(q)'.marked /\ ~At(q)'.pinned
               /\ ~Settled(q)' => /\ At(q)'.marked => ~At(q)'.dead
                                  /\ At(q)'.pinned <=> \E p \in Raws : raw'[p] = q
               /\ At(q)'.pinned => q[1] \in ToSet(curr')
    <3>1. CASE q[1] = 0
      BY <1>3, <1>6, <3>1
    <3>2. CASE q[1] # 0
      <4>1. ~Settled(q)' /\ At(q)' = At(q) /\ ~Settled(q) /\ q[1] \in Old
        BY <1>3, <1>5, <1>6, <3>2
      <4> QED BY <1>1, <1>2, <1>3, <4>1 DEF Flags, Old
    <3> QED BY <3>1, <3>2
  <2> QED BY <1>1, <2>1 DEF Flags
<1>11. LiveClosed'
  BY <1>1, <1>2, <1>3, <1>6, <1>7, LiveClosedKept
<1>12. \A q \in Positions' : At(q)'.forward = Null
  BY <1>1, <1>2, <1>3 DEF Forwards
<1>13. Forwards' /\ FixedAway'
  BY <1>1, <1>12 DEF Forwards, FixedAway
<1> QED BY <1>9, <1>10, <1>11, <1>13 DEF RInv

LEMMA classify_pageReach ==
    ASSUME IInv, RInv, IInv', classify_page, missed' = missed
    PROVE  RInv'
<1>1. /\ pc = "classify" /\ pc' = pc /\ curr # <<>> /\ curr' = Tail(curr)
      /\ UNCHANGED <<cell, raw, want, big>>
  BY DEF classify_page, programVars
<1>2. Placed /\ Flags /\ LiveClosed /\ Forwards
  BY DEF RInv
<1> DEFINE h == Head(curr)
<1>3. /\ ListInv /\ curr \in Seq(Pages) /\ pages \in Seq(Pages) /\ Uniq(pages)
      /\ alive_pages \in Seq(Pages) /\ Uniq(alive_pages) /\ Old \cap Alive = {}
      /\ BlocksTyped
  BY DEF IInv, ListInv, ListTypes, Parted, Old, Alive
<1>4. /\ curr_page \in 1..Len(pages) /\ h = pages[curr_page] /\ h \in Pages
      /\ h \in Old
  BY <1>1, <1>3, CurrPage DEF Old
<1>5. \A p \in ToSet(curr) : p = h \/ p \in ToSet(curr')
  <2>1. /\ Len(curr) \in Nat \ {0}
        /\ Len(Tail(curr)) = Len(curr) - 1 /\ Tail(curr) \in Seq(Pages)
        /\ \A i \in 1..Len(curr) - 1 : Tail(curr)[i] = curr[i + 1]
        /\ \A x \in ToSet(curr) : \E i \in 1..Len(curr) : curr[i] = x
        /\ \A i \in 1..Len(Tail(curr)) : Tail(curr)[i] \in ToSet(Tail(curr))
    <3>1. /\ Tail(curr) \in Seq(Pages) /\ Len(Tail(curr)) = Len(curr) - 1
          /\ \A i \in 1..Len(curr) - 1 : Tail(curr)[i] = curr[i + 1]
      BY <1>1, <1>3, HeadTailProperties
    <3>2. \A i \in 1..Len(Tail(curr)) : Tail(curr)[i] \in ToSet(Tail(curr))
      BY <3>1, Elements
    <3>3. Len(curr) \in Nat \ {0} /\ \A x \in ToSet(curr) : \E i \in 1..Len(curr) : curr[i] = x
      BY <1>1, <1>3, Elements
    <3> QED BY <3>1, <3>2, <3>3
  <2>2. ASSUME NEW i \in 1..Len(curr), i # 1
        PROVE  curr[i] \in ToSet(Tail(curr))
    <3>1. i - 1 \in 1..Len(curr) - 1 /\ (i - 1) + 1 = i
      BY <2>1, <2>2
    <3> QED BY <2>1, <3>1
  <2>3. h = curr[1]
    BY <1>1, <1>3
  <2> QED BY <1>1, <2>1, <2>2, <2>3
<1>6. CASE ~HasPinned(h)
  <2>1. UNCHANGED <<block, pages, alive_pages>>
    BY <1>6 DEF classify_page, listVars
  <2>2. Unmoved /\ Old' = Old /\ Alive' = Alive
    BY <1>1, <2>1, UnmovedBlocks DEF Old, Alive
  <2>3. \A q : (Settled(q)' <=> Settled(q))
    BY <1>1, <2>2 DEF Settled
  <2>4. \A q \in Positions : Live(q)' <=> Live(q)
    BY <2>2, <2>3 DEF Live, Unmoved
  <2>5. \A q \in Positions : q[1] = h => ~At(q).pinned
    <3>1. \A q \in Positions : q[1] = h => q[2] \in DOMAIN block[h] /\ At(q) = block[h][q[2]]
      BY <1>4, PlaceIs DEF Place, At, Pages
    <3> QED BY <1>6, <3>1 DEF HasPinned
  <2>6. Placed' /\ Forwards' /\ FixedAway'
    <3>1. Placed'
      BY <1>1, <1>2, <2>2 DEF Placed, Unmoved
    <3>2. Forwards' /\ FixedAway'
      BY <1>1, <1>2, <2>2 DEF Unmoved, Forwards, FixedAway
    <3> QED BY <3>1, <3>2
  <2>7. Flags'
    BY <1>1, <1>2, <1>5, <2>2, <2>3, <2>5 DEF Flags, Unmoved
  <2>8. LiveClosed'
    BY <1>1, <1>2, <2>2, <2>4, LiveClosedKept DEF Unmoved
  <2> QED BY <2>6, <2>7, <2>8 DEF RInv
<1>7. CASE HasPinned(h)
  <2>1. pages' = RemoveAt(pages, curr_page) /\ alive_pages' = <<h>> \o alive_pages
    BY <1>7 DEF classify_page
  <2>2. Old' = Old \ {h} /\ Alive' = Alive \cup {h}
    <3>1. ToSet(RemoveAt(pages, curr_page)) = ToSet(pages) \ {pages[curr_page]}
      BY <1>3, <1>4, Removed
    <3>2. h \notin ToSet(alive_pages)
      BY <1>3, <1>4 DEF Alive
    <3>3. ToSet(<<h>> \o alive_pages) = ToSet(alive_pages) \cup {h}
      BY <1>3, <1>4, <3>2, Prepended
    <3> QED BY <1>4, <2>1, <3>1, <3>3 DEF Old, Alive
  <2>3. /\ Positions' = Positions
        /\ \A q \in Positions :
               /\ At(q)'.obj = At(q).obj /\ At(q)'.field = At(q).field
               /\ At(q)'.forward = At(q).forward
               /\ q[1] # h => At(q)' = At(q)
               /\ q[1] = h =>
                      /\ ~At(q)'.marked /\ ~At(q)'.pinned
                      /\ At(q)'.dead <=> At(q).dead \/ (~At(q).marked /\ ~At(q).pinned)
    BY <1>3, <1>7, classify_pageBlocks
  <2> HIDE DEF h
  <2>4. \A q \in Positions : /\ q[1] # h => (Settled(q)' <=> Settled(q))
                             /\ q[1] = h => Settled(q)' /\ ~Settled(q)
    BY <1>1, <1>4, <2>2 DEF Settled
  <2>5. \A q \in Positions : ~Settled(q) /\ At(q).pinned => At(q).marked
    <3>1. ASSUME NEW q \in Positions, ~Settled(q), At(q).pinned
          PROVE  At(q).marked
      <4>1. PICK p \in Raws : raw[p] = q
        BY <1>2, <3>1 DEF Flags
      <4>2. q # Null
        BY <1>3, PlaceTyped
      <4> QED BY <1>2, <3>1, <4>1, <4>2 DEF LiveClosed, Valid, Live
    <3> QED BY <3>1
  <2>6. \A q \in Positions : Live(q)' <=> Live(q)
    <3>1. ASSUME NEW q \in Positions
          PROVE  Live(q)' <=> Live(q)
      <4>1. CASE q[1] # h
        BY <2>3, <2>4, <4>1 DEF Live
      <4>2. CASE q[1] = h
        <5>1. At(q).marked => ~At(q).dead
          BY <1>2, <2>4, <4>2 DEF Flags
        <5> QED BY <2>3, <2>4, <2>5, <4>2, <5>1 DEF Live
      <4> QED BY <4>1, <4>2
    <3> QED BY <3>1
  <2>7. Placed'
    <3>1. ASSUME NEW q \in Positions
          PROVE  /\ q[1] = 0 \/ q[1] \in Old' \cup Alive'
                 /\ DOMAIN At(q)'.field = 1..FieldCount[At(q)'.obj]
                 /\ q[1] = 0 => ~At(q)'.dead /\ FieldCount[At(q)'.obj] = 0
      <4>1. h # 0
        BY <1>4 DEF Pages
      <4> QED BY <1>2, <2>2, <2>3, <4>1 DEF Placed
    <3> QED BY <1>1, <1>2, <2>3, <3>1 DEF Placed
  <2>8. Flags'
    <3>1. ASSUME NEW q \in Positions
          PROVE  /\ Settled(q)' => ~At(q)'.marked /\ ~At(q)'.pinned
                 /\ ~Settled(q)' => /\ At(q)'.marked => ~At(q)'.dead
                                    /\ At(q)'.pinned <=> \E p \in Raws : raw'[p] = q
                 /\ At(q)'.pinned => q[1] \in ToSet(curr')
      <4>1. CASE q[1] = h
        BY <2>3, <2>4, <4>1
      <4>2. CASE q[1] # h
        BY <1>1, <1>2, <1>5, <2>3, <2>4, <4>2 DEF Flags
      <4> QED BY <4>1, <4>2
    <3> QED BY <1>1, <2>3, <3>1 DEF Flags
  <2>9. LiveClosed'
    BY <1>1, <1>2, <2>3, <2>6, LiveClosedKept
  <2>10. \A q \in Positions : At(q)'.forward = Null /\ At(q).forward = Null
    BY <1>1, <1>2, <2>3 DEF Forwards
  <2>11. Forwards' /\ FixedAway'
    BY <1>1, <2>3, <2>10 DEF Forwards, FixedAway
  <2> QED BY <2>7, <2>8, <2>9, <2>11 DEF RInv
<1> QED BY <1>6, <1>7

LEMMA classify_doneReach ==
    ASSUME IInv, RInv, IInv', classify_done, missed' = missed
    PROVE  RInv'
<1>1. /\ pc = "classify" /\ pc' = "copy" /\ curr = <<>>
      /\ UNCHANGED <<cell, raw, block, big, want, pages, alive_pages, curr>>
  BY DEF classify_done, programVars, pageVars, listVars, sweepVars
<1>2. Placed /\ Flags /\ LiveClosed /\ Forwards
  BY DEF RInv
<1>3. Unmoved /\ Old' = Old /\ Alive' = Alive
  BY <1>1, UnmovedBlocks DEF Old, Alive
<1>4. \A q : Settled(q)' <=> Settled(q)
  BY <1>1, <1>3 DEF Settled
<1>5. \A q \in Positions : Live(q)' <=> Live(q)
  BY <1>3, <1>4 DEF Live, Unmoved
<1>6. Placed'
  BY <1>1, <1>2, <1>3 DEF Placed, Unmoved
<1>7. ToSet(curr) = {}
  BY <1>1, Nothing
<1>8. Flags'
  BY <1>1, <1>2, <1>3, <1>4, <1>7 DEF Flags, Unmoved
<1>9. LiveClosed'
  BY <1>1, <1>2, <1>3, <1>5, LiveClosedKept DEF Unmoved
<1>10. Forwards' /\ FixedAway'
  BY <1>1, <1>2, <1>3 DEF Forwards, FixedAway, Unmoved
<1> QED BY <1>6, <1>8, <1>9, <1>10 DEF RInv
-----------------------------------------------------------------------------
LEMMA first_alive_pageReach ==
    ASSUME IInv, RInv, IInv', first_alive_page, missed' = missed
    PROVE  RInv'
<1>1. /\ pc = "copy" /\ pc' = pc /\ alive_pages = <<>>
      /\ UNCHANGED <<cell, raw, block, big, want, pages, curr>>
  BY DEF first_alive_page, programVars, pageVars
<1>2. Placed /\ Flags /\ LiveClosed /\ Forwards
  BY DEF RInv
<1>3. Unmoved /\ Old' = Old /\ Alive = {}
  BY <1>1, UnmovedBlocks, Nothing DEF Old, Alive
<1>4. \A q : Settled(q)' <=> Settled(q)
  BY <1>1, <1>3 DEF Settled
<1>5. \A q \in Positions : Live(q)' <=> Live(q)
  BY <1>3, <1>4 DEF Live, Unmoved
<1>6. Placed'
  BY <1>1, <1>2, <1>3 DEF Placed, Unmoved
<1>7. Flags'
  BY <1>1, <1>2, <1>3, <1>4 DEF Flags, Unmoved
<1>8. LiveClosed'
  BY <1>1, <1>2, <1>3, <1>5, LiveClosedKept DEF Unmoved
<1>9. Forwards' /\ FixedAway'
  BY <1>1, <1>2, <1>3 DEF Forwards, FixedAway, Unmoved
<1> QED BY <1>6, <1>7, <1>8, <1>9 DEF RInv

(* copy_block copies the next block to a page outside the old ones.        *)
LEMMA copy_blockBlocks ==
    ASSUME IInv, copy_block
    PROVE  \E b, to : /\ b = NextBlock /\ Copied(b, to)
                      /\ to \in Pointers /\ to # Null
                      /\ to[1] \in Pages /\ to[1] \notin Old
                      /\ Alive' = Alive \cup {to[1]}
<1>1. WaitingPages # {} /\ big' = big
  BY DEF copy_block
<1>2. /\ ListInv /\ pages \in Seq(Pages) /\ alive_pages \in Seq(Pages) /\ Uniq(alive_pages)
      /\ Old \cap Alive = {}
      /\ free_blocks \in [1..Threshold -> Seq(Pages)] /\ max_free_block \in 0..Threshold
      /\ Roomy(free_blocks, max_free_block, Alive, free)
      /\ Threshold \in Nat \ {0} /\ TRUE \in BOOLEAN
  BY ConstantsAssumption DEF IInv, ListInv, ListTypes, Parted, Old, Alive
<1>3. At(NextBlock).size \in 1..Threshold
  BY <1>1, NextBlockIs
<1>4. ASSUME NEW p \in Pages, p \notin Old, NEW fb, CopyTo(p, fb),
             Alive' = Alive \cup {p}
      PROVE  \E b, to : /\ b = NextBlock /\ Copied(b, to)
                        /\ to \in Pointers /\ to # Null
                        /\ to[1] \in Pages /\ to[1] \notin Old
                        /\ Alive' = Alive \cup {to[1]}
  <2>1. PICK b, to : /\ b = NextBlock /\ to[1] = p /\ to \in Pointers /\ to # Null
                     /\ Copied(b, to)
    BY <1>1, <1>4, CopyToBlocks DEF Old
  <2> QED BY <1>4, <2>1
<1>5. ASSUME NEW f \in Fits, f = Min(Fits),
             CopyTo(Head(free_blocks[f]), [free_blocks EXCEPT ![f] = Tail(@)]),
             alive_pages' = alive_pages
      PROVE  \E p \in Pages : \E fb : p \notin Old /\ CopyTo(p, fb) /\ Alive' = Alive \cup {p}
  <2>1. f \in At(NextBlock).size..max_free_block /\ free_blocks[f] # <<>>
    BY <1>5 DEF Fits
  <2>2. f \in 1..Threshold
    BY <1>2, <1>3, <2>1
  <2> DEFINE p  == Head(free_blocks[f])
             fb == [free_blocks EXCEPT ![f] = Tail(@)]
  <2>3. p \in Pages /\ p \in Alive
    BY <1>2, <2>1, <2>2, RoomTaken
  <2>4. CopyTo(p, fb)
    BY <1>5
  <2> HIDE DEF p, fb
  <2>5. Alive' = Alive \cup {p} /\ p \notin Old
    BY <1>2, <1>5, <2>3 DEF Alive
  <2> QED BY <2>3, <2>4, <2>5
<1>6. ASSUME NEW p \in Pages, request_new_page(p, TRUE),
             alive_pages' = Append(alive_pages, p)
      PROVE  p \notin Old /\ Alive' = Alive \cup {p}
  <2>1. p \notin Old /\ p \notin Alive
    BY <1>2, <1>6, RequestGives DEF Old, Alive
  <2>2. ToSet(Append(alive_pages, p)) = ToSet(alive_pages) \cup {p}
    BY <1>2, <2>1, Appended DEF Alive
  <2> QED BY <1>6, <2>1, <2>2 DEF Alive
<1>7. Fits # {} => Min(Fits) \in Fits
  <2>1. Fits \in SUBSET Nat
    BY <1>2, <1>3 DEF Fits
  <2> QED BY <2>1, HasLeast
<1>8. CASE Fits # {}
  <2>1. PICK f \in Fits : f = Min(Fits)
    BY <1>7, <1>8
  <2>2. /\ CopyTo(Head(free_blocks[f]), [free_blocks EXCEPT ![f] = Tail(@)])
        /\ alive_pages' = alive_pages
    BY <1>8, <2>1 DEF copy_block
  <2>3. PICK p \in Pages : \E fb : p \notin Old /\ CopyTo(p, fb) /\ Alive' = Alive \cup {p}
    BY <2>1, <2>2, <1>5
  <2>4. PICK fb : p \notin Old /\ CopyTo(p, fb) /\ Alive' = Alive \cup {p}
    BY <2>3
  <2> QED BY <2>4, <1>4
<1>9. CASE Fits = {}
  <2>1. PICK p \in Pages : /\ request_new_page(p, TRUE)
                           /\ alive_pages' = Append(alive_pages, p)
                           /\ CopyTo(p, free_blocks)
    BY <1>9 DEF copy_block
  <2> QED BY <2>1, <1>4, <1>6
<1> QED BY <1>8, <1>9

LEMMA copy_blockReach ==
    ASSUME IInv, RInv, IInv', copy_block, missed' = missed
    PROVE  RInv'
<1>1. /\ pc = "copy" /\ pc' = pc /\ WaitingPages # {}
      /\ UNCHANGED <<cell, raw, want, pages, curr>>
  BY DEF copy_block, programVars
<1>2. Placed /\ Flags /\ LiveClosed /\ Forwards
  BY DEF RInv
<1>3. PICK b, to : /\ b = NextBlock /\ Copied(b, to)
                   /\ to \in Pointers /\ to # Null
                   /\ to[1] \in Pages /\ to[1] \notin Old
                   /\ Alive' = Alive \cup {to[1]}
  BY copy_blockBlocks
<1>4. b[1] \in Old /\ At(b).marked /\ At(b).forward = Null
  BY <1>1, <1>3, NextBlockIs DEF Old
<1>5. /\ \A q : q \in Positions' <=> q \in Positions \/ q = to
      /\ to \notin Positions /\ b \in Positions /\ b # to
      /\ At(to)'.obj = At(b).obj /\ At(to)'.field = At(b).field
      /\ At(to)'.forward = At(b).forward
      /\ ~At(to)'.marked /\ ~At(to)'.pinned /\ ~At(to)'.dead
      /\ At(b)'.obj = At(b).obj /\ At(b)'.field = At(b).field
      /\ At(b)'.forward = to
      /\ At(b)'.marked = At(b).marked /\ At(b)'.pinned = At(b).pinned
      /\ At(b)'.dead = At(b).dead
      /\ \A q \in Positions \ {b} : At(q)' = At(q)
  BY <1>3 DEF Copied
<1>6. Old' = Old /\ to[1] # 0 /\ Null \notin Positions
  BY <1>1, <1>3, PlaceTyped DEF Old, Pages, IInv
<1>7. \A q : Settled(q)' <=> Settled(q)
  BY <1>1, <1>6 DEF Settled
<1>8. Settled(to) /\ ~Settled(b)
  BY <1>1, <1>3, <1>4 DEF Settled
<1>9. /\ \A q \in Positions : Live(q)' <=> Live(q)
      /\ Live(b) /\ Live(to)'
  <2>1. \A q \in Positions : At(q)'.dead = At(q).dead /\ At(q)'.marked = At(q).marked
    BY <1>5
  <2>2. \A q \in Positions : Live(q)' <=> Live(q)
    BY <1>7, <2>1 DEF Live
  <2>3. Live(b)
    BY <1>4, <1>8 DEF Live
  <2>4. Live(to)'
    BY <1>5, <1>7, <1>8 DEF Live
  <2> QED BY <2>2, <2>3, <2>4
<1>10. Placed'
  <2>1. ASSUME NEW q \in Positions'
        PROVE  /\ q[1] = 0 \/ q[1] \in Old' \cup Alive'
               /\ DOMAIN At(q)'.field = 1..FieldCount[At(q)'.obj]
               /\ q[1] = 0 => ~At(q)'.dead /\ FieldCount[At(q)'.obj] = 0
    BY <1>2, <1>3, <1>4, <1>5, <1>6 DEF Placed
  <2> QED BY <1>1, <1>2, <2>1 DEF Placed
<1>11. Flags'
  <2>1. ASSUME NEW q \in Positions'
        PROVE  /\ Settled(q)' => ~At(q)'.marked /\ ~At(q)'.pinned
               /\ ~Settled(q)' => /\ At(q)'.marked => ~At(q)'.dead
                                  /\ At(q)'.pinned <=> \E p \in Raws : raw'[p] = q
               /\ ~At(q)'.pinned
    <3>1. CASE q = to
      BY <1>5, <1>7, <1>8, <3>1
    <3>2. CASE q # to
      <4>1. /\ q \in Positions /\ At(q)'.marked = At(q).marked
            /\ At(q)'.pinned = At(q).pinned /\ At(q)'.dead = At(q).dead
        BY <1>5, <3>2
      <4> QED BY <1>1, <1>2, <1>7, <4>1 DEF Flags
    <3> QED BY <3>1, <3>2
  <2> QED BY <1>1, <2>1 DEF Flags
<1>12. LiveClosed'
  <2>1. \A q : Valid(q) => Valid(q)'
    BY <1>5, <1>9 DEF Valid
  <2>2. ASSUME ~missed', NEW q \in Positions', Live(q)', NEW i \in (DOMAIN At(q).field)'
        PROVE  Valid(At(q).field[i])'
    <3>1. PICK r \in Positions : Live(r) /\ At(q)'.field = At(r).field
      BY <1>5, <1>9, <2>2
    <3>2. Valid(At(r).field[i])
      BY <1>2, <2>2, <3>1 DEF LiveClosed
    <3> QED BY <2>1, <3>1, <3>2
  <2>3. (\A x \in Cells : Valid(cell[x])') /\ \A p \in Raws : Valid(raw[p])'
    BY <1>1, <1>2, <2>1 DEF LiveClosed
  <2> QED BY <2>2, <2>3 DEF LiveClosed
<1>13. Forwards'
  <2>1. ASSUME NEW q \in Positions', At(q)'.forward # Null
        PROVE  \E r : /\ r = At(q)'.forward /\ q[1] \in Old /\ At(q)'.marked
                      /\ r \in Positions' /\ r[1] \in Alive' /\ ~At(r)'.dead
                      /\ At(r)'.field = At(q)'.field
    <3>1. CASE q = b
      BY <1>3, <1>4, <1>5, <3>1
    <3>2. CASE q # b
      <4>1. q \in Positions /\ At(q)' = At(q)
        BY <1>4, <1>5, <2>1, <3>2
      <4>2. PICK r : r = At(q).forward
        OBVIOUS
      <4>3. /\ q[1] \in Old /\ At(q).marked /\ r \in Positions /\ r[1] \in Alive
            /\ ~At(r).dead /\ At(r).field = At(q).field
        BY <1>1, <1>2, <2>1, <4>1, <4>2 DEF Forwards
      <4>4. r # b
        BY <1>4, <4>3, ListsOfPages
      <4> QED BY <1>3, <1>5, <4>1, <4>2, <4>3, <4>4
    <3> QED BY <3>1, <3>2
  <2> QED BY <1>1, <1>6, <2>1 DEF Forwards
<1>14. FixedAway'
  BY <1>1 DEF FixedAway
<1> QED BY <1>10, <1>11, <1>12, <1>13, <1>14 DEF RInv
-----------------------------------------------------------------------------
(* When everything is copied, fix_ptr leads from what is live to what is   *)
(* live and stays.                                                         *)
LEMMA FixedIsValid ==
    ASSUME IInv, RInv, pc \in {"copy", "fix", "release"},
           \A q \in Positions : q[1] \in Old /\ At(q).marked => At(q).forward # Null
    PROVE  /\ \A q : Valid(q) => Valid(fix_ptr(q)) /\ Away(fix_ptr(q))
           /\ \A q : q = Null \/ q[1] \notin Old => (Valid(q) => fix_ptr(q) = q)
           /\ \A q \in Positions : q[1] \in Old /\ At(q).marked => fix_ptr(q) = At(q).forward
<1>1. Placed /\ Flags /\ LiveClosed /\ Forwards
  BY DEF RInv
<1>2. \A q \in Positions : q # Null /\ Allocated(q)
  BY PlaceTyped DEF IInv
<1>3. Old \cap Alive = {}
  BY ListsOfPages
<1>4. \A q \in Positions : Settled(q) <=> q[1] \notin Old
  BY DEF Settled
<1>5. ASSUME NEW q \in Positions, q[1] \in Old, At(q).marked
      PROVE  fix_ptr(q) = At(q).forward
  BY <1>2, <1>5 DEF fix_ptr
<1>6. ASSUME NEW q, q = Null \/ q[1] \notin Old, Valid(q)
      PROVE  fix_ptr(q) = q
  <2>1. q = Null \/ (q \in Positions /\ ~At(q).marked)
    BY <1>1, <1>4, <1>6 DEF Valid, Flags
  <2> QED BY <2>1 DEF fix_ptr
<1>7. ASSUME NEW q, Valid(q)
      PROVE  Valid(fix_ptr(q)) /\ Away(fix_ptr(q))
  <2>1. CASE q = Null \/ q[1] \notin Old
    BY <1>6, <1>7, <2>1 DEF Away
  <2>2. CASE ~(q = Null \/ q[1] \notin Old)
    <3>1. q \in Positions /\ q[1] \in Old /\ At(q).marked
      BY <1>4, <1>7, <2>2 DEF Valid, Live
    <3>2. PICK r : r = At(q).forward
      OBVIOUS
    <3>3. r \in Positions /\ r[1] \in Alive /\ ~At(r).dead
      BY <1>1, <3>1, <3>2 DEF Forwards
    <3>4. fix_ptr(q) = r
      BY <1>5, <3>1, <3>2
    <3>5. r[1] \notin Old
      BY <1>3, <3>3
    <3>6. Live(r)
      BY <1>4, <3>3, <3>5 DEF Live
    <3> QED BY <3>3, <3>4, <3>5, <3>6 DEF Valid, Away
  <2> QED BY <2>1, <2>2
<1> QED BY <1>5, <1>6, <1>7

\* What the loop over the surviving pages does.
FieldsFixed(q) == [i \in DOMAIN At(q).field |-> fix_ptr(At(q).field[i])]

LEMMA fix_pagesFields ==
    ASSUME BlocksTyped, alive_pages \in Seq(Pages), fix_pages
    PROVE  /\ Positions' = Positions
           /\ \A q \in Positions :
                  /\ At(q)'.obj = At(q).obj /\ At(q)'.forward = At(q).forward
                  /\ At(q)'.marked = At(q).marked /\ At(q)'.pinned = At(q).pinned
                  /\ At(q)'.dead = At(q).dead
                  /\ At(q)'.field = IF q[1] \in Alive /\ ~At(q).dead
                                    THEN FieldsFixed(q) ELSE At(q).field
<1>1. /\ Positions' = Positions
      /\ \A q \in Positions : At(q)' = IF q[1] \in Alive THEN FixFields(At(q)) ELSE At(q)
  BY fix_pagesBlocks DEF Alive
<1>2. ASSUME NEW x \in Block
      PROVE  /\ FixFields(x).obj = x.obj /\ FixFields(x).forward = x.forward
             /\ FixFields(x).marked = x.marked /\ FixFields(x).pinned = x.pinned
             /\ FixFields(x).dead = x.dead
             /\ FixFields(x).field = IF x.dead THEN x.field
                                     ELSE [i \in DOMAIN x.field |-> fix_ptr(x.field[i])]
  <2> DEFINE f == [i \in DOMAIN x.field |-> fix_ptr(x.field[i])]
  <2>1. FixFields(x) = IF x.dead THEN x ELSE [x EXCEPT !.field = f]
    BY DEF FixFields
  <2> HIDE DEF f
  <2> QED BY <2>1 DEF f, Block
<1>3. \A q \in Positions : At(q) \in Block
  BY PlaceTyped
<1> QED BY <1>1, <1>2, <1>3 DEF FieldsFixed

LEMMA fix_pagesReach ==
    ASSUME IInv, RInv, IInv', fix_pages, missed' = missed
    PROVE  RInv'
<1>1. /\ pc = "copy" /\ pc' = "fix" /\ WaitingPages = {}
      /\ UNCHANGED <<cell, raw, want, pages, alive_pages, curr>>
  BY DEF fix_pages, programVars, listVars, sweepVars
<1>2. Placed /\ Flags /\ LiveClosed /\ Forwards
  BY DEF RInv
<1>3. /\ BlocksTyped /\ ProgramTyped /\ pages \in Seq(Pages) /\ alive_pages \in Seq(Pages)
      /\ Old' = Old /\ Alive' = Alive /\ Old \cap Alive = {} /\ 0 \notin Old
      /\ \A q \in Positions : q # Null /\ Allocated(q)
  <2>1. \A q \in Positions : q # Null /\ Allocated(q)
    BY PlaceTyped DEF IInv
  <2> QED BY <1>1, <2>1, ListsOfPages DEF IInv, ListInv, ListTypes, Old, Alive
<1>4. /\ Positions' = Positions
      /\ \A q \in Positions :
             /\ At(q)'.obj = At(q).obj /\ At(q)'.forward = At(q).forward
             /\ At(q)'.marked = At(q).marked /\ At(q)'.pinned = At(q).pinned
             /\ At(q)'.dead = At(q).dead
             /\ At(q)'.field = IF q[1] \in Alive /\ ~At(q).dead
                               THEN FieldsFixed(q) ELSE At(q).field
  BY <1>3, fix_pagesFields
<1>5. \A q \in Positions : q[1] \in Old /\ At(q).marked => At(q).forward # Null
  <2>1. ASSUME NEW q \in Positions, q[1] \in Old, At(q).marked, At(q).forward = Null
        PROVE  FALSE
    <3>1. PICK n \in DOMAIN pages : pages[n] = q[1]
      <4>1. pages \in Seq(Pages) /\ q[1] \in ToSet(pages)
        BY <1>3, <2>1 DEF Old
      <4>2. DOMAIN pages = 1..Len(pages) /\ \E i \in 1..Len(pages) : pages[i] = q[1]
        BY <4>1, Elements
      <4> QED BY <4>2
    <3>2. q[2] \in DOMAIN block[q[1]] /\ At(q) = block[q[1]][q[2]]
      BY <1>3, <2>1, PlaceIs DEF Place, At
    <3>3. q[2] \in Waiting(pages[n])
      BY <2>1, <3>1, <3>2 DEF Waiting
    <3> QED BY <1>1, <3>3 DEF WaitingPages
  <2> QED BY <2>1
<1>6. /\ \A q : Valid(q) => Valid(fix_ptr(q)) /\ Away(fix_ptr(q))
      /\ \A q : q = Null \/ q[1] \notin Old => (Valid(q) => fix_ptr(q) = q)
      /\ \A q \in Positions : q[1] \in Old /\ At(q).marked => fix_ptr(q) = At(q).forward
  BY <1>1, <1>5, FixedIsValid
<1>7. \A q : Settled(q)' <=> Settled(q)
  BY <1>1, <1>3 DEF Settled
<1>8. /\ \A q \in Positions : Live(q)' <=> Live(q)
      /\ \A q \in Positions : q[1] \notin Old /\ ~At(q).dead => Live(q)
      /\ \A q : Valid(q)' <=> Valid(q)
      /\ \A q : Away(q)' <=> Away(q)
  BY <1>1, <1>3, <1>4, <1>7 DEF Live, Settled, Valid, Away
<1>9. \A q \in Positions : DOMAIN At(q)'.field = DOMAIN At(q).field
  BY <1>4 DEF FieldsFixed
<1>10. Placed'
  BY <1>1, <1>2, <1>3, <1>4, <1>9 DEF Placed
<1>11. Flags'
  BY <1>1, <1>2, <1>4, <1>7 DEF Flags
<1>12. LiveClosed'
  <2>1. ASSUME ~missed, NEW q \in Positions, Live(q), NEW i \in DOMAIN At(q).field
        PROVE  Valid(At(q).field[i])'
    <3>1. Valid(At(q).field[i])
      BY <1>2, <2>1 DEF LiveClosed
    <3>2. PICK v : v = At(q).field[i]
      OBVIOUS
    <3>3. PICK w : w = fix_ptr(v)
      OBVIOUS
    <3>4. At(q)'.field[i] \in {v, w}
      BY <1>4, <3>2, <3>3 DEF FieldsFixed
    <3>5. Valid(v) /\ Valid(w)
      BY <1>6, <3>1, <3>2, <3>3
    <3> QED BY <1>8, <3>4, <3>5
  <2>2. (\A x \in Cells : Valid(cell[x])') /\ \A p \in Raws : Valid(raw[p])'
    BY <1>1, <1>2, <1>8 DEF LiveClosed
  <2> QED BY <1>4, <1>8, <1>9, <2>1, <2>2 DEF LiveClosed
<1>13. Forwards'
  <2>1. ASSUME NEW q \in Positions, At(q).forward # Null
        PROVE  \E r : /\ r = At(q)'.forward /\ q[1] \in Old /\ At(q)'.marked
                      /\ r \in Positions /\ r[1] \in Alive /\ ~At(r)'.dead
    <3>1. PICK r : r = At(q).forward
      OBVIOUS
    <3>2. q[1] \in Old /\ At(q).marked /\ r \in Positions /\ r[1] \in Alive /\ ~At(r).dead
      BY <1>2, <2>1, <3>1 DEF Forwards
    <3> QED BY <1>4, <3>1, <3>2
  <2> QED BY <1>1, <1>3, <1>4, <1>5, <2>1 DEF Forwards
<1>14. FixedAway'
  <2>1. ASSUME ~missed, NEW q \in Positions, q[1] \notin Old, ~At(q).dead,
               NEW i \in DOMAIN At(q).field
        PROVE  Away(At(q).field[i])'
    <3>1. q[1] \in Alive
      <4>1. q[1] = 0 => DOMAIN At(q).field = 1..0
        BY <1>2 DEF Placed
      <4> QED BY <1>2, <2>1, <4>1 DEF Placed
    <3>2. PICK w : w = fix_ptr(At(q).field[i])
      OBVIOUS
    <3>3. At(q)'.field[i] = w
      BY <1>4, <2>1, <3>1, <3>2 DEF FieldsFixed
    <3>4. Away(w)
      <4>1. Valid(At(q).field[i])
        BY <1>2, <1>8, <2>1 DEF LiveClosed
      <4> QED BY <1>6, <3>2, <4>1
    <3> QED BY <1>8, <3>3, <3>4
  <2> QED BY <1>1, <1>3, <1>4, <1>9, <2>1 DEF FixedAway
<1> QED BY <1>10, <1>11, <1>12, <1>13, <1>14 DEF RInv

LEMMA fix_rootsReach ==
    ASSUME IInv, RInv, IInv', fix_roots, missed' = missed
    PROVE  RInv'
<1>1. /\ pc = "fix" /\ pc' = "release"
      /\ cell' = [x \in Cells |-> fix_ptr(cell[x])]
      /\ UNCHANGED <<raw, block, big, want, pages, alive_pages, curr>>
  BY DEF fix_roots, Fixed, pageVars, listVars, sweepVars
<1>2. Placed /\ Flags /\ LiveClosed /\ Forwards /\ FixedAway
  BY DEF RInv
<1>3. Unmoved /\ Old' = Old /\ Alive' = Alive
  BY <1>1, UnmovedBlocks DEF Old, Alive
<1>4. \A q : Settled(q)' <=> Settled(q)
  BY <1>1, <1>3 DEF Settled
<1>5. /\ \A q \in Positions : Live(q)' <=> Live(q)
      /\ \A q : Valid(q)' <=> Valid(q)
      /\ \A q : Away(q)' <=> Away(q)
  BY <1>3, <1>4 DEF Live, Unmoved, Valid, Away
<1>6. \A q : Valid(q) => Valid(fix_ptr(q)) /\ Away(fix_ptr(q))
  BY <1>1, <1>2, FixedIsValid DEF Forwards
<1>7. \A x \in Cells : cell'[x] = fix_ptr(cell[x])
  BY <1>1
<1>8. Placed'
  BY <1>1, <1>2, <1>3 DEF Placed, Unmoved
<1>9. Flags'
  BY <1>1, <1>2, <1>3, <1>4 DEF Flags, Unmoved
<1>10. LiveClosed'
  <2>1. ASSUME NEW x \in Cells
        PROVE  Valid(cell[x])'
    <3>1. PICK w : w = fix_ptr(cell[x])
      OBVIOUS
    <3>2. Valid(w)
      BY <1>2, <1>6, <3>1 DEF LiveClosed
    <3> QED BY <1>5, <1>7, <3>1, <3>2
  <2>2. \A p \in Raws : Valid(raw[p])'
    BY <1>1, <1>2, <1>5 DEF LiveClosed
  <2>3. ASSUME ~missed, NEW q \in Positions, Live(q), NEW i \in DOMAIN At(q).field
        PROVE  Valid(At(q).field[i])'
    BY <1>2, <1>3, <1>5, <2>3 DEF LiveClosed, Unmoved
  <2> QED BY <1>3, <1>5, <2>1, <2>2, <2>3 DEF LiveClosed, Unmoved
<1>11. Forwards'
  BY <1>1, <1>2, <1>3 DEF Forwards, Unmoved
<1>12. FixedAway'
  <2>1. ASSUME NEW x \in Cells
        PROVE  Away(cell[x])'
    <3>1. PICK w : w = fix_ptr(cell[x])
      OBVIOUS
    <3>2. Away(w)
      BY <1>2, <1>6, <3>1 DEF LiveClosed
    <3> QED BY <1>5, <1>7, <3>1, <3>2
  <2>2. ASSUME ~missed, NEW q \in Positions, q[1] \notin Old, ~At(q).dead,
               NEW i \in DOMAIN At(q).field
        PROVE  Away(At(q).field[i])'
    BY <1>1, <1>2, <1>3, <1>5, <2>2 DEF FixedAway, Unmoved
  <2> QED BY <1>1, <1>3, <2>1, <2>2 DEF FixedAway, Unmoved
<1> QED BY <1>8, <1>9, <1>10, <1>11, <1>12 DEF RInv

LEMMA releaseReach ==
    ASSUME IInv, RInv, IInv', release, missed' = missed
    PROVE  RInv'
<1>1. /\ pc = "release" /\ pc' = "run" /\ pages' = alive_pages /\ alive_pages' = <<>>
      /\ UNCHANGED <<cell, raw, curr>>
      /\ want' = [t \in Threads |-> IF Asks(t, "gc")
                                    THEN [want[t] EXCEPT !.stage = "retry"]
                                    ELSE want[t]]
  BY DEF release, programVars
<1>2. Placed /\ Flags /\ LiveClosed /\ Forwards /\ FixedAway
  BY DEF RInv
<1>3. /\ \A q : q \in Positions' <=> q \in Positions /\ q[1] \notin Old
      /\ \A q \in Positions' : At(q)' = At(q)
  BY releaseBlocks, ListsOfPages DEF IInv, Old
<1>4. Old' = Alive
  BY <1>1 DEF Old, Alive
<1>5. \A q \in Positions : Settled(q) <=> q[1] \notin Old
  BY <1>1 DEF Settled
<1>6. \A q : Settled(q)'
  BY <1>1 DEF Settled
<1>7. /\ \A q \in Positions' : Live(q)' <=> Live(q)
      /\ \A q : Valid(q) /\ Away(q) => Valid(q)'
  BY <1>3, <1>5, <1>6 DEF Live, Valid, Away
<1>8. Placed'
  <2>1. ASSUME NEW t \in Threads, want'[t] # Null
        PROVE  want'[t].size \in Sizes[want'[t].obj]
    <3>1. want[t] \in Request \cup {Null}
      BY DEF IInv, ProgramTyped
    <3>2. CASE Asks(t, "gc")
      <4>1. want[t] \in Request /\ want[t].size \in Sizes[want[t].obj]
        BY <1>2, <3>1, <3>2 DEF Asks, Placed
      <4>2. want'[t] = [want[t] EXCEPT !.stage = "retry"]
        BY <1>1, <3>2
      <4> QED BY <4>1, <4>2 DEF Request
    <3>3. CASE ~Asks(t, "gc")
      BY <1>1, <1>2, <2>1, <3>3 DEF Placed
    <3> QED BY <3>2, <3>3
  <2> QED BY <1>1, <1>2, <1>3, <1>4, <2>1 DEF Placed
<1>9. Flags'
  <2>1. \A q \in Positions' : ~At(q)'.marked /\ ~At(q)'.pinned
    BY <1>2, <1>3, <1>5 DEF Flags
  <2> QED BY <1>6, <2>1 DEF Flags
<1>10. LiveClosed'
  <2>1. \A x \in Cells : Valid(cell[x])'
    BY <1>1, <1>2, <1>7 DEF LiveClosed, FixedAway
  <2>2. ASSUME NEW p \in Raws
        PROVE  Valid(raw[p])'
    <3>1. Valid(raw[p])
      BY <1>2 DEF LiveClosed
    <3>2. Away(raw[p])
      BY <1>1, <1>2, <1>5, <3>1 DEF Away, Valid, Flags
    <3> QED BY <1>1, <1>7, <3>1, <3>2
  <2>3. ASSUME ~missed, NEW q \in Positions', Live(q)', NEW i \in DOMAIN At(q).field
        PROVE  Valid(At(q).field[i])'
    <3>1. q \in Positions /\ Live(q) /\ q[1] \notin Old /\ ~At(q).dead /\ At(q)' = At(q)
      BY <1>3, <1>5, <1>7, <2>3 DEF Live
    <3>2. Valid(At(q).field[i]) /\ Away(At(q).field[i])
      BY <1>1, <1>2, <2>3, <3>1 DEF LiveClosed, FixedAway
    <3> QED BY <1>7, <3>1, <3>2
  <2> QED BY <1>3, <2>1, <2>2, <2>3 DEF LiveClosed
<1>11. Forwards' /\ FixedAway'
  <2>1. \A q \in Positions' : At(q)'.forward = Null
    BY <1>2, <1>3 DEF Forwards
  <2> QED BY <1>1, <2>1 DEF Forwards, FixedAway
<1> QED BY <1>8, <1>9, <1>10, <1>11 DEF RInv

-----------------------------------------------------------------------------
(* Between two collections.                                                *)
Clean == \A q \in Positions :
    ~At(q).marked /\ ~At(q).pinned /\ At(q).forward = Null

LEMMA AtRest ==
    ASSUME pc = "run"
    PROVE  /\ RInv <=> Placed /\ LiveClosed /\ Clean
           /\ \A q : Live(q) <=> ~At(q).dead
<1>1. \A q : Settled(q)
  BY DEF Settled
<1>2. \A q : Live(q) <=> ~At(q).dead
  BY <1>1 DEF Live
<1>3. Flags <=> \A q \in Positions : ~At(q).marked /\ ~At(q).pinned
  BY <1>1 DEF Flags
<1>4. Forwards <=> \A q \in Positions : At(q).forward = Null
  BY DEF Forwards
<1>5. FixedAway
  BY DEF FixedAway
<1> QED BY <1>2, <1>3, <1>4, <1>5 DEF RInv, Clean

LEMMA AtRestNext ==
    (pc = "run" => /\ RInv <=> Placed /\ LiveClosed /\ Clean
                   /\ \A q : Live(q) <=> ~At(q).dead)'
<1>1. pc = "run" => /\ RInv <=> Placed /\ LiveClosed /\ Clean
                    /\ \A q : Live(q) <=> ~At(q).dead
  BY AtRest
<1> QED BY <1>1, PTL

LEMMA VariablesReach ==
    ASSUME IInv, RInv, pc = "run", pc' = pc, ~missed, missed' = missed,
           block' = block, big' = big,
           UNCHANGED <<pages, alive_pages, want, curr>>,
           \A x \in Cells : Valid(cell'[x]), \A p \in Raws : Valid(raw'[p])
    PROVE  RInv'
<1>1. Placed /\ LiveClosed /\ Clean /\ \A q : Live(q) <=> ~At(q).dead
  BY AtRest
<1>2. Positions' = Positions /\ \A q \in Positions : At(q)' = At(q)
  BY UnmovedBlocks DEF Unmoved
<1>3. Old' = Old /\ Alive' = Alive
  BY DEF Old, Alive
<1>4. \A q : Live(q)' <=> ~At(q)'.dead
  BY AtRestNext
<1>5. \A q : Valid(q) => Valid(q)'
  BY <1>1, <1>2, <1>4 DEF Valid
<1>6. Placed'
  BY <1>1, <1>2, <1>3 DEF Placed
<1>7. Clean'
  BY <1>1, <1>2 DEF Clean
<1>8. LiveClosed'
  <2>1. ASSUME NEW x \in Cells
        PROVE  Valid(cell[x])'
    BY <1>5
  <2>2. ASSUME NEW p \in Raws
        PROVE  Valid(raw[p])'
    BY <1>5
  <2>3. ASSUME NEW q \in Positions', Live(q)', NEW i \in (DOMAIN At(q).field)'
        PROVE  Valid(At(q).field[i])'
    <3>1. q \in Positions /\ Live(q) /\ At(q)' = At(q)
      BY <1>1, <1>2, <1>4, <2>3
    <3>2. Valid(At(q).field[i])
      BY <1>1, <2>3, <3>1 DEF LiveClosed
    <3> QED BY <1>5, <3>1, <3>2
  <2> QED BY <2>1, <2>2, <2>3 DEF LiveClosed
<1> QED BY <1>6, <1>7, <1>8, AtRestNext

LEMMA StoreReach ==
    ASSUME IInv, RInv, NEW q \in Positions, Live(q), NEW i \in DOMAIN At(q).field,
           NEW r, Valid(r), SetField(q, i, r), missed' = missed
    PROVE  RInv'
<1>1. /\ pc = "run" /\ pc' = "run" /\ ~missed
      /\ UNCHANGED <<cell, raw, pages, alive_pages, want, curr>>
  BY DEF SetField, Running, programVars, listVars, sweepVars
<1>2. Placed /\ LiveClosed /\ Clean /\ \A p : Live(p) <=> ~At(p).dead
  BY <1>1, AtRest
<1>3. /\ Positions' = Positions
      /\ \A p \in Positions \ {q} : At(p)' = At(p)
      /\ At(q)' = [At(q) EXCEPT !.field[i] = r]
  BY SetFieldBlocks DEF IInv
<1>4. At(q) \in Block
  BY PlaceTyped DEF IInv
<1>5. \A p \in Positions :
          /\ At(p)'.obj = At(p).obj /\ At(p)'.forward = At(p).forward
          /\ At(p)'.marked = At(p).marked /\ At(p)'.pinned = At(p).pinned
          /\ At(p)'.dead = At(p).dead
          /\ DOMAIN At(p)'.field = DOMAIN At(p).field
          /\ \A j \in DOMAIN At(p).field :
                 At(p)'.field[j] = IF p = q /\ j = i THEN r ELSE At(p).field[j]
  <2>1. /\ At(q)'.obj = At(q).obj /\ At(q)'.forward = At(q).forward
        /\ At(q)'.marked = At(q).marked /\ At(q)'.pinned = At(q).pinned
        /\ At(q)'.dead = At(q).dead /\ At(q)'.field = [At(q).field EXCEPT ![i] = r]
    BY <1>3, <1>4 DEF Block
  <2>2. /\ DOMAIN At(q)'.field = DOMAIN At(q).field
        /\ \A j \in DOMAIN At(q).field :
               At(q)'.field[j] = IF j = i THEN r ELSE At(q).field[j]
    BY <2>1
  <2> QED BY <1>3, <2>1, <2>2
<1>6. Old' = Old /\ Alive' = Alive
  BY <1>1 DEF Old, Alive
<1>7. \A p : Live(p)' <=> ~At(p)'.dead
  BY <1>1, AtRestNext
<1>8. \A p : Valid(p) => Valid(p)'
  BY <1>2, <1>3, <1>5, <1>7 DEF Valid
<1>9. Placed'
  BY <1>1, <1>2, <1>3, <1>5, <1>6 DEF Placed
<1>10. Clean'
  BY <1>2, <1>3, <1>5 DEF Clean
<1>11. LiveClosed'
  <2>1. \A x \in Cells : Valid(cell[x])'
    BY <1>1, <1>2, <1>8 DEF LiveClosed
  <2>2. \A p \in Raws : Valid(raw[p])'
    BY <1>1, <1>2, <1>8 DEF LiveClosed
  <2>3. ASSUME NEW p \in Positions', Live(p)', NEW j \in (DOMAIN At(p).field)'
        PROVE  Valid(At(p).field[j])'
    <3>1. p \in Positions /\ Live(p) /\ j \in DOMAIN At(p).field
      BY <1>2, <1>3, <1>5, <1>7, <2>3
    <3>2. Valid(At(p).field[j])
      BY <1>1, <1>2, <3>1 DEF LiveClosed
    <3>3. At(p)'.field[j] = IF p = q /\ j = i THEN r ELSE At(p).field[j]
      BY <1>5, <3>1
    <3>4. PICK w : w = At(p)'.field[j]
      OBVIOUS
    <3>5. Valid(w)'
      BY <1>8, <3>2, <3>3, <3>4
    <3> QED BY <3>4, <3>5
  <2> QED BY <2>1, <2>2, <2>3 DEF LiveClosed
<1> QED BY <1>1, <1>9, <1>10, <1>11, AtRestNext

LEMMA ProgramReach ==
    ASSUME IInv, RInv, Program, missed' = missed
    PROVE  RInv'
<1>1. pc = "run" /\ ~missed
  BY DEF Running, Program, Clear, Assign, Load, Store, Dereference, Forget, SetCell, SetRaw,
         SetField
<1>2. LiveClosed /\ Null \notin Positions
  BY PlaceTyped DEF RInv, IInv
<1>3. ASSUME NEW x \in Cells, NEW r, Valid(r), SetCell(x, r)
      PROVE  RInv'
  <2>1. /\ cell' = [cell EXCEPT ![x] = r] /\ pc' = pc /\ block' = block /\ big' = big
        /\ UNCHANGED <<raw, pages, alive_pages, want, curr>>
    BY <1>3 DEF SetCell, pageVars, listVars, sweepVars
  <2>2. cell \in [Cells -> Pointers]
    BY DEF IInv, ProgramTyped
  <2>3. \A y \in Cells : Valid(cell'[y])
    BY <1>2, <1>3, <2>1, <2>2 DEF LiveClosed
  <2>4. \A p \in Raws : Valid(raw'[p])
    BY <1>2, <2>1 DEF LiveClosed
  <2> QED BY <1>1, <2>1, <2>3, <2>4, VariablesReach
<1>4. ASSUME NEW p \in Raws, NEW r, Valid(r), SetRaw(p, r)
      PROVE  RInv'
  <2>1. /\ raw' = [raw EXCEPT ![p] = r] /\ pc' = pc /\ block' = block /\ big' = big
        /\ UNCHANGED <<cell, pages, alive_pages, want, curr>>
    BY <1>4 DEF SetRaw, pageVars, listVars, sweepVars
  <2>2. raw \in [Raws -> Pointers]
    BY DEF IInv, ProgramTyped
  <2>3. \A y \in Raws : Valid(raw'[y])
    BY <1>2, <1>4, <2>1, <2>2 DEF LiveClosed
  <2>4. \A x \in Cells : Valid(cell'[x])
    BY <1>2, <2>1 DEF LiveClosed
  <2> QED BY <1>1, <2>1, <2>3, <2>4, VariablesReach
<1>5. Valid(Null) /\ \A x \in Cells : Valid(cell[x])
  BY <1>2 DEF Valid, LiveClosed
<1>6. \A y \in Cells : cell[y] # Null => cell[y] \in Positions /\ Live(cell[y])
  BY <1>5 DEF Valid
<1>7. CASE \E x \in Cells : Clear(x)
  BY <1>3, <1>5, <1>7 DEF Clear
<1>8. CASE \E x, y \in Cells : Assign(x, y)
  BY <1>3, <1>5, <1>8 DEF Assign
<1>9. CASE \E x, y \in Cells : \E i \in 1..MaxFields : Load(x, y, i)
  <2>1. PICK x \in Cells, y \in Cells, i \in 1..MaxFields : Load(x, y, i)
    BY <1>9
  <2>2. cell[y] \in Positions /\ Live(cell[y]) /\ i \in DOMAIN At(cell[y]).field
    BY <1>6, <2>1 DEF Load
  <2>3. Valid(At(cell[y]).field[i])
    BY <1>1, <1>2, <2>2 DEF LiveClosed
  <2> QED BY <1>3, <2>1, <2>3 DEF Load
<1>10. CASE \E x, y \in Cells : \E i \in 1..MaxFields : Store(x, i, y)
  <2>1. PICK x \in Cells, y \in Cells, i \in 1..MaxFields : Store(x, i, y)
    BY <1>10
  <2>2. cell[x] \in Positions /\ Live(cell[x]) /\ i \in DOMAIN At(cell[x]).field
    BY <1>6, <2>1 DEF Store
  <2> QED BY <1>5, <2>1, <2>2, StoreReach DEF Store
<1>11. CASE \E p \in Raws : Forget(p)
  BY <1>4, <1>5, <1>11 DEF Forget
<1>12. CASE \E p \in Raws : \E x \in Cells : Dereference(p, x)
  BY <1>4, <1>5, <1>12 DEF Dereference
<1> QED BY <1>7, <1>8, <1>9, <1>10, <1>11, <1>12 DEF Program

LEMMA AllocateReach ==
    ASSUME NoBigPointers, IInv, RInv, IInv', pc = "run", pc' = pc, ~missed,
           missed' = missed,
           NEW x \in Cells, NEW o \in Objects, NEW s \in Sizes[o],
           NEW expand \in BOOLEAN, Allocate(x, o, s, expand),
           \A t \in Threads : want'[t] # Null => want'[t].size \in Sizes[want'[t].obj]
    PROVE  RInv'
<1>1. s \in Nat \ {0} /\ Null \notin Positions /\ cell \in [Cells -> Pointers]
  BY ConstantsAssumption, PlaceTyped DEF IInv, ProgramTyped
<1>2. PICK to :
          /\ \A q : q \in Positions' <=> q \in Positions \/ q = to
          /\ to \notin Positions /\ to \in Pointers /\ to # Null
          /\ At(to)' = NewBlock(o, s)
          /\ \A q \in Positions : At(q)' = At(q)
          /\ cell' = [cell EXCEPT ![x] = to] /\ raw' = raw
          /\ IF to[1] = 0 THEN s > Threshold ELSE to[1] \in ToSet(pages')
          /\ ToSet(pages) \subseteq ToSet(pages')
  BY <1>1, AllocateBlocks
<1>3. alive_pages' = alive_pages /\ curr' = curr
  BY DEF Allocate, sweepVars
<1>4. Placed /\ LiveClosed /\ Clean /\ \A q : Live(q) <=> ~At(q).dead
  BY AtRest
<1>5. \A q : Live(q)' <=> ~At(q)'.dead
  BY AtRestNext
<1>6. /\ At(to)'.obj = o /\ At(to)'.field = NoFields(o) /\ At(to)'.forward = Null
      /\ ~At(to)'.marked /\ ~At(to)'.pinned /\ ~At(to)'.dead
  BY <1>2 DEF NewBlock
<1>7. /\ \A q : Valid(q) => Valid(q)'
      /\ Valid(to)' /\ Valid(Null)'
  BY <1>2, <1>4, <1>5, <1>6 DEF Valid
<1>8. Placed'
  <2>1. ASSUME NEW q \in Positions'
        PROVE  /\ q[1] = 0 \/ q[1] \in Old' \cup Alive'
               /\ DOMAIN At(q)'.field = 1..FieldCount[At(q)'.obj]
               /\ q[1] = 0 => ~At(q)'.dead /\ FieldCount[At(q)'.obj] = 0
    <3>1. CASE q = to
      <4>1. to[1] = 0 => FieldCount[o] = 0
        BY <1>2 DEF NoBigPointers
      <4>2. DOMAIN NoFields(o) = 1..FieldCount[o]
        BY DEF NoFields
      <4> QED BY <1>2, <1>6, <3>1, <4>1, <4>2 DEF Old
    <3>2. CASE q # to
      <4>1. q \in Positions /\ At(q)' = At(q)
        BY <1>2, <3>2
      <4> QED BY <1>2, <1>3, <1>4, <4>1 DEF Placed, Old, Alive
    <3> QED BY <3>1, <3>2
  <2> QED BY <2>1 DEF Placed
<1>9. Clean'
  BY <1>2, <1>4, <1>6 DEF Clean
<1>10. LiveClosed'
  <2>1. ASSUME NEW y \in Cells
        PROVE  Valid(cell[y])'
    <3>1. cell'[y] = IF y = x THEN to ELSE cell[y]
      BY <1>1, <1>2
    <3>2. PICK w : w = cell'[y]
      OBVIOUS
    <3>3. Valid(w)'
      BY <1>4, <1>7, <3>1, <3>2 DEF LiveClosed
    <3> QED BY <3>2, <3>3
  <2>2. \A p \in Raws : Valid(raw[p])'
    BY <1>2, <1>4, <1>7 DEF LiveClosed
  <2>3. ASSUME NEW q \in Positions', Live(q)', NEW i \in (DOMAIN At(q).field)'
        PROVE  Valid(At(q).field[i])'
    <3>1. PICK w : w = At(q)'.field[i]
      OBVIOUS
    <3>2. CASE q = to
      <4>1. i \in 1..FieldCount[o] /\ w = Null
        BY <1>6, <2>3, <3>1, <3>2 DEF NoFields
      <4> QED BY <1>7, <3>1, <4>1
    <3>3. CASE q # to
      <4>1. q \in Positions /\ At(q)' = At(q) /\ Live(q)
        BY <1>2, <1>4, <1>5, <2>3, <3>3
      <4>2. Valid(w)
        BY <1>4, <2>3, <3>1, <4>1 DEF LiveClosed
      <4> QED BY <1>7, <3>1, <4>2
    <3> QED BY <3>2, <3>3
  <2> QED BY <2>1, <2>2, <2>3 DEF LiveClosed
<1> QED BY <1>8, <1>9, <1>10, AtRestNext

LEMMA WantReach ==
    ASSUME IInv, RInv, pc = "run", pc' = pc, ~missed, missed' = missed,
           block' = block, big' = big,
           UNCHANGED <<cell, raw, pages, alive_pages, curr>>,
           \A t \in Threads : want'[t] # Null => want'[t].size \in Sizes[want'[t].obj]
    PROVE  RInv'
<1>1. Placed /\ LiveClosed /\ Clean /\ \A q : Live(q) <=> ~At(q).dead
  BY AtRest
<1>2. Positions' = Positions /\ \A q \in Positions : At(q)' = At(q)
  BY UnmovedBlocks DEF Unmoved
<1>3. Old' = Old /\ Alive' = Alive
  BY DEF Old, Alive
<1>4. \A q : Live(q)' <=> ~At(q)'.dead
  BY AtRestNext
<1>5. \A q : Valid(q) => Valid(q)'
  BY <1>1, <1>2, <1>4 DEF Valid
<1>6. Placed'
  BY <1>1, <1>2, <1>3 DEF Placed
<1>7. Clean'
  BY <1>1, <1>2 DEF Clean
<1>8. LiveClosed'
  BY <1>1, <1>2, <1>4, <1>5 DEF LiveClosed
<1> QED BY <1>6, <1>7, <1>8, AtRestNext

LEMMA AllocationReach ==
    ASSUME NoBigPointers, IInv, RInv, IInv', Allocation, missed' = missed
    PROVE  RInv'
<1>1. /\ \A t \in Threads : want[t] # Null => want[t].size \in Sizes[want[t].obj]
      /\ want \in [Threads -> Request \cup {Null}]
  BY DEF IInv, RInv, ProgramTyped, Placed
<1>2. ASSUME NEW t \in Threads, NEW x \in Cells, NEW o \in Objects, NEW s \in Sizes[o],
             gcmalloc(t, x, o, s)
      PROVE  RInv'
  <2>1. pc = "run" /\ pc' = pc /\ ~missed
    BY <1>2 DEF gcmalloc, Running
  <2>2. CASE Allocate(x, o, s, FALSE) /\ UNCHANGED want
    BY <1>1, <2>1, <2>2, AllocateReach
  <2>3. CASE /\ want' = [want EXCEPT ![t] =
                            [stage |-> "gc", cell |-> x, obj |-> o, size |-> s]]
             /\ UNCHANGED <<programVars, pageVars, listVars, poolVars, big,
                            sweepVars, roomVars>>
    <3>1. /\ block' = block /\ big' = big
          /\ UNCHANGED <<cell, raw, pages, alive_pages, curr>>
      BY <2>3 DEF programVars, pageVars, listVars, sweepVars
    <3>2. \A u \in Threads : want'[u] # Null => want'[u].size \in Sizes[want'[u].obj]
      BY <1>1, <2>3
    <3> QED BY <2>1, <3>1, <3>2, WantReach
  <2> QED BY <1>2, <2>2, <2>3 DEF gcmalloc
<1>3. ASSUME NEW t \in Threads, gc_refused(t)
      PROVE  RInv'
  <2>1. /\ pc = "run" /\ pc' = pc /\ ~missed /\ block' = block /\ big' = big
        /\ UNCHANGED <<cell, raw, pages, alive_pages, curr>>
        /\ want[t] # Null /\ want' = [want EXCEPT ![t].stage = "retry"]
    BY <1>3 DEF gc_refused, Running, Asks, programVars, pageVars, listVars, sweepVars
  <2>2. want[t] \in Request
    BY <1>1, <2>1
  <2>3. want'[t].size = want[t].size /\ want'[t].obj = want[t].obj
    BY <1>1, <2>1, <2>2 DEF Request
  <2>4. \A u \in Threads : want'[u] # Null => want'[u].size \in Sizes[want'[u].obj]
    BY <1>1, <2>1, <2>3
  <2> QED BY <2>1, <2>4, WantReach
<1>4. ASSUME NEW t \in Threads, gcmalloc_retry(t)
      PROVE  RInv'
  <2>1. /\ pc = "run" /\ pc' = pc /\ ~missed /\ want[t] # Null /\ want' = [want EXCEPT ![t] = Null]
        /\ Allocate(want[t].cell, want[t].obj, want[t].size, TRUE)
    BY <1>4 DEF gcmalloc_retry, Running, Asks, Expand
  <2>2. want[t].cell \in Cells /\ want[t].obj \in Objects /\ want[t].size \in Sizes[want[t].obj]
    BY <1>1, <2>1 DEF Request
  <2>3. \A u \in Threads : want'[u] # Null => want'[u].size \in Sizes[want'[u].obj]
    BY <1>1, <2>1
  <2> QED BY <2>1, <2>2, <2>3, AllocateReach
<1> QED BY <1>2, <1>3, <1>4 DEF Allocation
-----------------------------------------------------------------------------
LEMMA ReachNext ==
    ASSUME NoBigPointers, IInv, RInv, IInv', [Next]_vars
    PROVE  RInv'
<1>1. CASE Program /\ missed' = missed
  BY <1>1, ProgramReach
<1>2. CASE Allocation /\ missed' = missed
  BY <1>2, AllocationReach
<1>3. CASE mark
  BY <1>3, markReach
<1>4. CASE Sweep /\ missed' = missed
  BY <1>4, sweep_big_blocksReach, classify_pageReach, classify_doneReach,
     first_alive_pageReach, copy_blockReach, fix_pagesReach, fix_rootsReach,
     releaseReach DEF Sweep
<1>5. CASE UNCHANGED vars
  <2>1. /\ block' = block /\ big' = big
        /\ UNCHANGED <<cell, raw, pages, alive_pages, want, pc, curr, missed>>
    BY <1>5 DEF vars, programVars, pageVars, listVars, sweepVars
  <2>2. /\ Positions' = Positions /\ Old' = Old /\ Alive' = Alive
        /\ \A q : At(q)' = At(q) /\ (Allocated(q)' <=> Allocated(q))
    BY <2>1, UnmovedBlocks DEF Unmoved, Old, Alive, At
  <2>3. /\ \A q : Settled(q)' <=> Settled(q)
        /\ \A q : Away(q)' <=> Away(q)
    BY <2>1, <2>2 DEF Settled, Away
  <2>4. \A q : Live(q)' <=> Live(q)
    BY <2>2, <2>3 DEF Live
  <2>5. \A q : Valid(q)' <=> Valid(q)
    BY <2>2, <2>4 DEF Valid
  <2>6. Placed' /\ Flags' /\ FixedAway'
    BY <2>1, <2>2, <2>3 DEF RInv, Placed, Flags, FixedAway
  <2>7. LiveClosed'
    BY <2>1, <2>2, <2>4, <2>5 DEF RInv, LiveClosed
  <2>8. Forwards'
    BY <2>1, <2>2 DEF RInv, Forwards
  <2> QED BY <2>6, <2>7, <2>8 DEF RInv
<1> QED BY <1>1, <1>2, <1>3, <1>4, <1>5 DEF Next

LEMMA ReachAlways == NoBigPointers => (Spec => [](IInv /\ RInv))
<1> SUFFICES ASSUME NoBigPointers
             PROVE  Spec => [](IInv /\ RInv)
  OBVIOUS
<1>1. Init => IInv /\ RInv
  BY InvInit, ReachInit
<1>2. IInv /\ RInv /\ [Next]_vars => (IInv /\ RInv)'
  BY InvNext, ReachNext
<1> QED BY <1>1, <1>2, PTL DEF Spec
-----------------------------------------------------------------------------
(* As long as no mark phase has missed an object, the assertions of sweep  *)
(* (malloc.cpp:351-352, 372-373) hold: among the pages that it copies from *)
(* there is no pinned block and none that is dead and marked, and the      *)
(* pages that survive have nothing pinned or marked.                       *)
THEOREM AssertionsHold == NoBigPointers => (Spec => []SweepAsserts)
<1>1. ASSUME IInv, RInv
      PROVE  SweepAsserts
  <2>1. SUFFICES ASSUME pc = "copy", NEW p \in Old \cup Alive, NEW i \in DOMAIN block[p]
                 PROVE  /\ ~block[p][i].pinned
                        /\ p \in Old => ~(block[p][i].dead /\ block[p][i].marked)
                        /\ p \in Alive => ~block[p][i].marked
    BY DEF SweepAsserts, Old, Alive
  <2>2. p \in Pages /\ p # 0 /\ (p \in Alive => p \notin Old)
    BY <1>1, <2>1, ListsOfPages
  <2> DEFINE q == <<p, i>>
  <2>3. q \in Positions /\ At(q) = block[p][i] /\ q[1] = p
    BY <2>1, <2>2, PlaceIs DEF Place, At
  <2>4. Settled(q) <=> p \notin Old
    BY <2>1, <2>3 DEF Settled
  <2> HIDE DEF q
  <2>5. /\ Settled(q) => ~At(q).marked
        /\ ~Settled(q) => (At(q).marked => ~At(q).dead)
        /\ ~At(q).pinned
    BY <1>1, <2>1, <2>3 DEF RInv, Flags
  <2> QED BY <2>2, <2>3, <2>4, <2>5
<1> QED BY <1>1, ReachAlways, PTL

(* At the end of a sweep no block of a surviving page is dead that the     *)
(* program can reach, unless a mark phase has missed an object; objects    *)
(* that are marked although they cannot be reached do no harm              *)
(* (malloc.cpp:328-329).                                                   *)
THEOREM DeadIsUnreachable == NoBigPointers => (Spec => []DeadUnreachable)
<1>1. ASSUME IInv, RInv
      PROVE  DeadUnreachable
  <2>1. SUFFICES ASSUME pc = "release", ~missed, NEW p \in Alive, NEW i \in DOMAIN block[p],
                        <<p, i>> \in Reached
                 PROVE  ~block[p][i].dead
    BY DEF DeadUnreachable, Alive
  <2>2. p \in Pages /\ p # 0 /\ p \notin Old
    BY <1>1, <2>1, ListsOfPages
  <2> DEFINE q == <<p, i>>
  <2>3. q \in Positions /\ At(q) = block[p][i] /\ q[1] \notin Old
    BY <2>1, <2>2, PlaceIs DEF Place, At
  <2>4. q \in Reached
    BY <2>1
  <2> HIDE DEF q
  <2>5. Settled(q) /\ (Live(q) <=> ~At(q).dead)
    BY <2>1, <2>3 DEF Settled, Live
  <2>6. Live(q)
    BY <1>1, <2>1, <2>4, ReachedIsLive DEF RInv
  <2> QED BY <2>3, <2>5, <2>6
<1> QED BY <1>1, ReachAlways, PTL

(* Unless an object lies in a big block and has gc_ptrs, which the sweep   *)
(* leaves as they are, and until a mark phase misses an object, no gc_ptr  *)
(* that the program can use dangles (malloc.cpp:293-303, 370-391).         *)
THEOREM PointersHold == NoBigPointers => (Spec => []NoneDangles)
<1>1. ASSUME IInv, RInv
      PROVE  NoneDangles
  <2>1. SUFFICES ASSUME pc = "run", ~missed
                 PROVE  \A q \in {cell[x] : x \in Cells}
                                   \cup UNION {Range(At(r).field) : r \in Reached} :
                            q = Null \/ Allocated(q)
    BY DEF NoneDangles, Running
  <2>2. \A q : Valid(q) => q = Null \/ Allocated(q)
    BY <1>1, PlaceTyped DEF Valid, IInv
  <2>3. \A x \in Cells : Valid(cell[x])
    BY <1>1 DEF RInv, LiveClosed
  <2>4. ASSUME NEW r \in Reached, NEW q \in Range(At(r).field)
        PROVE  Valid(q)
    <3>1. r \in Positions /\ Live(r)
      BY <1>1, <2>1, ReachedIsLive DEF RInv
    <3>2. PICK i \in DOMAIN At(r).field : q = At(r).field[i]
      BY DEF Range
    <3> QED BY <1>1, <2>1, <3>1, <3>2 DEF RInv, LiveClosed
  <2> QED BY <2>2, <2>3, <2>4
<1> QED BY <1>1, ReachAlways, PTL

(* No step takes the block of an object in use, but for the old pages when *)
(* everything has been copied and fixed.                                   *)
LEMMA ObjectsKept ==
    ASSUME IInv, RInv, [Next]_vars
    PROVE  \A q \in Positions : Live(q) /\ (pc = "release" => q[1] \notin Old) =>
               q \in Positions' /\ At(q)'.obj = At(q).obj
<1>1. BlocksTyped /\ Flags /\ LiveClosed /\ Null \notin Positions
  BY PlaceTyped DEF IInv, RInv
<1>2. ASSUME block' = block, big' = big
      PROVE  \A q \in Positions : q \in Positions' /\ At(q)' = At(q)
  BY <1>2, UnmovedBlocks DEF Unmoved
<1>3. CASE Program
  <2>1. CASE block' = block /\ big' = big
    BY <1>2, <2>1
  <2>2. CASE \E x, y \in Cells : \E i \in 1..MaxFields : Store(x, i, y)
    <3>1. PICK x \in Cells, y \in Cells, i \in 1..MaxFields : Store(x, i, y)
      BY <2>2
    <3>2. cell[x] \in Positions /\ i \in DOMAIN At(cell[x]).field
      BY <1>1, <3>1 DEF Store, LiveClosed, Valid
    <3>3. PICK r : r = cell[x]
      OBVIOUS
    <3>4. At(r) \in Block
      BY <1>1, <3>2, <3>3, PlaceTyped
    <3>5. /\ Positions' = Positions
          /\ \A q \in Positions \ {r} : At(q)' = At(q)
          /\ At(r)' = [At(r) EXCEPT !.field[i] = cell[y]]
      BY <1>1, <3>1, <3>2, <3>3, SetFieldBlocks DEF Store
    <3>6. At(r)'.obj = At(r).obj
      BY <3>4, <3>5 DEF Block
    <3> QED BY <3>5, <3>6
  <2> QED BY <1>3, <2>1, <2>2 DEF Program, Clear, Assign, Load, Dereference, Forget,
            SetCell, SetRaw, pageVars
<1>4. CASE Allocation
  <2>1. CASE block' = block /\ big' = big
    BY <1>2, <2>1
  <2>2. CASE \E x \in Cells, o \in Objects, s \in Nat \ {0}, e \in BOOLEAN :
                 pc = "run" /\ pc' = pc /\ Allocate(x, o, s, e)
    <3>1. PICK x \in Cells, o \in Objects, s \in Nat \ {0}, e \in BOOLEAN :
              pc = "run" /\ pc' = pc /\ Allocate(x, o, s, e)
      BY <2>2
    <3>2. \A q \in Positions : q \in Positions' /\ At(q)' = At(q)
      BY <3>1, AllocateBlocks
    <3> QED BY <3>2
  <2>3. ASSUME NEW t \in Threads, NEW x \in Cells, NEW o \in Objects,
               NEW s \in Sizes[o], gcmalloc(t, x, o, s),
               ~(block' = block /\ big' = big)
        PROVE  pc = "run" /\ pc' = pc /\ s \in Nat \ {0} /\ Allocate(x, o, s, FALSE)
    BY <2>3, ConstantsAssumption DEF gcmalloc, Running, pageVars
  <2>4. ASSUME NEW t \in Threads, gcmalloc_retry(t)
        PROVE  /\ pc = "run" /\ pc' = pc
               /\ want[t].cell \in Cells /\ want[t].obj \in Objects
               /\ want[t].size \in Nat \ {0}
               /\ Allocate(want[t].cell, want[t].obj, want[t].size, TRUE)
    <3>1. want[t] # Null /\ want[t] \in Request
      BY <2>4 DEF gcmalloc_retry, Asks, IInv, ProgramTyped
    <3> QED BY <2>4, <3>1 DEF gcmalloc_retry, Running, Expand, Request
  <2>5. ASSUME NEW t \in Threads, gc_refused(t)
        PROVE  block' = block /\ big' = big
    BY <2>5 DEF gc_refused, pageVars
  <2>6. TRUE \in BOOLEAN /\ FALSE \in BOOLEAN
    OBVIOUS
  <2> QED BY <1>4, <2>1, <2>2, <2>3, <2>4, <2>5, <2>6 DEF Allocation
<1>5. CASE mark
  BY <1>1, <1>5, markBlocks
<1>6. CASE sweep_big_blocks
  <2>1. \A q : Live(q) <=> At(q).marked
    BY <1>6 DEF sweep_big_blocks, Settled, Live
  <2> QED BY <1>1, <1>6, <2>1, sweep_big_blocksBlocks
<1>7. CASE classify_page
  <2>1. CASE HasPinned(Head(curr))
    <3>1. curr \in Seq(Pages)
      BY DEF IInv, ListInv, ListTypes
    <3> QED BY <1>1, <1>7, <2>1, <3>1, classify_pageBlocks
  <2>2. CASE ~HasPinned(Head(curr))
    BY <1>2, <1>7, <2>2 DEF classify_page
  <2> QED BY <2>1, <2>2
<1>8. CASE copy_block
  BY <1>8, copy_blockBlocks DEF Copied
<1>9. CASE fix_pages
  <2>1. alive_pages \in Seq(Pages)
    BY DEF IInv, ListInv, ListTypes
  <2> QED BY <1>1, <1>9, <2>1, fix_pagesFields
<1>10. CASE release
  <2>1. pc = "release" /\ ToSet(pages) \subseteq Pages
    BY <1>10, ListsOfPages DEF release, Old
  <2> QED BY <1>1, <1>10, <2>1, releaseBlocks DEF Old
<1>11. CASE classify_done \/ first_alive_page \/ fix_roots \/ UNCHANGED vars
  BY <1>2, <1>11 DEF classify_done, first_alive_page, fix_roots, vars, pageVars
<1> QED BY <1>3, <1>4, <1>5, <1>6, <1>7, <1>8, <1>9, <1>10, <1>11 DEF Next, Sweep

LEMMA PlaceTypedNext == (BlocksTyped => \A q \in Positions : Allocated(q))'
<1>1. BlocksTyped => \A q \in Positions : Allocated(q)
  BY PlaceTyped
<1> QED BY <1>1, PTL

(* The object behind a plain pointer stays where it is, over any number of *)
(* collections, until the program gives this pointer another value         *)
(* (malloc.cpp:308-320).                                                   *)
THEOREM PinnedBlocksStay == NoBigPointers => (Spec => PinnedStay)
<1>1. ASSUME IInv, RInv, IInv', [Next]_vars, NEW p \in Raws,
             raw[p] # Null, raw'[p] = raw[p]
      PROVE  Allocated(raw[p])' /\ At(raw[p])'.obj = At(raw[p]).obj
  <2>1. PICK q : q = raw[p]
    OBVIOUS
  <2>2. q \in Positions /\ Live(q)
    BY <1>1, <2>1 DEF RInv, LiveClosed, Valid
  <2>3. pc = "release" => q[1] \notin Old
    <3>1. SUFFICES ASSUME pc = "release", q[1] \in Old
                   PROVE  FALSE
      OBVIOUS
    <3>2. ~Settled(q)
      BY <3>1 DEF Settled
    <3>3. At(q).pinned
      BY <1>1, <2>1, <2>2, <3>2 DEF RInv, Flags
    <3> QED BY <1>1, <2>2, <3>1, <3>3 DEF RInv, Flags
  <2>4. q \in Positions' /\ At(q)'.obj = At(q).obj
    BY <1>1, <2>2, <2>3, ObjectsKept
  <2>5. Allocated(q)'
    BY <1>1, <2>4, PlaceTypedNext DEF IInv
  <2> QED BY <1>1, <2>1, <2>4, <2>5
<1>2. (IInv /\ RInv) /\ (IInv /\ RInv)' /\ [Next]_vars =>
          [\A p \in Raws : raw[p] # Null /\ raw'[p] = raw[p] =>
              /\ Allocated(raw[p])'
              /\ At(raw[p])'.obj = At(raw[p]).obj]_vars
  BY <1>1
<1>3. Spec /\ [](IInv /\ RInv) => PinnedStay
  BY <1>2, PTL DEF Spec, PinnedStay
<1> QED BY <1>3, ReachAlways, PTL
=============================================================================
