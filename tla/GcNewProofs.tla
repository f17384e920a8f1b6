----------------------------- MODULE GcNewProofs -----------------------------
(***************************************************************************)
(* Without the move constructor, roots, reference counters, offsets and    *)
(* the flags of gc_new are right for any number of gc_ptrs, composite      *)
(* pointers and types, any nesting of gc_new and arrays of any length.     *)
(***************************************************************************)
EXTENDS GcNew, FiniteSetTheorems, SequenceTheorems, WellFoundedInduction, TLAPS

(* How often w is in the sequence s.                                       *)
Where(s, w) == {k \in DOMAIN s : s[k] = w}
Times(s, w) == Cardinality(Where(s, w))

LEMMA WhereFinite ==
    ASSUME NEW S, NEW s \in Seq(S), NEW w
    PROVE  /\ IsFiniteSet(Where(s, w))
           /\ Where(s, w) \subseteq 1..Len(s)
           /\ Times(s, w) \in Nat
<1>1. DOMAIN s = 1..Len(s) /\ Len(s) \in Nat
  BY LenProperties
<1>2. Where(s, w) \subseteq 1..Len(s)
  BY <1>1 DEF Where
<1>3. IsFiniteSet(1..Len(s))
  BY <1>1, FS_Interval
<1>4. IsFiniteSet(Where(s, w))
  BY <1>2, <1>3, FS_Subset
<1> QED BY <1>2, <1>4, FS_CardinalityType DEF Times

(* Positions that are all moved by one are as many as before.              *)
LEMMA Shifted ==
    ASSUME NEW A \in SUBSET Int, IsFiniteSet(A)
    PROVE  LET B == {k + 1 : k \in A}
           IN  IsFiniteSet(B) /\ Cardinality(B) = Cardinality(A)
<1> DEFINE B == {k + 1 : k \in A}
           f == [k \in A |-> k + 1]
<1>1. f \in [A -> B]
  OBVIOUS
<1>2. \A j, k \in A : f[j] = f[k] => j = k
  OBVIOUS
<1>3. \A b \in B : \E k \in A : f[k] = b
  OBVIOUS
<1>4. f \in Bijection(A, B)
  BY <1>1, <1>2, <1>3 DEF Bijection, Injection, Surjection, IsInjective
<1>5. ExistsBijection(A, B)
  BY <1>4 DEF ExistsBijection
<1> QED BY <1>5, FS_Bijection

LEMMA PushCount ==
    ASSUME NEW S, NEW s \in Seq(S), NEW v \in S, NEW w
    PROVE  /\ <<v>> \o s \in Seq(S)
           /\ Times(<<v>> \o s, w) = Times(s, w) + (IF w = v THEN 1 ELSE 0)
<1> DEFINE new == <<v>> \o s
           A == Where(s, w)
           B == {k + 1 : k \in A}
<1>1. /\ <<v>> \in Seq(S)
      /\ Len(<<v>>) = 1
      /\ <<v>>[1] = v
  OBVIOUS
<1>2. /\ new \in Seq(S)
      /\ Len(s) \in Nat
      /\ Len(new) = 1 + Len(s)
      /\ \A i \in 1..1 + Len(s) : new[i] = IF i <= 1 THEN v ELSE s[i - 1]
  <2>1. Len(s) \in Nat
    BY LenProperties
  <2>2. /\ new \in Seq(S)
        /\ Len(new) = Len(<<v>>) + Len(s)
        /\ \A i \in 1..Len(<<v>>) + Len(s) : new[i] =
               IF i <= Len(<<v>>) THEN <<v>>[i] ELSE s[i - Len(<<v>>)]
    BY <1>1, ConcatProperties
  <2>3. \A i \in 1..1 + Len(s) : i <= 1 => i = 1
    BY <2>1
  <2> QED BY <1>1, <2>1, <2>2, <2>3
<1>3. DOMAIN new = 1..1 + Len(s) /\ DOMAIN s = 1..Len(s)
  BY <1>2, LenProperties
<1>4. A \subseteq 1..Len(s) /\ IsFiniteSet(A) /\ A \in SUBSET Int
  BY <1>2, WhereFinite
<1>5. IsFiniteSet(B) /\ Cardinality(B) = Cardinality(A) /\ Cardinality(A) \in Nat
  BY <1>4, Shifted, FS_CardinalityType
<1>6. 1 \notin B
  BY <1>4
<1>7. Where(new, w) = IF w = v THEN B \cup {1} ELSE B
  <2>1. \A k \in 1..1 + Len(s) : k \in B <=> k # 1 /\ s[k - 1] = w
    <3> SUFFICES ASSUME NEW k \in 1..1 + Len(s)
                 PROVE  k \in B <=> k # 1 /\ s[k - 1] = w
      OBVIOUS
    <3>1. k \in B <=> k - 1 \in A
      BY <1>2, <1>4
    <3>2. k - 1 \in A <=> k # 1 /\ s[k - 1] = w
      BY <1>2, <1>3 DEF Where
    <3> QED BY <3>1, <3>2
  <2>2. B \subseteq 1..1 + Len(s)
    BY <1>2, <1>4
  <2>3. \A k \in 1..1 + Len(s) : new[k] = IF k = 1 THEN v ELSE s[k - 1]
    BY <1>2
  <2> QED BY <1>2, <1>3, <2>1, <2>2, <2>3 DEF Where
<1>8. Cardinality(B \cup {1}) = Cardinality(B) + 1
  BY <1>5, <1>6, FS_AddElement
<1>9. Times(new, w) = Cardinality(B) + (IF w = v THEN 1 ELSE 0)
  BY <1>5, <1>7, <1>8 DEF Times
<1>10. Times(s, w) = Cardinality(A)
  BY DEF Times
<1> HIDE DEF A, B, new
<1>11. Times(new, w) = Times(s, w) + (IF w = v THEN 1 ELSE 0)
  BY <1>5, <1>9, <1>10
<1> QED BY <1>2, <1>11 DEF new

LEMMA PopCount ==
    ASSUME NEW S, NEW s \in Seq(S), s # <<>>, NEW w
    PROVE  /\ Tail(s) \in Seq(S)
           /\ Times(Tail(s), w) = Times(s, w) - (IF w = s[1] THEN 1 ELSE 0)
<1> DEFINE A == Where(Tail(s), w)
           B == {k + 1 : k \in A}
<1>1. /\ Len(s) \in Nat \ {0}
      /\ Tail(s) \in Seq(S)
      /\ Len(Tail(s)) = Len(s) - 1
      /\ \A i \in 1..Len(s) - 1 : Tail(s)[i] = s[i + 1]
  BY EmptySeq, HeadTailProperties
<1>2. DOMAIN s = 1..Len(s) /\ DOMAIN Tail(s) = 1..Len(s) - 1
  BY <1>1, LenProperties
<1>3. A \subseteq 1..Len(s) - 1 /\ IsFiniteSet(A) /\ A \in SUBSET Int
  <2>1. IsFiniteSet(A) /\ A \subseteq 1..Len(Tail(s))
    BY <1>1, WhereFinite
  <2> QED BY <1>1, <2>1
<1>4. IsFiniteSet(B) /\ Cardinality(B) = Cardinality(A) /\ Cardinality(A) \in Nat
  BY <1>3, Shifted, FS_CardinalityType
<1>5. B = Where(s, w) \ {1}
  <2>1. \A k \in 2..Len(s) : k \in B <=> s[k] = w
    <3> SUFFICES ASSUME NEW k \in 2..Len(s)
                 PROVE  k \in B <=> s[k] = w
      OBVIOUS
    <3>1. k \in B <=> k - 1 \in A
      BY <1>1, <1>3
    <3>2. k - 1 \in 1..Len(s) - 1 /\ Tail(s)[k - 1] = s[k]
      BY <1>1
    <3> QED BY <3>1, <3>2, <1>2 DEF Where
  <2>2. B \subseteq 2..Len(s)
    BY <1>1, <1>3
  <2>3. Where(s, w) \ {1} \subseteq 2..Len(s)
    BY <1>1, <1>2 DEF Where
  <2>4. \A k \in 2..Len(s) : k \in Where(s, w) \ {1} <=> s[k] = w
    BY <1>1, <1>2 DEF Where
  <2> QED BY <2>1, <2>2, <2>3, <2>4
<1>6. 1 \in Where(s, w) <=> w = s[1]
  BY <1>1, <1>2 DEF Where
<1>7. IsFiniteSet(Where(s, w)) /\ Times(s, w) \in Nat
  BY WhereFinite
<1>8. Cardinality(Where(s, w) \ {1}) =
          IF 1 \in Where(s, w) THEN Times(s, w) - 1 ELSE Times(s, w)
  BY <1>7, FS_RemoveElement DEF Times
<1>9. Times(Tail(s), w) = Cardinality(A)
  BY DEF Times
<1>10. Cardinality(A) = Cardinality(Where(s, w) \ {1})
  BY <1>4, <1>5
<1> HIDE DEF A, B
<1>11. Times(Tail(s), w) = Times(s, w) - (IF w = s[1] THEN 1 ELSE 0)
  BY <1>6, <1>7, <1>8, <1>9, <1>10
<1> QED BY <1>1, <1>11

LEMMA Least ==
    ASSUME NEW T \in SUBSET Nat, T # {}
    PROVE  \E k \in T : \A i \in T : k <= i
<1>1. PICK k \in T : \A i \in T : ~(<<i, k>> \in OpToRel(<, Nat))
  BY NatLessThanWellFounded, WFMin, Zenon
<1>2. \A i \in T : ~(i < k)
  BY <1>1 DEF OpToRel
<1> QED BY <1>2

(* delete_stack_root takes one occurrence of its argument away, and none   *)
(* of any other place, wherever the argument is in the StackMap.           *)
LEMMA DeleteCount ==
    ASSUME top \in Seq(Vars), NEW v \in Vars, Times(top, v) > 0, NEW w
    PROVE  /\ Tail(Replaced(v)) \in Seq(Vars)
           /\ Times(Tail(Replaced(v)), w) = Times(top, w) - (IF w = v THEN 1 ELSE 0)
<1> DEFINE R == Replaced(v)
           u == top[1]
<1>1. IsFiniteSet(Where(top, v)) /\ Where(top, v) \subseteq 1..Len(top)
  BY WhereFinite
<1>2. Where(top, v) # {}
  BY <1>1, FS_EmptySet DEF Times
<1>3. Len(top) \in Nat \ {0} /\ DOMAIN top = 1..Len(top)
  BY <1>1, <1>2, LenProperties
<1>4. PICK k \in Where(top, v) : \A i \in Where(top, v) : k <= i
  <2>1. Where(top, v) \in SUBSET Nat
    BY <1>1, <1>3
  <2> QED BY <2>1, <1>2, Least
<1>5. k \in 1..Len(top) /\ top[k] = v /\ \A i \in 1..Len(top) : top[i] = v => k <= i
  BY <1>3, <1>4 DEF Where
<1>6. \A i \in 1..Len(top) : IsFirst(v, i) <=> i = k
  BY <1>3, <1>5 DEF IsFirst
<1>7. u \in Vars /\ \A i \in 1..Len(top) : top[i] \in Vars
  BY <1>3, ElementOfSeq
<1>8. R = [i \in 1..Len(top) |-> IF i = k THEN u ELSE top[i]]
  BY <1>3, <1>6 DEF Replaced
<1>9. R \in Seq(Vars) /\ R # <<>> /\ DOMAIN R = 1..Len(top)
  <2>1. R \in [1..Len(top) -> Vars]
    BY <1>7, <1>8
  <2>2. R \in Seq(Vars)
    BY <1>3, <2>1, SeqDef
  <2> QED BY <1>3, <2>1, <2>2, EmptySeq, LenProperties
<1>10. R[1] = u
  BY <1>3, <1>8
<1>11. Times(R, w) = Times(top, w) - (IF w = v THEN 1 ELSE 0) + (IF w = u THEN 1 ELSE 0)
  <2>1. IsFiniteSet(Where(top, w)) /\ Times(top, w) \in Nat
    BY WhereFinite
  <2>2. CASE u = v
    <3>1. R = top
      <4>1. top \in [1..Len(top) -> Vars]
        BY LenProperties
      <4> QED BY <2>2, <1>5, <1>8, <4>1
    <3> QED BY <2>1, <2>2, <3>1
  <2>3. CASE u # v /\ w = v
    <3>1. Where(R, w) = Where(top, w) \ {k}
      BY <2>3, <1>3, <1>5, <1>8, <1>9 DEF Where
    <3>2. k \in Where(top, w)
      BY <2>3, <1>4
    <3>3. Times(R, w) = Times(top, w) - 1
      <4>1. PICK W : W = Where(top, w)
        OBVIOUS
      <4>2. Cardinality(W \ {k}) = Cardinality(W) - 1
        BY <2>1, <3>2, <4>1, FS_RemoveElement
      <4> QED BY <3>1, <4>1, <4>2 DEF Times
    <3> QED BY <2>1, <2>3, <3>3
  <2>4. CASE u # v /\ w = u
    <3>1. Where(R, w) = Where(top, w) \cup {k}
      BY <2>4, <1>3, <1>5, <1>8, <1>9 DEF Where
    <3>2. k \notin Where(top, w)
      BY <2>4, <1>5 DEF Where
    <3>3. Times(R, w) = Times(top, w) + 1
      BY <2>1, <3>1, <3>2, FS_AddElement DEF Times
    <3> QED BY <2>1, <2>4, <3>3
  <2>5. CASE w # v /\ w # u
    <3>1. Where(R, w) = Where(top, w)
      BY <2>5, <1>3, <1>5, <1>8, <1>9 DEF Where
    <3> QED BY <2>1, <2>5, <3>1 DEF Times
  <2> QED BY <2>2, <2>3, <2>4, <2>5
<1>12. /\ Tail(R) \in Seq(Vars)
       /\ Times(Tail(R), w) = Times(R, w) - (IF w = u THEN 1 ELSE 0)
  BY <1>9, <1>10, PopCount
<1>13. Times(top, w) \in Nat
  BY WhereFinite
<1> HIDE DEF R, u
<1>14. Times(Tail(R), w) = Times(top, w) - (IF w = v THEN 1 ELSE 0)
  BY <1>11, <1>12, <1>13
<1> QED BY <1>12, <1>14 DEF R
-----------------------------------------------------------------------------
(* The invariant of the gc_ptrs.  One that is constructed outside gc_new   *)
(* has its stack bit, or has lost it to setNULL.                           *)
Held(p) == IF p = Null THEN Null ELSE p.comp
Holders(c) == {v \in Vars : ptr[v] # Null /\ ptr[v].comp = c}
OnStack(v) == ptr[v] # Null /\ ptr[v].stack

PtrTyped ==
    /\ top \in Seq(Vars)
    /\ ptr \in [Vars -> Value \cup {Null}]
    /\ ref_count \in [Composites -> Nat]
    /\ cleared \in [Vars -> Nat]
    /\ owner \in [Vars -> Nat]

Counted ==
    \A c \in Composites : ref_count[c] = Cardinality(Holders(c))

\* An entry for the gc_ptr that is there, and one for each that setNULL has
\* cleared: these nobody removes.
Rooted ==
    \A v \in Vars : Times(top, v) = cleared[v] + (IF OnStack(v) THEN 1 ELSE 0)

Flagged ==
    \A v \in Vars : ptr[v] # Null /\ owner[v] = 0 => ptr[v].stack \/ cleared[v] > 0

PtrInv == PtrTyped /\ Counted /\ Rooted /\ Flagged

(* One gc_ptr gets the value p: CountRefs keeps the counters right.        *)
LEMMA Recount ==
    ASSUME PtrTyped, Counted, NEW v \in Vars, NEW p \in Value \cup {Null},
           ptr' = [ptr EXCEPT ![v] = p],
           CountRefs(Held(ptr[v]), Held(p))
    PROVE  Counted' /\ ref_count' \in [Composites -> Nat]
<1>1. ASSUME NEW c \in Composites
      PROVE  ref_count'[c] = Cardinality(Holders(c)') /\ ref_count'[c] \in Nat
  <2> DEFINE H == Holders(c)
  <2>1. IsFiniteSet(H) /\ Cardinality(H) \in Nat
    <3>1. IsFiniteSet(H)
      BY PlacesAssumption, FS_Subset DEF Holders
    <3> QED BY <3>1, FS_CardinalityType
  <2>2. ref_count[c] = Cardinality(H)
    BY DEF Counted
  <2>3. c # Null
    BY PlacesAssumption
  <2>4. v \in H <=> Held(ptr[v]) = c
    BY <2>3 DEF Holders, Held
  <2>5. Holders(c)' = IF Held(p) = c THEN H \cup {v} ELSE H \ {v}
    BY <2>3 DEF Holders, Held, PtrTyped
  <2>6. ref_count'[c] = Cardinality(H) - (IF c = Held(ptr[v]) THEN 1 ELSE 0)
                            + (IF c = Held(p) THEN 1 ELSE 0)
    BY <2>2 DEF CountRefs
  <2>7. Cardinality(H \cup {v}) =
            IF v \in H THEN Cardinality(H) ELSE Cardinality(H) + 1
    BY <2>1, FS_AddElement
  <2>8. Cardinality(H \ {v}) =
            IF v \in H THEN Cardinality(H) - 1 ELSE Cardinality(H)
    BY <2>1, FS_RemoveElement
  <2>9. IsFiniteSet(H \cup {v}) /\ IsFiniteSet(H \ {v})
    BY <2>1, FS_AddElement, FS_RemoveElement
  <2>10. Cardinality(H \cup {v}) \in Nat /\ Cardinality(H \ {v}) \in Nat
    BY <2>9, FS_CardinalityType
  <2> HIDE DEF H
  <2>11. ref_count'[c] = Cardinality(Holders(c)')
    <3>1. CASE Held(p) = c
      BY <3>1, <2>1, <2>4, <2>5, <2>6, <2>7
    <3>2. CASE Held(p) # c
      BY <3>2, <2>1, <2>4, <2>5, <2>6, <2>8
    <3> QED BY <3>1, <3>2
  <2> QED BY <2>5, <2>10, <2>11
<1>2. ref_count' = [c \in Composites |-> ref_count'[c]]
  BY DEF CountRefs
<1>3. ref_count' \in [Composites -> Nat]
  BY <1>1, <1>2
<1> QED BY <1>1, <1>3 DEF Counted

LEMMA NothingCounted ==
    ASSUME PtrTyped, UNCHANGED ref_count
    PROVE  CountRefs(Null, Null)
<1>1. \A c \in Composites : ref_count[c] \in Nat /\ c # Null
  BY PlacesAssumption DEF PtrTyped
<1>2. \A c \in Composites : ref_count[c] - (IF c = Null THEN 1 ELSE 0)
                               + (IF c = Null THEN 1 ELSE 0) = ref_count[c]
  BY <1>1
<1>3. ref_count = [c \in Composites |-> ref_count[c]]
  BY DEF PtrTyped
<1> QED BY <1>2, <1>3 DEF CountRefs

LEMMA ConstructKeeps ==
    ASSUME PtrInv, NEW v \in Vars, NEW p \in Value, ~p.stack,
           NEW flags \in Flags, ConstructAutomatic(v, p, flags),
           CountRefs(Null, p.comp), UNCHANGED cleared,
           NEW d \in Nat, d = 0 => ~flags.new_active,
           owner' = [owner EXCEPT ![v] = d]
    PROVE  PtrInv'
<1> DEFINE q == IF flags.new_active THEN p ELSE set_stack_flag(p)
<1>1. PtrTyped /\ Counted /\ Rooted /\ Flagged
  BY DEF PtrInv
<1>2. ptr[v] = Null /\ ptr' = [ptr EXCEPT ![v] = q]
  BY DEF ConstructAutomatic
<1>3. q \in Value /\ q # Null /\ q.comp = p.comp /\ (q.stack <=> ~flags.new_active)
  <2>1. q \in Value /\ q.comp = p.comp /\ (q.stack <=> ~flags.new_active)
    BY DEF Value, set_stack_flag, Flags
  <2> QED BY <2>1, ValueAssumption
<1> HIDE DEF q
<1>4. Counted' /\ ref_count' \in [Composites -> Nat]
  <2>1. Held(ptr[v]) = Null /\ Held(q) = p.comp
    BY <1>2, <1>3 DEF Held
  <2> QED BY <1>1, <1>2, <1>3, <2>1, Recount
<1>5. top \in Seq(Vars)
  BY <1>1 DEF PtrTyped
<1>6. /\ top' \in Seq(Vars)
      /\ \A w \in Vars : Times(top', w) = Times(top, w) +
             (IF w = v /\ ~flags.new_active THEN 1 ELSE 0)
  <2>1. CASE flags.new_active
    <3>1. \A w \in Vars : Times(top, w) \in Nat
      BY <1>5, WhereFinite
    <3>2. top' = top
      BY <2>1 DEF ConstructAutomatic
    <3> QED BY <2>1, <1>5, <3>1, <3>2
  <2>2. CASE ~flags.new_active
    <3>1. top' = <<v>> \o top
      BY <2>2 DEF ConstructAutomatic, register_stack_root
    <3>2. <<v>> \o top \in Seq(Vars)
      BY <1>5, PushCount
    <3>3. \A w \in Vars : Times(<<v>> \o top, w) = Times(top, w) + (IF w = v THEN 1 ELSE 0)
      BY <1>5, PushCount
    <3> QED BY <2>2, <3>1, <3>2, <3>3
  <2> QED BY <2>1, <2>2
<1>7. PtrTyped'
  BY <1>1, <1>2, <1>3, <1>4, <1>6 DEF PtrTyped
<1>8. Rooted'
  <2> SUFFICES ASSUME NEW w \in Vars
               PROVE  Times(top', w) = cleared[w] + (IF OnStack(w)' THEN 1 ELSE 0)
    BY DEF Rooted
  <2>1. Times(top, w) = cleared[w] + (IF OnStack(w) THEN 1 ELSE 0) /\ cleared[w] \in Nat
    BY <1>1 DEF Rooted, PtrTyped
  <2>2. CASE w = v
    <3>1. ~OnStack(w) /\ (OnStack(w)' <=> ~flags.new_active)
      BY <2>2, <1>1, <1>2, <1>3 DEF OnStack, PtrTyped
    <3> QED BY <2>1, <2>2, <3>1, <1>6
  <2>3. CASE w # v
    <3>1. OnStack(w)' <=> OnStack(w)
      BY <2>3, <1>1, <1>2 DEF OnStack, PtrTyped
    <3> QED BY <2>1, <2>3, <3>1, <1>6
  <2> QED BY <2>2, <2>3
<1>9. Flagged'
  BY <1>1, <1>2, <1>3 DEF Flagged, PtrTyped
<1> QED BY <1>4, <1>7, <1>8, <1>9 DEF PtrInv

LEMMA DestroyKeeps ==
    ASSUME PtrInv, NEW v \in Vars, Destroy(v), UNCHANGED owner
    PROVE  PtrInv'
<1>1. PtrTyped /\ Counted /\ Rooted /\ Flagged
  BY DEF PtrInv
<1>2. /\ ptr[v] # Null
      /\ ptr' = [ptr EXCEPT ![v] = Null]
      /\ UNCHANGED cleared
  BY DEF Destroy
<1>3. Counted' /\ ref_count' \in [Composites -> Nat]
  <2>1. CountRefs(Held(ptr[v]), Held(Null))
    BY <1>2 DEF Destroy, Held
  <2> QED BY <1>1, <1>2, <2>1, Recount
<1>4. top \in Seq(Vars)
  BY <1>1 DEF PtrTyped
<1>5. \A w \in Vars : /\ Times(top, w) = cleared[w] + (IF OnStack(w) THEN 1 ELSE 0)
                       /\ cleared[w] \in Nat
  BY <1>1 DEF Rooted, PtrTyped
<1>6. /\ top' \in Seq(Vars)
      /\ \A w \in Vars : Times(top', w) = Times(top, w) -
             (IF w = v /\ OnStack(v) THEN 1 ELSE 0)
  <2>1. CASE ~OnStack(v)
    <3>1. top' = top
      BY <2>1, <1>2 DEF Destroy, OnStack
    <3>2. \A w \in Vars : Times(top, w) \in Nat
      BY <1>4, WhereFinite
    <3> QED BY <2>1, <3>1, <3>2, <1>4
  <2>2. CASE OnStack(v)
    <3>1. top' = Tail(Replaced(v))
      BY <2>2 DEF Destroy, OnStack, delete_stack_root
    <3>2. Times(top, v) > 0
      BY <2>2, <1>5
    <3>3. Tail(Replaced(v)) \in Seq(Vars)
      BY <1>4, <3>2, DeleteCount
    <3>4. \A w \in Vars : Times(Tail(Replaced(v)), w) =
                           Times(top, w) - (IF w = v THEN 1 ELSE 0)
      BY <1>4, <3>2, DeleteCount
    <3> QED BY <2>2, <3>1, <3>3, <3>4
  <2> QED BY <2>1, <2>2
<1>7. PtrTyped'
  BY <1>1, <1>2, <1>3, <1>6 DEF PtrTyped
<1>8. Rooted'
  <2> SUFFICES ASSUME NEW w \in Vars
               PROVE  Times(top', w) = cleared[w] + (IF OnStack(w)' THEN 1 ELSE 0)
    BY <1>2 DEF Rooted
  <2>1. CASE w = v
    <3>1. ~OnStack(w)'
      BY <2>1, <1>1, <1>2 DEF OnStack, PtrTyped
    <3> QED BY <2>1, <3>1, <1>5, <1>6
  <2>2. CASE w # v
    <3>1. OnStack(w)' <=> OnStack(w)
      BY <2>2, <1>1, <1>2 DEF OnStack, PtrTyped
    <3> QED BY <2>2, <3>1, <1>5, <1>6
  <2> QED BY <2>1, <2>2
<1>9. Flagged'
  BY <1>1, <1>2 DEF Flagged, PtrTyped
<1> QED BY <1>3, <1>7, <1>8, <1>9 DEF PtrInv

(* A gc_ptr that is live gets another value but keeps its stack bit.       *)
LEMMA ValueKeeps ==
    ASSUME PtrInv, NEW v \in Vars, ptr[v] # Null,
           NEW p \in Value, p.stack = ptr[v].stack,
           ptr' = [ptr EXCEPT ![v] = p],
           CountRefs(ptr[v].comp, p.comp),
           UNCHANGED <<top, cleared, owner>>
    PROVE  PtrInv'
<1>1. PtrTyped /\ Counted /\ Rooted /\ Flagged
  BY DEF PtrInv
<1>2. p # Null
  BY ValueAssumption
<1>3. Counted' /\ ref_count' \in [Composites -> Nat]
  <2>1. Held(ptr[v]) = ptr[v].comp /\ Held(p) = p.comp
    BY <1>2 DEF Held
  <2> QED BY <1>1, <2>1, Recount
<1>4. PtrTyped'
  BY <1>1, <1>3 DEF PtrTyped
<1>5. \A w \in Vars : OnStack(w)' <=> OnStack(w)
  BY <1>1, <1>2 DEF OnStack, PtrTyped
<1>6. Rooted'
  BY <1>1, <1>5 DEF Rooted
<1>7. Flagged'
  BY <1>1, <1>2 DEF Flagged, PtrTyped
<1> QED BY <1>3, <1>4, <1>6, <1>7 DEF PtrInv

LEMMA AssignKeeps ==
    ASSUME PtrInv, NEW v \in Vars, NEW u \in Vars, Assign(v, u), UNCHANGED owner
    PROVE  PtrInv'
<1>1. ptr[v] \in Value /\ ptr[u] \in Value
  BY DEF Assign, PtrInv, PtrTyped
<1>2. /\ Assigned(v, u) \in Value
      /\ Assigned(v, u).stack = ptr[v].stack
      /\ Assigned(v, u).comp = ptr[u].comp
  BY <1>1 DEF Assigned, set_stack_flag, clear_stack_flag, Value
<1>3. CountRefs(ptr[v].comp, Assigned(v, u).comp)
  BY <1>2 DEF Assign
<1>4. ptr[v] # Null /\ ptr' = [ptr EXCEPT ![v] = Assigned(v, u)]
  BY DEF Assign
<1>5. UNCHANGED <<top, cleared, owner>>
  BY DEF Assign
<1> QED BY <1>2, <1>3, <1>4, <1>5, ValueKeeps

LEMMA AttachKeeps ==
    ASSUME PtrInv, NEW v \in Vars, NEW c \in Composites, attach(v, c),
           UNCHANGED owner
    PROVE  PtrInv'
<1> DEFINE p == [ptr[v] EXCEPT !.comp = c]
<1>1. ptr[v] \in Value /\ ptr[v] # Null
  BY DEF attach, PtrInv, PtrTyped
<1>2. p \in Value /\ p.stack = ptr[v].stack /\ p.comp = c
  BY <1>1 DEF Value
<1>3. ptr' = [ptr EXCEPT ![v] = p]
  BY DEF attach
<1>4. ref_count[c] = 0
  <2>1. Holders(c) = {}
    BY DEF attach, Holders
  <2> QED BY <2>1, FS_EmptySet DEF PtrInv, Counted
<1>5. ptr[v].comp # c
  BY <1>1 DEF attach
<1>6. CountRefs(ptr[v].comp, c)
  <2>1. \A d \in Composites : ref_count[d] \in Nat
    BY DEF PtrInv, PtrTyped
  <2>2. \A d \in Composites :
            (IF d = c THEN 1 ELSE ref_count[d] - (IF d = ptr[v].comp THEN 1 ELSE 0)) =
            ref_count[d] - (IF d = ptr[v].comp THEN 1 ELSE 0) + (IF d = c THEN 1 ELSE 0)
    BY <1>4, <1>5, <2>1
  <2> QED BY <2>2 DEF attach, CountRefs
<1>7. UNCHANGED <<top, cleared, owner>>
  BY DEF attach
<1> HIDE DEF p
<1> QED BY <1>1, <1>2, <1>3, <1>6, <1>7, ValueKeeps

(* setNULL takes the stack bit away and counts it in `cleared'.            *)
LEMMA ClearKeeps ==
    ASSUME PtrInv, NEW v \in Vars, setNULL(v), UNCHANGED owner
    PROVE  PtrInv'
<1>1. PtrTyped /\ Counted /\ Rooted /\ Flagged
  BY DEF PtrInv
<1>2. Simple \in Value /\ Simple # Null /\ ~Simple.stack /\ Simple.comp = Null
  <2>1. Simple \in Value /\ ~Simple.stack /\ Simple.comp = Null
    BY DEF Simple, Value
  <2> QED BY <2>1, ValueAssumption
<1>3. /\ ptr[v] # Null
      /\ ptr' = [ptr EXCEPT ![v] = Simple]
      /\ top' = top
  BY DEF setNULL
<1>4. Counted' /\ ref_count' \in [Composites -> Nat]
  <2>1. CountRefs(Held(ptr[v]), Held(Simple))
    BY <1>2, <1>3 DEF setNULL, Held
  <2> QED BY <1>1, <1>2, <1>3, <2>1, Recount
<1>5. cleared' \in [Vars -> Nat]
  BY <1>1 DEF setNULL, PtrTyped
<1>6. PtrTyped'
  BY <1>1, <1>2, <1>3, <1>4, <1>5 DEF PtrTyped
<1>7. \A w \in Vars : cleared'[w] =
          cleared[w] + (IF w = v /\ OnStack(v) THEN 1 ELSE 0)
  BY <1>1, <1>3 DEF setNULL, PtrTyped, OnStack
<1>8. \A w \in Vars : OnStack(w)' <=> w # v /\ OnStack(w)
  BY <1>1, <1>2, <1>3 DEF OnStack, PtrTyped
<1>9. \A w \in Vars : cleared[w] \in Nat
  BY <1>1 DEF PtrTyped
<1>10. Rooted'
  BY <1>1, <1>3, <1>7, <1>8, <1>9 DEF Rooted
<1>11. Flagged'
  <2> SUFFICES ASSUME NEW w \in Vars, ptr'[w] # Null, owner[w] = 0
               PROVE  ptr'[w].stack \/ cleared'[w] > 0
    BY DEF Flagged
  <2>1. CASE w = v
    BY <2>1, <1>1, <1>3, <1>7, <1>9 DEF Flagged, OnStack
  <2>2. CASE w # v
    <3>1. ptr'[w] = ptr[w]
      BY <2>2, <1>1, <1>3 DEF PtrTyped
    <3> QED BY <2>2, <3>1, <1>1, <1>7, <1>9 DEF Flagged
  <2> QED BY <2>1, <2>2
<1> QED BY <1>4, <1>6, <1>10, <1>11 DEF PtrInv
-----------------------------------------------------------------------------
(* The invariant of the calls of gc_new.  fs are the calls, fl the flags   *)
(* of the innermost; Saved are those that the constructor at depth d will  *)
(* find again, which are right for it (Right).  A call for a type that is  *)
(* known passes offsets through.                                           *)
Saved(fs, fl, d) == IF d = Len(fs) THEN fl ELSE fs[d + 1].old
Reported(f) == IF f.element > 1 THEN Members[f.type] ELSE f.built

Right(fs, fl, d) ==
    /\ fl.nesting_level = d
    /\ fl.new_active <=> d > 0
    /\ fl.no_active <=> d > 0 /\ (fs[d].known \/ fs[d].element > 1)
    /\ d = 0 => fl.offsets = <<>>
    /\ d > 0 /\ ~fs[d].known =>
           /\ fl.current_pointer_to_object = d * Stride
           /\ fl.offsets = [i \in 1..Reported(fs[d]) |-> i - 1]

Passed(fs, fl, d) ==
    fs[d].known =>
        /\ Saved(fs, fl, d).offsets = fs[d].old.offsets
        /\ Saved(fs, fl, d).current_pointer_to_object =
               fs[d].old.current_pointer_to_object

Within(f) == f.element <= f.count /\ f.built <= Members[f.type]

FramesRight(fs, fl) ==
    /\ fs \in Seq(Frame)
    /\ fl \in Flags
    /\ \A d \in 0..Len(fs) : Right(fs, Saved(fs, fl, d), d)
    /\ \A d \in 1..Len(fs) : Passed(fs, fl, d) /\ Within(fs[d])

LEMMA FrameAt ==
    ASSUME NEW fs \in Seq(Frame)
    PROVE  /\ Len(fs) \in Nat
           /\ \A d \in 1..Len(fs) :
                  /\ fs[d] \in Frame
                  /\ Members[fs[d].type] \in Nat
<1>1. Len(fs) \in Nat /\ \A d \in 1..Len(fs) : fs[d] \in Frame
  BY LenProperties, ElementOfSeq
<1>2. \A f \in Frame : Members[f.type] \in Nat
  BY TypesAssumption DEF Frame
<1> QED BY <1>1, <1>2

LEMMA OneMore ==
    ASSUME NEW f \in Frame
    PROVE  LET g == [f EXCEPT !.built = @ + 1]
           IN  /\ g \in Frame
               /\ g.known = f.known /\ g.old = f.old /\ g.type = f.type
               /\ g.element = f.element /\ g.count = f.count
               /\ g.built = f.built + 1
BY DEF Frame

LEMMA Shorter ==
    ASSUME NEW fs \in Seq(Frame), Len(fs) > 0
    PROVE  LET gs == SubSeq(fs, 1, Len(fs) - 1)
           IN  /\ gs \in Seq(Frame)
               /\ Len(gs) = Len(fs) - 1
               /\ \A i \in 1..Len(fs) - 1 : gs[i] = fs[i]
<1> DEFINE L == Len(fs)
           gs == SubSeq(fs, 1, L - 1)
<1>1. L \in Nat \ {0} /\ \A i \in 1..L - 1 : fs[i] \in Frame
  BY FrameAt
<1>2. 1 \in Int /\ L - 1 \in Int
  BY <1>1
<1>3. /\ gs \in Seq(Frame)
      /\ Len(gs) = IF 1 <= L - 1 THEN (L - 1) - 1 + 1 ELSE 0
      /\ \A i \in 1..(L - 1) - 1 + 1 : gs[i] = fs[1 + i - 1]
  BY <1>1, <1>2, SubSeqProperties
<1> HIDE DEF gs, L
<1>4. Len(gs) = L - 1 /\ \A i \in 1..L - 1 : 1 + i - 1 = i
  BY <1>1, <1>3
<1>5. \A i \in 1..L - 1 : gs[i] = fs[i]
  BY <1>1, <1>3, <1>4
<1> QED BY <1>3, <1>4, <1>5 DEF gs, L

LEMMA NextOne ==
    ASSUME NEW f \in Frame
    PROVE  LET g == [f EXCEPT !.element = @ + 1, !.built = 0]
           IN  /\ g \in Frame
               /\ g.known = f.known /\ g.old = f.old /\ g.type = f.type
               /\ g.element = f.element + 1 /\ g.count = f.count
               /\ g.built = 0
<1> DEFINE e == f.element + 1
           g == [f EXCEPT !.element = e, !.built = 0]
<1>1. e \in Nat \ {0}
  BY DEF Frame
<1> HIDE DEF e
<1>2. /\ g \in Frame
      /\ g.known = f.known /\ g.old = f.old /\ g.type = f.type
      /\ g.element = e /\ g.count = f.count /\ g.built = 0
  BY <1>1 DEF Frame
<1> QED BY <1>2 DEF e

LEMMA FirstOffsets ==
    ASSUME NEW n \in Nat
    PROVE  LET s == [i \in 1..n |-> i - 1]
           IN  /\ s \in Seq(Int)
               /\ Append(s, n) = [i \in 1..n + 1 |-> i - 1]
<1> DEFINE s == [i \in 1..n |-> i - 1]
           r == [i \in 1..n + 1 |-> i - 1]
<1>1. s \in Seq(Int) /\ r \in Seq(Int)
  <2>1. s \in [1..n -> Int] /\ r \in [1..n + 1 -> Int]
    OBVIOUS
  <2> QED BY <2>1, SeqDef
<1>2. Len(s) = n /\ Len(r) = n + 1
  <2>1. DOMAIN s = 1..n /\ DOMAIN r = 1..n + 1
    OBVIOUS
  <2> HIDE DEF s, r
  <2> QED BY <1>1, <2>1, LenProperties
<1>3. /\ \A i \in 1..n : s[i] = i - 1
      /\ \A i \in 1..n + 1 : r[i] = i - 1
  OBVIOUS
<1> HIDE DEF s, r
<1>4. /\ Append(s, n) \in Seq(Int)
      /\ Len(Append(s, n)) = n + 1
      /\ \A i \in 1..n : Append(s, n)[i] = s[i]
      /\ Append(s, n)[n + 1] = n
  BY <1>1, <1>2, AppendProperties
<1>5. \A i \in 1..n + 1 : Append(s, n)[i] = r[i]
  BY <1>3, <1>4
<1>6. Append(s, n) = r
  BY <1>1, <1>2, <1>4, <1>5, SeqEqual
<1> QED BY <1>1, <1>6 DEF s, r

(* A call of gc_new begins.                                                *)
LEMMA CallKeeps ==
    ASSUME NEW fs, NEW fl, FramesRight(fs, fl),
           NEW T \in Types, NEW n \in Counts, NEW known \in BOOLEAN,
           NEW new, new =
               [new_active |-> TRUE,
                no_active |-> known,
                nesting_level |-> fl.nesting_level + 1,
                current_pointer_to_object |->
                    IF known THEN fl.current_pointer_to_object
                             ELSE (Len(fs) + 1) * Stride,
                offsets |-> IF known THEN fl.offsets ELSE <<>>]
    PROVE  FramesRight(Append(fs, [type |-> T, count |-> n, known |-> known,
                                   old |-> fl, element |-> 1, built |-> 0]), new)
<1> DEFINE f == [type |-> T, count |-> n, known |-> known, old |-> fl,
                 element |-> 1, built |-> 0]
           gs == Append(fs, f)
           L == Len(fs)
<1>1. fs \in Seq(Frame) /\ fl \in Flags /\ L \in Nat
  BY FrameAt DEF FramesRight
<1>2. f \in Frame
  BY <1>1 DEF Frame
<1>3. /\ gs \in Seq(Frame)
      /\ Len(gs) = L + 1
      /\ \A i \in 1..L : gs[i] = fs[i]
      /\ gs[L + 1] = f
  BY <1>1, <1>2, AppendProperties
<1>4. Right(fs, fl, L)
  BY <1>1 DEF FramesRight, Saved
<1>5. new \in Flags
  <2>1. (L + 1) * Stride \in Int
    BY <1>1, TypesAssumption
  <2>2. <<>> \in Seq(Int)
    OBVIOUS
  <2> QED BY <1>1, <2>1, <2>2 DEF Flags
<1>6. /\ f.type = T /\ f.count = n /\ f.known = known /\ f.old = fl
      /\ f.element = 1 /\ f.built = 0
  OBVIOUS
<1> HIDE DEF f, gs
<1>7. \A d \in 0..L : Saved(gs, new, d) = Saved(fs, fl, d)
  <2> SUFFICES ASSUME NEW d \in 0..L
               PROVE  Saved(gs, new, d) = Saved(fs, fl, d)
    OBVIOUS
  <2>1. CASE d = L
    BY <2>1, <1>1, <1>3, <1>6 DEF Saved
  <2>2. CASE d # L
    <3>1. d + 1 \in 1..L /\ d # L + 1
      BY <2>2, <1>1
    <3> QED BY <2>2, <3>1, <1>1, <1>3 DEF Saved
  <2> QED BY <2>1, <2>2
<1>8. ASSUME NEW d \in 0..Len(gs)
      PROVE  Right(gs, Saved(gs, new, d), d)
  <2>1. CASE d \in 0..L
    <3>1. Right(fs, Saved(fs, fl, d), d)
      BY <2>1 DEF FramesRight
    <3>2. d > 0 => gs[d] = fs[d]
      BY <2>1, <1>1, <1>3
    <3> QED BY <2>1, <3>1, <3>2, <1>7 DEF Right
  <2>2. CASE d = L + 1
    <3>1. Saved(gs, new, d) = new
      BY <2>2, <1>3 DEF Saved
    <3>2. fl.nesting_level = L
      BY <1>4 DEF Right
    <3>3. d > 0 /\ gs[d] = f /\ Reported(gs[d]) = 0
      BY <2>2, <1>1, <1>3, <1>6 DEF Reported
    <3>4. [i \in 1..0 |-> i - 1] = <<>>
      OBVIOUS
    <3> QED BY <2>2, <3>1, <3>2, <3>3, <3>4, <1>1, <1>6 DEF Right
  <2> QED BY <2>1, <2>2, <1>1, <1>3
<1>9. ASSUME NEW d \in 1..Len(gs)
      PROVE  Passed(gs, new, d) /\ Within(gs[d])
  <2>1. CASE d \in 1..L
    <3>1. Passed(fs, fl, d) /\ Within(fs[d])
      BY <2>1 DEF FramesRight
    <3>2. gs[d] = fs[d] /\ Saved(gs, new, d) = Saved(fs, fl, d)
      <4>1. d \in 0..L
        BY <2>1, <1>1
      <4> HIDE DEF L
      <4> QED BY <2>1, <4>1, <1>3, <1>7, Zenon
    <3>3. Within(gs[d])
      BY <3>1, <3>2
    <3>4. Passed(gs, new, d) <=> Passed(fs, fl, d)
      BY <3>2, Zenon DEF Passed
    <3> QED BY <3>1, <3>3, <3>4
  <2>2. CASE d = L + 1
    <3>1. Saved(gs, new, d) = new /\ gs[d] = f
      BY <2>2, <1>3 DEF Saved
    <3>2. Passed(gs, new, d)
      BY <3>1, <1>6 DEF Passed
    <3>3. n \in Nat \ {0} /\ Members[T] \in Nat
      BY TypesAssumption
    <3> QED BY <3>1, <3>2, <3>3, <1>6 DEF Within
  <2> QED BY <2>1, <2>2, <1>1, <1>3
<1>10. FramesRight(gs, new)
  BY <1>3, <1>5, <1>8, <1>9 DEF FramesRight
<1> QED BY <1>10 DEF gs, f

(* The constructor that runs goes on: only the innermost call changes.     *)
LEMMA InnermostKeeps ==
    ASSUME NEW fs, NEW fl, FramesRight(fs, fl), Len(fs) > 0,
           NEW g \in Frame, NEW gl \in Flags, Within(g),
           g.known = fs[Len(fs)].known, g.old = fs[Len(fs)].old,
           Right([fs EXCEPT ![Len(fs)] = g], gl, Len(fs)),
           g.known => /\ gl.offsets = fl.offsets
                      /\ gl.current_pointer_to_object = fl.current_pointer_to_object
    PROVE  FramesRight([fs EXCEPT ![Len(fs)] = g], gl)
<1> DEFINE L == Len(fs)
           gs == [fs EXCEPT ![L] = g]
<1>1. fs \in Seq(Frame) /\ fl \in Flags /\ L \in Nat /\ L \in 1..L
  <2>1. fs \in Seq(Frame) /\ fl \in Flags
    BY DEF FramesRight
  <2>2. L \in Nat
    BY <2>1, FrameAt
  <2> QED BY <2>1, <2>2
<1>2. /\ gs \in Seq(Frame)
      /\ Len(gs) = L
      /\ \A i \in 1..L : gs[i] = IF i = L THEN g ELSE fs[i]
  BY <1>1, ExceptSeq
<1> HIDE DEF gs
<1>3. \A d \in 0..L - 1 : Saved(gs, gl, d) = Saved(fs, fl, d)
  <2> SUFFICES ASSUME NEW d \in 0..L - 1
               PROVE  Saved(gs, gl, d) = Saved(fs, fl, d)
    OBVIOUS
  <2>1. d + 1 \in 1..L /\ d # L
    BY <1>1
  <2>2. gs[d + 1].old = fs[d + 1].old
    BY <2>1, <1>2
  <2> QED BY <2>1, <2>2, <1>2 DEF Saved
<1>4. Saved(gs, gl, L) = gl /\ Saved(fs, fl, L) = fl
  BY <1>2 DEF Saved
<1>5. ASSUME NEW d \in 0..L
      PROVE  Right(gs, Saved(gs, gl, d), d)
  <2>1. CASE d = L
    BY <2>1, <1>4 DEF gs
  <2>2. CASE d # L
    <3>1. d \in 0..L - 1
      BY <2>2, <1>1
    <3>2. Right(fs, Saved(fs, fl, d), d)
      BY DEF FramesRight
    <3>3. d > 0 => gs[d] = fs[d]
      BY <3>1, <1>1, <1>2
    <3> QED BY <3>1, <3>2, <3>3, <1>1, <1>3 DEF Right
  <2> QED BY <2>1, <2>2
<1>6. ASSUME NEW d \in 1..L
      PROVE  Passed(gs, gl, d) /\ Within(gs[d])
  <2>1. Passed(fs, fl, d) /\ Within(fs[d])
    BY DEF FramesRight
  <2>2. CASE d = L
    <3>1. gs[d] = g
      BY <2>2, <1>2
    <3> QED BY <2>1, <2>2, <3>1, <1>4 DEF Passed
  <2>3. CASE d # L
    <3>1. d \in 0..L - 1
      BY <2>3, <1>1
    <3>2. gs[d] = fs[d] /\ Saved(gs, gl, d) = Saved(fs, fl, d)
      BY <2>3, <3>1, <1>2, <1>3
    <3> QED BY <2>1, <3>2 DEF Passed
  <2> QED BY <2>2, <2>3
<1>7. FramesRight(gs, gl)
  BY <1>2, <1>5, <1>6 DEF FramesRight
<1> QED BY <1>7 DEF gs

(* A gc_ptr of the object reports its offset, if it is wanted.             *)
LEMMA MemberKeeps ==
    ASSUME NEW fs, NEW fl, FramesRight(fs, fl), Len(fs) > 0,
           fs[Len(fs)].built < Members[fs[Len(fs)].type]
    PROVE  FramesRight([fs EXCEPT ![Len(fs)].built = @ + 1],
                       ConstructMember(NextMember(fs[Len(fs)], Len(fs)), fl))
<1> DEFINE L == Len(fs)
           f == fs[L]
           g == [f EXCEPT !.built = @ + 1]
           gl == ConstructMember(NextMember(f, L), fl)
           gs == [fs EXCEPT ![L] = g]
<1>1. /\ fs \in Seq(Frame) /\ fl \in Flags /\ L \in Nat \ {0}
      /\ f \in Frame /\ Members[f.type] \in Nat
      /\ Right(fs, fl, L) /\ Within(f)
  <2>1. fs \in Seq(Frame) /\ fl \in Flags
    BY DEF FramesRight
  <2>2. L \in Nat \ {0} /\ f \in Frame /\ Members[f.type] \in Nat
    BY <2>1, FrameAt
  <2>3. Saved(fs, fl, L) = fl
    BY DEF Saved
  <2> QED BY <2>1, <2>2, <2>3 DEF FramesRight
<1>2. /\ g \in Frame
      /\ g.known = f.known /\ g.old = f.old /\ g.type = f.type
      /\ g.element = f.element /\ g.count = f.count /\ g.built = f.built + 1
  BY <1>1, OneMore
<1>3. Within(g)
  BY <1>1, <1>2 DEF Within, Frame
<1>4. fl.no_active <=> f.known \/ f.element > 1
  BY <1>1 DEF Right
<1>5. gs[L] = g
  <2>1. L \in DOMAIN fs
    BY <1>1, LenProperties
  <2> QED BY <2>1
<1> HIDE DEF g, gs
<1>6. CASE fl.no_active
  <2>1. gl = fl
    BY <1>6 DEF ConstructMember
  <2>2. ~f.known => Reported(g) = Reported(f)
    BY <1>2, <1>4, <1>6 DEF Reported
  <2>3. Right(gs, gl, L)
    BY <2>1, <2>2, <1>1, <1>2, <1>5 DEF Right
  <2>4. FramesRight(gs, gl)
    BY <2>1, <2>3, <1>1, <1>2, <1>3, InnermostKeeps DEF gs
  <2> QED BY <2>4 DEF gs, g
<1>7. CASE ~fl.no_active
  <2>1. ~f.known /\ f.element = 1 /\ f.built \in Nat
    BY <1>1, <1>4, <1>7 DEF Frame
  <2>2. /\ fl.current_pointer_to_object = L * Stride
        /\ fl.offsets = [i \in 1..f.built |-> i - 1]
    BY <2>1, <1>1 DEF Right, Reported
  <2>3. L * Stride \in Int
    BY <1>1, TypesAssumption
  <2>4. NextMember(f, L) = L * Stride + f.built
    BY <2>1, <2>3, <1>1 DEF NextMember
  <2>5. NextMember(f, L) - fl.current_pointer_to_object = f.built
    BY <2>1, <2>2, <2>3, <2>4
  <2>6. gl = [fl EXCEPT !.offsets = Append(@, f.built)]
    BY <2>5, <1>7 DEF ConstructMember
  <2>7. Append(fl.offsets, f.built) = [i \in 1..f.built + 1 |-> i - 1]
    BY <2>1, <2>2, FirstOffsets
  <2>8. fl.offsets \in Seq(Int)
    BY <1>1 DEF Flags
  <2>9. /\ gl \in Flags
        /\ gl.offsets = [i \in 1..f.built + 1 |-> i - 1]
        /\ gl.nesting_level = fl.nesting_level
        /\ gl.new_active = fl.new_active
        /\ gl.no_active = fl.no_active
        /\ gl.current_pointer_to_object = fl.current_pointer_to_object
    <3>1. Append(fl.offsets, f.built) \in Seq(Int)
      BY <2>1, <2>8, AppendProperties
    <3> QED BY <2>6, <2>7, <3>1, <1>1 DEF Flags
  <2>10. Reported(g) = f.built + 1
    BY <2>1, <1>2 DEF Reported
  <2> HIDE DEF gl
  <2>11. Right(gs, gl, L)
    BY <2>2, <2>9, <2>10, <1>1, <1>2, <1>5 DEF Right
  <2>12. FramesRight(gs, gl)
    BY <2>1, <2>9, <2>11, <1>1, <1>2, <1>3, InnermostKeeps DEF gs
  <2> QED BY <2>12 DEF gs, g, gl
<1> QED BY <1>6, <1>7

(* A call of gc_new ends, and the flags are those that it found.           *)
LEMMA ReturnKeeps ==
    ASSUME NEW fs, NEW fl, FramesRight(fs, fl), Len(fs) > 0
    PROVE  FramesRight(SubSeq(fs, 1, Len(fs) - 1), fs[Len(fs)].old)
<1> DEFINE L == Len(fs)
           gs == SubSeq(fs, 1, L - 1)
           gl == fs[L].old
<1>1. /\ fs \in Seq(Frame) /\ L \in Nat \ {0}
      /\ \A d \in 1..L : fs[d] \in Frame
  BY FrameAt DEF FramesRight
<1>2. /\ gs \in Seq(Frame)
      /\ Len(gs) = L - 1
      /\ \A i \in 1..L - 1 : gs[i] = fs[i]
  BY <1>1, Shorter
<1>3. gl \in Flags
  BY <1>1 DEF Frame
<1> HIDE DEF gs
<1>4. \A d \in 0..L - 1 : Saved(gs, gl, d) = Saved(fs, fl, d)
  <2> SUFFICES ASSUME NEW d \in 0..L - 1
               PROVE  Saved(gs, gl, d) = Saved(fs, fl, d)
    OBVIOUS
  <2>1. CASE d = L - 1
    BY <2>1, <1>1, <1>2 DEF Saved
  <2>2. CASE d # L - 1
    <3>1. d + 1 \in 1..L - 1 /\ d # L
      BY <2>2, <1>1
    <3> QED BY <2>2, <3>1, <1>2 DEF Saved
  <2> QED BY <2>1, <2>2
<1>5. ASSUME NEW d \in 0..L - 1
      PROVE  Right(gs, Saved(gs, gl, d), d)
  <2>1. Right(fs, Saved(fs, fl, d), d)
    BY <1>1 DEF FramesRight
  <2>2. d > 0 => gs[d] = fs[d]
    BY <1>1, <1>2
  <2> QED BY <2>1, <2>2, <1>1, <1>4 DEF Right
<1>6. ASSUME NEW d \in 1..L - 1
      PROVE  Passed(gs, gl, d) /\ Within(gs[d])
  <2>1. Passed(fs, fl, d) /\ Within(fs[d])
    BY <1>1 DEF FramesRight
  <2>2. gs[d] = fs[d] /\ Saved(gs, gl, d) = Saved(fs, fl, d)
    BY <1>1, <1>2, <1>4
  <2> QED BY <2>1, <2>2 DEF Passed
<1>7. FramesRight(gs, gl)
  BY <1>2, <1>3, <1>5, <1>6 DEF FramesRight
<1> QED BY <1>7 DEF gs

(* The next element of an array: from now on nothing is reported.          *)
LEMMA ElementKeeps ==
    ASSUME FramesRight(frames, tlflags), NextElement
    PROVE  FramesRight(frames, tlflags)'
<1> DEFINE f == frames[Depth]
           g == [f EXCEPT !.element = @ + 1, !.built = 0]
           gs == [frames EXCEPT ![Depth] = g]
<1>1. /\ frames \in Seq(Frame) /\ tlflags \in Flags /\ Depth \in Nat \ {0}
      /\ f \in Frame /\ Members[f.type] \in Nat
      /\ Right(frames, tlflags, Depth)
  <2>1. frames \in Seq(Frame) /\ tlflags \in Flags
    BY DEF FramesRight
  <2>2. Depth \in Nat \ {0} /\ f \in Frame /\ Members[f.type] \in Nat
    BY <2>1, FrameAt DEF NextElement, Built, Depth
  <2>3. Saved(frames, tlflags, Depth) = tlflags
    BY DEF Saved, Depth
  <2> QED BY <2>1, <2>2, <2>3 DEF FramesRight, Depth
<1>2. f.built = Members[f.type] /\ f.element < f.count
  BY DEF NextElement, Built, Inner
<1>3. /\ g \in Frame
      /\ g.known = f.known /\ g.old = f.old /\ g.type = f.type
      /\ g.element = f.element + 1 /\ g.count = f.count /\ g.built = 0
  BY <1>1, NextOne
<1>4. f.element \in Nat \ {0} /\ f.count \in Nat
  BY <1>1, TypesAssumption DEF Frame
<1>5. Depth \in DOMAIN frames
  BY <1>1, LenProperties DEF Depth
<1>6. frames' = gs
  BY <1>5 DEF NextElement
<1>7. gs[Depth] = g
  BY <1>5
<1>8. /\ Skipped \in Flags
      /\ Skipped.no_active
      /\ Skipped.new_active = tlflags.new_active
      /\ Skipped.nesting_level = tlflags.nesting_level
      /\ Skipped.offsets = tlflags.offsets
      /\ Skipped.current_pointer_to_object = tlflags.current_pointer_to_object
  BY <1>1 DEF Skipped, Flags
<1>9. Reported(f) = Members[f.type] /\ Reported(g) = Members[f.type]
  BY <1>2, <1>3, <1>4 DEF Reported
<1>10. Within(g)
  BY <1>1, <1>2, <1>3, <1>4 DEF Within
<1>11. f = frames[Depth]
  OBVIOUS
<1> HIDE DEF f, g, gs
<1>12. Right(gs, Skipped, Depth)
  <2>1. g.element > 1
    BY <1>3, <1>4
  <2>2. /\ tlflags.nesting_level = Depth /\ tlflags.new_active
        /\ ~f.known => /\ tlflags.current_pointer_to_object = Depth * Stride
                       /\ tlflags.offsets = [i \in 1..Reported(f) |-> i - 1]
    BY <1>1, <1>11 DEF Right
  <2>3. gs[Depth].known = f.known /\ gs[Depth].element > 1 /\ Reported(gs[Depth]) = Reported(f)
    BY <1>3, <1>7, <1>9, <2>1
  <2>4. Depth > 0 /\ Depth # 0
    BY <1>1
  <2> QED BY <1>8, <2>2, <2>3, <2>4 DEF Right
<1>13. FramesRight(gs, Skipped)
  BY <1>1, <1>3, <1>8, <1>10, <1>12, InnermostKeeps DEF Depth, f, gs
<1> QED BY <1>6, <1>13 DEF NextElement

(* What gc_new restores are the flags that it found.                       *)
LEMMA RestoredIsOld ==
    ASSUME FramesRight(frames, tlflags), Depth > 0
    PROVE  Restored = Inner.old
<1>1. /\ frames \in Seq(Frame) /\ Depth \in Nat \ {0} /\ Inner \in Frame
  BY FrameAt DEF FramesRight, Depth, Inner
<1>2. Inner.old \in Flags
  BY <1>1 DEF Frame
<1>3. tlflags.nesting_level = Depth
  <2>1. Depth \in 0..Len(frames) /\ Depth = Len(frames)
    BY <1>1 DEF Depth
  <2>2. Saved(frames, tlflags, Depth) = tlflags
    BY <2>1 DEF Saved
  <2> QED BY <2>1, <2>2 DEF FramesRight, Right
<1>4. Inner.old.nesting_level = Depth - 1
  <2>1. Depth - 1 \in 0..Len(frames) /\ Depth - 1 # Len(frames) /\ (Depth - 1) + 1 = Depth
    BY <1>1 DEF Depth
  <2>2. Saved(frames, tlflags, Depth - 1) = Inner.old
    BY <2>1 DEF Saved, Inner
  <2> QED BY <2>1, <2>2 DEF FramesRight, Right
<1>5. Inner.known => /\ tlflags.offsets = Inner.old.offsets
                     /\ tlflags.current_pointer_to_object =
                            Inner.old.current_pointer_to_object
  BY <1>1 DEF FramesRight, Passed, Saved, Depth, Inner
<1>6. Restored =
          [new_active |-> Inner.old.new_active,
           no_active |-> Inner.old.no_active,
           nesting_level |-> Inner.old.nesting_level,
           current_pointer_to_object |-> Inner.old.current_pointer_to_object,
           offsets |-> Inner.old.offsets]
  <2>1. tlflags.nesting_level - 1 = Inner.old.nesting_level
    BY <1>1, <1>3, <1>4
  <2> QED BY <1>5, <2>1 DEF Restored
<1> HIDE DEF Restored, Inner
<1> QED BY <1>2, <1>6 DEF Flags

(* When gc_new ends, the flags hold the offsets of the whole object.       *)
LEMMA OffsetsComplete ==
    ASSUME FramesRight(frames, tlflags), Built, ~Inner.known
    PROVE  tlflags.offsets = [i \in 1..Members[Inner.type] |-> i - 1]
<1>1. Depth \in Nat \ {0}
  BY FrameAt DEF FramesRight, Built, Depth
<1>2. Right(frames, tlflags, Depth)
  BY <1>1 DEF FramesRight, Saved, Depth
<1>3. Reported(Inner) = Members[Inner.type]
  BY DEF Built, Reported
<1> QED BY <1>1, <1>2, <1>3 DEF Right, Inner
-----------------------------------------------------------------------------
(* The inductive invariant.  Its two parts meet in one fact: outside       *)
(* gc_new, new_active is FALSE, so that a gc_ptr there is registered.      *)
MetaTyped == clMeta \in [Types -> Seq(Int) \cup {Null}]
ClearedBound == \A v \in Vars : cleared[v] <= MaxClears

CallsInv == FramesRight(frames, tlflags) /\ MetaTyped /\ OffsetsExact

LEMMA CallsInit ==
    ASSUME Init
    PROVE  CallsInv
<1>1. frames = <<>> /\ Len(frames) = 0
  BY DEF Init
<1>2. frames \in Seq(Frame)
  BY <1>1
<1>3. <<>> \in Seq(Int)
  OBVIOUS
<1>4. tlflags \in Flags
  BY <1>3 DEF Init, InitPtr, Flags
<1>5. Saved(frames, tlflags, 0) = tlflags
  BY <1>1 DEF Saved
<1>6. Right(frames, tlflags, 0)
  BY DEF Init, InitPtr, Right
<1>7. \A d \in 0..0 : d = 0
  OBVIOUS
<1>8. 1..0 = {}
  OBVIOUS
<1>9. FramesRight(frames, tlflags)
  BY <1>1, <1>2, <1>4, <1>5, <1>6, <1>7, <1>8 DEF FramesRight
<1>10. MetaTyped /\ OffsetsExact
  BY DEF Init, MetaTyped, OffsetsExact, Known
<1> QED BY <1>9, <1>10 DEF CallsInv

(* A call that ends leaves the calls around it, and the offsets, right.    *)
LEMMA EndKeeps ==
    ASSUME CallsInv, EndOfNew
    PROVE  /\ FramesRight(SubSeq(frames, 1, Depth - 1), Restored)
           /\ (MetaTyped /\ OffsetsExact)'
           /\ Depth \in Nat \ {0}
           /\ Restored.new_active <=> Depth - 1 > 0
<1>1. FramesRight(frames, tlflags) /\ Depth > 0 /\ Built
  BY DEF CallsInv, EndOfNew, Built
<1>2. Depth \in Nat \ {0} /\ Inner \in Frame
  BY <1>1, FrameAt DEF FramesRight, Depth, Inner
<1>3. Restored = Inner.old
  BY <1>1, RestoredIsOld
<1>4. FramesRight(SubSeq(frames, 1, Depth - 1), Restored)
  BY <1>1, <1>3, ReturnKeeps DEF Depth, Inner
<1>5. (MetaTyped /\ OffsetsExact)'
  <2>1. CASE Inner.known
    BY <2>1 DEF CallsInv, MetaTyped, OffsetsExact, Known, EndOfNew
  <2>2. CASE ~Inner.known
    <3>1. Inner.type \in Types
      BY <1>2 DEF Frame
    <3>2. tlflags.offsets = [i \in 1..Members[Inner.type] |-> i - 1]
      BY <2>2, <1>1, OffsetsComplete
    <3>3. tlflags.offsets \in Seq(Int)
      BY <1>1 DEF FramesRight, Flags
    <3>4. clMeta' = [clMeta EXCEPT ![Inner.type] = tlflags.offsets]
      BY <2>2 DEF EndOfNew
    <3> QED BY <3>1, <3>2, <3>3, <3>4 DEF CallsInv, MetaTyped, OffsetsExact, Known
  <2> QED BY <2>1, <2>2
<1>6. Restored.new_active <=> Depth - 1 > 0
  <2>1. Depth - 1 \in 0..Len(frames) /\ Depth - 1 # Len(frames) /\ (Depth - 1) + 1 = Depth
    BY <1>2 DEF Depth
  <2>2. Saved(frames, tlflags, Depth - 1) = Inner.old
    BY <2>1 DEF Saved, Inner
  <2> QED BY <1>1, <1>3, <2>1, <2>2 DEF FramesRight, Right
<1> QED BY <1>2, <1>4, <1>5, <1>6

LEMMA CallsUnchanged ==
    ASSUME CallsInv, UNCHANGED <<tlflags, frames, clMeta>>
    PROVE  CallsInv'
BY DEF CallsInv, FramesRight, MetaTyped, OffsetsExact, Known

LEMMA CallsNext ==
    ASSUME CallsInv, Next
    PROVE  CallsInv'
<1>1. /\ FramesRight(frames, tlflags)
      /\ frames \in Seq(Frame)
      /\ MetaTyped /\ OffsetsExact
  BY DEF CallsInv, FramesRight
<1>2. UNCHANGED clMeta => (MetaTyped /\ OffsetsExact)'
  BY <1>1 DEF MetaTyped, OffsetsExact, Known
<1>3. ASSUME NEW T \in Types, create_meta_elsewhere(T)
      PROVE  CallsInv'
  <2> DEFINE m == [i \in 1..Members[T] |-> i - 1]
  <2>1. m \in Seq(Int)
    BY TypesAssumption, FirstOffsets
  <2>2. clMeta' = [clMeta EXCEPT ![T] = m]
    BY <1>3 DEF create_meta_elsewhere
  <2>3. MetaTyped'
    BY <1>1, <2>1, <2>2 DEF MetaTyped
  <2>4. OffsetsExact'
    BY <1>1, <2>2 DEF MetaTyped, OffsetsExact, Known
  <2>5. UNCHANGED <<frames, tlflags>>
    BY <1>3 DEF create_meta_elsewhere, ptrVars
  <2> QED BY <1>1, <2>3, <2>4, <2>5 DEF CallsInv
<1>4. ASSUME NEW T \in Types, NEW n \in Counts, gc_new(T, n)
      PROVE  CallsInv'
  <2>1. Known(T) \in BOOLEAN
    BY DEF Known
  <2>2. UNCHANGED clMeta
    BY <1>4 DEF gc_new
  <2>3. FramesRight(frames', tlflags')
    BY <1>1, <1>4, <2>1, CallKeeps DEF gc_new, Depth
  <2> QED BY <1>2, <2>2, <2>3 DEF CallsInv
<1>5. CASE BuildMember
  <2>1. Len(frames) \in DOMAIN frames /\ Depth = Len(frames)
    BY <1>1, <1>5, FrameAt, LenProperties DEF BuildMember, Depth
  <2>2. /\ Len(frames) > 0
        /\ frames[Len(frames)].built < Members[frames[Len(frames)].type]
    BY <1>5 DEF BuildMember, Inner, Depth
  <2>3. /\ frames' = [frames EXCEPT ![Len(frames)].built = @ + 1]
        /\ tlflags' = ConstructMember(NextMember(frames[Len(frames)], Len(frames)), tlflags)
        /\ UNCHANGED clMeta
    BY <1>5 DEF BuildMember, Inner, Depth
  <2>4. FramesRight(frames', tlflags')
    BY <1>1, <2>2, <2>3, MemberKeeps
  <2> QED BY <1>2, <2>3, <2>4 DEF CallsInv
<1>6. CASE NextElement
  <2>1. UNCHANGED clMeta
    BY <1>6 DEF NextElement
  <2>2. FramesRight(frames, tlflags)'
    BY <1>1, <1>6, ElementKeeps
  <2> QED BY <1>2, <2>1, <2>2 DEF CallsInv
<1>7. CASE ReturnToMember
  <2> DEFINE gs == SubSeq(frames, 1, Depth - 1)
  <2>1. EndOfNew /\ Depth > 1
    BY <1>7 DEF ReturnToMember
  <2>2. /\ FramesRight(gs, Restored)
        /\ (MetaTyped /\ OffsetsExact)'
        /\ Depth \in Nat \ {0}
    BY <2>1, EndKeeps
  <2>3. Len(gs) = Depth - 1 /\ gs[Depth - 1] = frames[Depth - 1]
    BY <1>1, <2>1, <2>2, Shorter DEF Depth
  <2>4. /\ gs[Len(gs)].built < Members[gs[Len(gs)].type]
        /\ tlflags' = ConstructMember(NextMember(gs[Len(gs)], Len(gs)), Restored)
        /\ frames' = [gs EXCEPT ![Len(gs)].built = @ + 1]
    BY <1>7, <2>3 DEF ReturnToMember
  <2>5. Len(gs) > 0
    BY <2>1, <2>2, <2>3
  <2> HIDE DEF gs
  <2>6. FramesRight([gs EXCEPT ![Len(gs)].built = @ + 1],
                    ConstructMember(NextMember(gs[Len(gs)], Len(gs)), Restored))
    BY <2>2, <2>4, <2>5, MemberKeeps
  <2> QED BY <2>2, <2>4, <2>6 DEF CallsInv
<1>8. CASE ReturnToTemporary
  BY <1>8, EndKeeps DEF ReturnToTemporary, CallsInv
<1>9. ASSUME NEW v \in Vars, ReturnToVariable(v)
      PROVE  CallsInv'
  BY <1>9, EndKeeps DEF ReturnToVariable, CallsInv
<1>10. ASSUME NEW v \in Vars, Construct(v)
       PROVE  CallsInv'
  BY <1>10, CallsUnchanged DEF Construct, Default, Copy, Move
<1>11. ASSUME NEW v \in Vars, EndOfScope(v)
       PROVE  CallsInv'
  BY <1>11, CallsUnchanged DEF EndOfScope, Destroy
<1>12. ASSUME NEW v \in Vars, Use(v)
       PROVE  CallsInv'
  BY <1>12, CallsUnchanged DEF Use, Assign, attach, setNULL
<1> QED BY <1>3, <1>4, <1>5, <1>6, <1>7, <1>8, <1>9, <1>10, <1>11, <1>12 DEF Next

LEMMA PtrUnchanged ==
    ASSUME PtrInv, UNCHANGED <<top, ptr, ref_count, cleared, owner>>
    PROVE  PtrInv'
BY DEF PtrInv, PtrTyped, Counted, Rooted, Flagged, Holders, OnStack

LEMMA PtrInit ==
    ASSUME Init
    PROVE  PtrInv
<1>1. PtrTyped
  BY DEF Init, InitPtr, PtrTyped
<1>2. \A c \in Composites : Holders(c) = {}
  BY DEF Init, InitPtr, Holders
<1>3. Counted
  BY <1>2, FS_EmptySet DEF Counted, Init, InitPtr
<1>4. \A v \in Vars : Where(top, v) = {} /\ ~OnStack(v)
  BY DEF Init, InitPtr, Where, OnStack
<1>5. Rooted
  <2>1. \A v \in Vars : Times(top, v) = 0
    BY <1>4, FS_EmptySet DEF Times
  <2>2. \A v \in Vars : cleared[v] = 0
    BY DEF Init, InitPtr
  <2> QED BY <1>4, <2>1, <2>2 DEF Rooted
<1>6. Flagged
  BY DEF Flagged, Init, InitPtr
<1> QED BY <1>1, <1>3, <1>5, <1>6 DEF PtrInv

LEMMA SimpleValue ==
    Simple \in Value /\ ~Simple.stack /\ Simple.comp = Null
BY DEF Simple, Value

LEMMA PtrNext ==
    ASSUME ~Moves, PtrInv, CallsInv, Next
    PROVE  PtrInv'
<1>1. PtrTyped /\ frames \in Seq(Frame) /\ tlflags \in Flags
  BY DEF PtrInv, CallsInv, FramesRight
<1>2. Depth \in Nat /\ (Depth = 0 => ~tlflags.new_active)
  <2>1. Depth \in Nat
    BY <1>1, FrameAt DEF Depth
  <2>2. Depth \in 0..Len(frames) /\ Saved(frames, tlflags, Depth) = tlflags
    BY <2>1 DEF Saved, Depth
  <2>3. Right(frames, tlflags, Depth)
    BY <2>2 DEF CallsInv, FramesRight
  <2> QED BY <2>1, <2>3 DEF Right
<1>3. ASSUME NEW T \in Types,
             create_meta_elsewhere(T) \/ \E n \in Counts : gc_new(T, n)
      PROVE  PtrInv'
  BY <1>3, PtrUnchanged DEF create_meta_elsewhere, gc_new, ptrVars
<1>4. CASE BuildMember \/ NextElement \/ ReturnToMember \/ ReturnToTemporary
  BY <1>4, PtrUnchanged DEF BuildMember, NextElement, ReturnToMember, ReturnToTemporary
<1>5. ASSUME NEW v \in Vars, Construct(v)
      PROVE  PtrInv'
  <2>1. owner' = [owner EXCEPT ![v] = Depth]
    BY <1>5 DEF Construct
  <2>2. CASE Default(v)
    <3>1. CountRefs(Null, Simple.comp)
      BY <2>2, <1>1, SimpleValue, NothingCounted DEF Default
    <3>2. ConstructAutomatic(v, Simple, tlflags) /\ UNCHANGED cleared
      BY <2>2 DEF Default
    <3> QED BY <3>1, <3>2, <2>1, <1>1, <1>2, SimpleValue, ConstructKeeps
  <2>3. ASSUME NEW u \in Vars, Copy(v, u)
        PROVE  PtrInv'
    <3> DEFINE p == clear_stack_flag(ptr[u])
    <3>1. ptr[u] \in Value
      BY <2>3, <1>1 DEF Copy, PtrTyped
    <3>2. p \in Value /\ ~p.stack /\ p.comp = ptr[u].comp
      BY <3>1 DEF Value, clear_stack_flag
    <3>3. ConstructAutomatic(v, p, tlflags) /\ UNCHANGED cleared
      BY <2>3 DEF Copy
    <3> HIDE DEF p
    <3>4. CountRefs(Null, p.comp)
      BY <2>3, <3>2 DEF Copy
    <3> QED BY <3>2, <3>3, <3>4, <2>1, <1>1, <1>2, ConstructKeeps
  <2> QED BY <1>5, <2>2, <2>3 DEF Construct
<1>6. ASSUME NEW v \in Vars, EndOfScope(v)
      PROVE  PtrInv'
  BY <1>6, DestroyKeeps DEF EndOfScope
<1>7. ASSUME NEW v \in Vars, Use(v)
      PROVE  PtrInv'
  BY <1>7, AssignKeeps, AttachKeeps, ClearKeeps DEF Use
<1>8. ASSUME NEW v \in Vars, ReturnToVariable(v)
      PROVE  PtrInv'
  <2>1. EndOfNew /\ ConstructAutomatic(v, Simple, Restored)
    BY <1>8 DEF ReturnToVariable
  <2>2. UNCHANGED <<ref_count, cleared>> /\ owner' = [owner EXCEPT ![v] = Depth - 1]
    BY <1>8 DEF ReturnToVariable
  <2>3. /\ Restored \in Flags /\ Depth - 1 \in Nat
        /\ Depth - 1 = 0 => ~Restored.new_active
    <3>1. /\ FramesRight(SubSeq(frames, 1, Depth - 1), Restored)
          /\ Depth \in Nat \ {0}
          /\ Restored.new_active <=> Depth - 1 > 0
      BY <2>1, EndKeeps
    <3> QED BY <3>1 DEF FramesRight
  <2>4. CountRefs(Null, Simple.comp)
    BY <2>2, <1>1, SimpleValue, NothingCounted
  <2> QED BY <2>1, <2>2, <2>3, <2>4, SimpleValue, ConstructKeeps
<1> QED BY <1>3, <1>4, <1>5, <1>6, <1>7, <1>8 DEF Next

LEMMA ClearedNext ==
    ASSUME PtrTyped, ClearedBound, Next
    PROVE  ClearedBound'
<1>1. ASSUME NEW v \in Vars, cleared[v] < MaxClears, setNULL(v)
      PROVE  ClearedBound'
  <2>1. MaxClears \in Nat /\ \A w \in Vars : cleared[w] \in Nat
    BY TypesAssumption DEF PtrTyped
  <2>2. \A w \in Vars : cleared'[w] =
            IF w = v THEN cleared[v] + (IF ptr[v].stack THEN 1 ELSE 0) ELSE cleared[w]
    BY <1>1 DEF setNULL, PtrTyped
  <2> QED BY <1>1, <2>1, <2>2 DEF ClearedBound
<1>2. UNCHANGED cleared => ClearedBound'
  BY DEF ClearedBound
<1>3. ASSUME NEW v \in Vars, Construct(v) \/ EndOfScope(v) \/ ReturnToVariable(v)
      PROVE  UNCHANGED cleared
  BY <1>3 DEF Construct, Default, Copy, Move, EndOfScope, Destroy, ReturnToVariable
<1>4. ASSUME NEW v \in Vars, Use(v)
      PROVE  ClearedBound'
  BY <1>1, <1>2, <1>4 DEF Use, Assign, attach
<1>5. ASSUME NEW T \in Types,
             create_meta_elsewhere(T) \/ \E n \in Counts : gc_new(T, n)
      PROVE  UNCHANGED cleared
  BY <1>5 DEF create_meta_elsewhere, gc_new, ptrVars
<1>6. CASE BuildMember \/ NextElement \/ ReturnToMember \/ ReturnToTemporary
  BY <1>2, <1>6 DEF BuildMember, NextElement, ReturnToMember, ReturnToTemporary
<1> QED BY <1>2, <1>3, <1>4, <1>5, <1>6 DEF Next
-----------------------------------------------------------------------------
IInv == CallsInv /\ PtrInv /\ ClearedBound

(* The offsets and the flags are right whatever the program does with its  *)
(* gc_ptrs.                                                                *)
LEMMA CallsInvariant == Spec => []CallsInv
<1>1. Init => CallsInv
  BY CallsInit
<1>2. CallsInv /\ [Next]_vars => CallsInv'
  BY CallsNext, CallsUnchanged DEF vars, ptrVars
<1> QED BY <1>1, <1>2, PTL DEF Spec

LEMMA IInvariant == ASSUME ~Moves PROVE Spec => []IInv
<1>1. Init => IInv
  BY CallsInit, PtrInit, TypesAssumption DEF IInv, ClearedBound, Init, InitPtr
<1>2. IInv /\ [Next]_vars => IInv'
  <2> SUFFICES ASSUME IInv, [Next]_vars
               PROVE  IInv'
    OBVIOUS
  <2>1. CASE Next
    <3>1. PtrTyped
      BY DEF IInv, PtrInv
    <3> QED BY <2>1, <3>1, CallsNext, PtrNext, ClearedNext DEF IInv
  <2>2. CASE UNCHANGED vars
    <3>1. CallsInv' /\ PtrInv'
      BY <2>2, CallsUnchanged, PtrUnchanged DEF IInv, vars, ptrVars
    <3> QED BY <2>2, <3>1 DEF IInv, ClearedBound, vars, ptrVars
  <2> QED BY <2>1, <2>2
<1> QED BY <1>1, <1>2, PTL DEF Spec

(* The offsets published for a type are those of its gc_ptrs, each once    *)
(* and in order (gc_new.h:48-97).                                          *)
THEOREM OffsetsAreExact == Spec => []OffsetsExact
<1>1. CallsInv => OffsetsExact
  BY DEF CallsInv
<1> QED BY <1>1, CallsInvariant, PTL

(* The flags say whether an object is constructed, how deep, and whether   *)
(* its offsets are wanted; no call leaves a trace (gc_new.h:43-54, 79-97). *)
THEOREM FlagsAreTruthful == Spec => []FlagsTruthful
<1>1. CallsInv => FlagsTruthful
  <2> SUFFICES ASSUME CallsInv
               PROVE  FlagsTruthful
    OBVIOUS
  <2>1. frames \in Seq(Frame) /\ FramesRight(frames, tlflags)
    BY DEF CallsInv, FramesRight
  <2>2. Depth \in Nat /\ Depth = Len(frames)
    BY <2>1, FrameAt DEF Depth
  <2>3. Depth \in 0..Len(frames) /\ Saved(frames, tlflags, Depth) = tlflags
    BY <2>2 DEF Saved
  <2>4. Right(frames, tlflags, Depth)
    BY <2>1, <2>3 DEF FramesRight
  <2>5. Depth > 0 /\ ~tlflags.no_active =>
            ~Inner.known /\ Reported(Inner) = Inner.built
    BY <2>4 DEF Right, Reported, Inner
  <2> QED BY <2>2, <2>4, <2>5 DEF FlagsTruthful, Right, Inner
<1> QED BY <1>1, CallsInvariant, PTL

(* The types of the variables; no constructor is past its object.          *)
THEOREM TypesOfGcPtrs == ASSUME ~Moves PROVE Spec => []TypeOK
<1>1. IInv => TypeOK
  <2> SUFFICES ASSUME IInv
               PROVE  TypeOK
    OBVIOUS
  <2>1. /\ PtrTyped /\ ClearedBound /\ MetaTyped
        /\ FramesRight(frames, tlflags)
    BY DEF IInv, PtrInv, CallsInv
  <2>2. cleared \in [Vars -> 0..MaxClears]
    BY <2>1, TypesAssumption DEF PtrTyped, ClearedBound
  <2>3. /\ frames \in Seq(Frame) /\ tlflags \in Flags
        /\ \A d \in 1..Len(frames) : Within(frames[d])
    BY <2>1 DEF FramesRight
  <2> QED BY <2>1, <2>2, <2>3 DEF TypeOK, PtrTyped, MetaTyped, Within, Depth
<1> QED BY <1>1, IInvariant, PTL

(* A place where setNULL was never called is in the StackMap while a       *)
(* registered gc_ptr lives there, once, and no longer, in whatever order   *)
(* gc_ptrs end (stack.cpp:36-53, gc_ptr.h:142-147, 219-231).               *)
THEOREM RootsAreExact == ASSUME ~Moves PROVE Spec => []RootsExact
<1>1. IInv => RootsExact
  <2> SUFFICES ASSUME IInv, NEW v \in Vars, cleared[v] = 0
               PROVE  Times(top, v) = IF OnStack(v) THEN 1 ELSE 0
    BY DEF RootsExact, Times, Where, Occurrences, OnStack
  <2>1. Times(top, v) = cleared[v] + (IF OnStack(v) THEN 1 ELSE 0)
    BY DEF IInv, PtrInv, Rooted
  <2> QED BY <2>1
<1> QED BY <1>1, IInvariant, PTL

(* A gc_ptr that is constructed outside gc_new is a root until it is       *)
(* destroyed (stack.cpp:36-53, gc_ptr.h:142-147).                          *)
THEOREM NoRootIsLost == ASSUME ~Moves PROVE Spec => []NoRootLost
<1>1. IInv => NoRootLost
  <2> SUFFICES ASSUME IInv, NEW v \in Vars, ptr[v] # Null, owner[v] = 0
               PROVE  Occurrences(v) # {}
    BY DEF NoRootLost
  <2>1. PtrTyped /\ Rooted /\ Flagged
    BY DEF IInv, PtrInv
  <2>2. cleared[v] \in Nat
    BY <2>1 DEF PtrTyped
  <2>3. Times(top, v) > 0
    BY <2>1, <2>2 DEF Rooted, Flagged, OnStack
  <2>4. Times(top, v) = Cardinality(Occurrences(v))
    BY DEF Times, Where, Occurrences
  <2> QED BY <2>3, <2>4, FS_EmptySet
<1> QED BY <1>1, IInvariant, PTL

(* A Composite_pointer counts the gc_ptrs that have it, so that the        *)
(* assertion ref_count > 0 holds (gc_ptr.h:235, 282, 306, 325).            *)
THEOREM RefCountsAreExact == ASSUME ~Moves PROVE Spec => []RefCountsExact
<1>1. IInv => RefCountsExact
  BY DEF IInv, PtrInv, Counted, RefCountsExact, Holders
<1> QED BY <1>1, IInvariant, PTL
=============================================================================
