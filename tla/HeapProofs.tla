----------------------------- MODULE HeapProofs -----------------------------
(***************************************************************************)
(* The lists of pages and the free space of the heap are right for any     *)
(* number of threads, objects, pages and sizes.                            *)
(***************************************************************************)
EXTENDS Heap, FiniteSetTheorems, SequenceTheorems, WellFoundedInduction, TLAPS

(* Sequences without repetitions.                                          *)
Uniq(s) == \A i, j \in DOMAIN s : s[i] = s[j] => i = j

LEMMA Elements ==
    ASSUME NEW S, NEW s \in Seq(S)
    PROVE  /\ Len(s) \in Nat /\ DOMAIN s = 1..Len(s)
           /\ ToSet(s) \subseteq S
           /\ \A x : x \in ToSet(s) <=> \E i \in 1..Len(s) : s[i] = x
           /\ \A i \in 1..Len(s) : s[i] \in ToSet(s) /\ s[i] \in S
           /\ s = <<>> <=> Len(s) = 0
           /\ s = <<>> <=> ToSet(s) = {}
<1>1. Len(s) \in Nat /\ DOMAIN s = 1..Len(s) /\ \A i \in 1..Len(s) : s[i] \in S
  BY LenProperties, ElementOfSeq
<1>2. ToSet(s) = {s[i] : i \in 1..Len(s)}
  BY <1>1 DEF ToSet
<1>3. s = <<>> <=> Len(s) = 0
  BY EmptySeq
<1>4. Len(s) = 0 <=> ToSet(s) = {}
  BY <1>1, <1>2
<1> QED BY <1>1, <1>2, <1>3, <1>4

LEMMA Nothing ==
    ASSUME NEW S
    PROVE  <<>> \in Seq(S) /\ ToSet(<<>>) = {} /\ Uniq(<<>>)
BY EmptySeq, Elements DEF Uniq

LEMMA Concatenated ==
    ASSUME NEW S, NEW s \in Seq(S), NEW t \in Seq(S), Uniq(s), Uniq(t),
           ToSet(s) \cap ToSet(t) = {}
    PROVE  /\ s \o t \in Seq(S)
           /\ ToSet(s \o t) = ToSet(s) \cup ToSet(t)
           /\ Uniq(s \o t)
<1> DEFINE r == s \o t
<1>1. /\ r \in Seq(S) /\ Len(r) = Len(s) + Len(t)
      /\ \A i \in 1..Len(s) + Len(t) : r[i] = IF i <= Len(s) THEN s[i] ELSE t[i - Len(s)]
  BY ConcatProperties
<1>2. /\ Len(s) \in Nat /\ DOMAIN s = 1..Len(s)
      /\ \A x : x \in ToSet(s) <=> \E i \in 1..Len(s) : s[i] = x
  BY Elements
<1>3. /\ Len(t) \in Nat /\ DOMAIN t = 1..Len(t)
      /\ \A x : x \in ToSet(t) <=> \E i \in 1..Len(t) : t[i] = x
  BY Elements
<1>4. /\ DOMAIN r = 1..Len(s) + Len(t)
      /\ \A x : x \in ToSet(r) <=> \E i \in 1..Len(s) + Len(t) : r[i] = x
  BY <1>1, Elements
<1> HIDE DEF r
<1>5. ASSUME NEW x
      PROVE  x \in ToSet(r) <=> x \in ToSet(s) \/ x \in ToSet(t)
  <2>1. ASSUME x \in ToSet(r)
        PROVE  x \in ToSet(s) \/ x \in ToSet(t)
    <3>1. PICK i \in 1..Len(s) + Len(t) : r[i] = x
      BY <2>1, <1>4
    <3>2. CASE i <= Len(s)
      BY <3>1, <3>2, <1>1, <1>2, <1>3
    <3>3. CASE ~(i <= Len(s))
      <4>1. i - Len(s) \in 1..Len(t)
        BY <3>3, <1>2, <1>3
      <4> QED BY <3>1, <3>3, <4>1, <1>1, <1>3
    <3> QED BY <3>2, <3>3
  <2>2. ASSUME x \in ToSet(s)
        PROVE  x \in ToSet(r)
    <3>1. PICK i \in 1..Len(s) : s[i] = x
      BY <2>2, <1>2
    <3>2. i \in 1..Len(s) + Len(t) /\ i <= Len(s)
      BY <1>2, <1>3
    <3> QED BY <3>1, <3>2, <1>1, <1>4
  <2>3. ASSUME x \in ToSet(t)
        PROVE  x \in ToSet(r)
    <3>1. PICK i \in 1..Len(t) : t[i] = x
      BY <2>3, <1>3
    <3>2. Len(s) + i \in 1..Len(s) + Len(t) /\ ~(Len(s) + i <= Len(s))
      BY <1>2, <1>3
    <3>3. (Len(s) + i) - Len(s) = i
      BY <1>2
    <3>4. r[Len(s) + i] = x
      BY <3>1, <3>2, <3>3, <1>1
    <3> QED BY <3>2, <3>4, <1>4
  <2> QED BY <2>1, <2>2, <2>3
<1>6. ASSUME NEW i \in 1..Len(s) + Len(t), NEW j \in 1..Len(s) + Len(t), r[i] = r[j]
      PROVE  i = j
  <2>1. \A k \in 1..Len(s) + Len(t) :
            \/ k \in 1..Len(s) /\ r[k] = s[k]
            \/ k - Len(s) \in 1..Len(t) /\ r[k] = t[k - Len(s)]
    BY <1>1, <1>2, <1>3
  <2>2. CASE i \in 1..Len(s) /\ r[i] = s[i] /\ j \in 1..Len(s) /\ r[j] = s[j]
    BY <2>2, <1>2, <1>6 DEF Uniq
  <2>3. CASE /\ i - Len(s) \in 1..Len(t) /\ r[i] = t[i - Len(s)]
             /\ j - Len(s) \in 1..Len(t) /\ r[j] = t[j - Len(s)]
    <3>1. i - Len(s) = j - Len(s)
      BY <2>3, <1>3, <1>6 DEF Uniq
    <3> QED BY <3>1, <1>2
  <2>4. \A k, l : ~(k \in 1..Len(s) /\ l \in 1..Len(t) /\ s[k] = t[l])
    BY <1>2, <1>3
  <2> QED BY <2>1, <2>2, <2>3, <2>4, <1>6
<1>7. Uniq(r)
  BY <1>4, <1>6 DEF Uniq
<1>8. ToSet(r) = ToSet(s) \cup ToSet(t)
  BY <1>5
<1> QED BY <1>1, <1>7, <1>8 DEF r

LEMMA Single ==
    ASSUME NEW S, NEW x \in S
    PROVE  <<x>> \in Seq(S) /\ Len(<<x>>) = 1 /\ <<x>>[1] = x
           /\ ToSet(<<x>>) = {x} /\ Uniq(<<x>>)
<1>1. <<x>> \in Seq(S) /\ Len(<<x>>) = 1 /\ <<x>>[1] = x
  OBVIOUS
<1>2. DOMAIN <<x>> = 1..1 /\ \A i \in 1..1 : i = 1
  BY <1>1, LenProperties
<1> QED BY <1>1, <1>2 DEF ToSet, Uniq

LEMMA Prepended ==
    ASSUME NEW S, NEW s \in Seq(S), Uniq(s), NEW x \in S, x \notin ToSet(s)
    PROVE  /\ <<x>> \o s \in Seq(S) /\ <<x>> \o s # <<>>
           /\ ToSet(<<x>> \o s) = ToSet(s) \cup {x}
           /\ Uniq(<<x>> \o s)
           /\ Last(<<x>> \o s) = IF s = <<>> THEN x ELSE Last(s)
<1>1. <<x>> \in Seq(S) /\ Len(<<x>>) = 1 /\ <<x>>[1] = x
      /\ ToSet(<<x>>) = {x} /\ Uniq(<<x>>)
  BY Single
<1>2. /\ <<x>> \o s \in Seq(S)
      /\ ToSet(<<x>> \o s) = ToSet(<<x>>) \cup ToSet(s)
      /\ Uniq(<<x>> \o s)
  <2>1. PICK u : u = <<x>>
    OBVIOUS
  <2>2. u \in Seq(S) /\ Uniq(u) /\ ToSet(u) \cap ToSet(s) = {}
    BY <1>1, <2>1
  <2> QED BY <2>1, <2>2, Concatenated
<1>3. /\ Len(<<x>> \o s) = Len(<<x>>) + Len(s)
      /\ \A i \in 1..Len(<<x>>) + Len(s) : (<<x>> \o s)[i] =
             IF i <= Len(<<x>>) THEN <<x>>[i] ELSE s[i - Len(<<x>>)]
  BY <1>1, ConcatProperties
<1>4. Len(s) \in Nat /\ (s = <<>> <=> Len(s) = 0)
  BY Elements
<1>5. (<<x>> \o s)[1 + Len(s)] = IF s = <<>> THEN x ELSE s[Len(s)]
  <2>1. CASE Len(s) = 0
    BY <2>1, <1>1, <1>3, <1>4
  <2>2. CASE Len(s) > 0
    <3>1. 1 + Len(s) \in 1..Len(<<x>>) + Len(s) /\ ~(1 + Len(s) <= Len(<<x>>))
      BY <2>2, <1>1, <1>4
    <3>2. 1 + Len(s) - Len(<<x>>) = Len(s)
      BY <1>1, <1>4
    <3> QED BY <2>2, <3>1, <3>2, <1>3, <1>4
  <2> QED BY <2>1, <2>2, <1>4
<1>6. <<x>> \o s # <<>>
  BY <1>1, <1>2, Elements
<1> QED BY <1>1, <1>2, <1>3, <1>5, <1>6 DEF Last

LEMMA Appended ==
    ASSUME NEW S, NEW s \in Seq(S), Uniq(s), NEW x \in S, x \notin ToSet(s)
    PROVE  /\ Append(s, x) \in Seq(S) /\ Append(s, x) # <<>>
           /\ ToSet(Append(s, x)) = ToSet(s) \cup {x}
           /\ Uniq(Append(s, x))
           /\ Last(Append(s, x)) = x
<1>1. <<x>> \in Seq(S) /\ ToSet(<<x>>) = {x} /\ Uniq(<<x>>)
  BY Single
<1>2. Append(s, x) = s \o <<x>>
  BY AppendIsConcat
<1>3. /\ Append(s, x) \in Seq(S) /\ Append(s, x) # <<>>
      /\ Len(Append(s, x)) = Len(s) + 1
      /\ Append(s, x)[Len(s) + 1] = x
  BY AppendProperties
<1>4. ToSet(s \o <<x>>) = ToSet(s) \cup ToSet(<<x>>) /\ Uniq(s \o <<x>>)
  <2>1. PICK u : u = <<x>>
    OBVIOUS
  <2>2. u \in Seq(S) /\ Uniq(u) /\ ToSet(s) \cap ToSet(u) = {}
    BY <1>1, <2>1
  <2>3. ToSet(s \o u) = ToSet(s) \cup ToSet(u) /\ Uniq(s \o u)
    BY <2>2, Concatenated
  <2> QED BY <2>1, <2>3
<1> QED BY <1>1, <1>2, <1>3, <1>4 DEF Last

LEMMA Tailed ==
    ASSUME NEW S, NEW s \in Seq(S), Uniq(s), s # <<>>
    PROVE  /\ Head(s) \in S /\ Head(s) = s[1] /\ Head(s) \in ToSet(s)
           /\ Tail(s) \in Seq(S) /\ Len(Tail(s)) = Len(s) - 1
           /\ \A i \in 1..Len(s) - 1 : Tail(s)[i] = s[i + 1]
           /\ ToSet(Tail(s)) = ToSet(s) \ {Head(s)}
           /\ Uniq(Tail(s))
<1>1. /\ Head(s) \in S /\ Tail(s) \in Seq(S)
      /\ Len(Tail(s)) = Len(s) - 1
      /\ \A i \in 1..Len(s) - 1 : Tail(s)[i] = s[i + 1]
  BY HeadTailProperties
<1>2. Head(s) = s[1]
  OBVIOUS
<1>3. /\ Len(s) \in Nat \ {0} /\ DOMAIN s = 1..Len(s)
      /\ \A x : x \in ToSet(s) <=> \E i \in 1..Len(s) : s[i] = x
  BY Elements
<1>4. /\ DOMAIN Tail(s) = 1..Len(s) - 1
      /\ \A x : x \in ToSet(Tail(s)) <=> \E i \in 1..Len(s) - 1 : Tail(s)[i] = x
  BY <1>1, Elements
<1>5. Uniq(Tail(s))
  <2> SUFFICES ASSUME NEW i \in 1..Len(s) - 1, NEW j \in 1..Len(s) - 1,
                      Tail(s)[i] = Tail(s)[j]
               PROVE  i = j
    BY <1>4 DEF Uniq
  <2>1. i + 1 \in 1..Len(s) /\ j + 1 \in 1..Len(s)
    BY <1>3
  <2>2. s[i + 1] = s[j + 1]
    BY <1>1
  <2>3. i + 1 = j + 1
    BY <2>1, <2>2, <1>3 DEF Uniq
  <2> QED BY <2>3
<1>6. ASSUME NEW x
      PROVE  x \in ToSet(Tail(s)) <=> x \in ToSet(s) /\ x # Head(s)
  <2>1. ASSUME x \in ToSet(Tail(s))
        PROVE  x \in ToSet(s) /\ x # Head(s)
    <3>1. PICK i \in 1..Len(s) - 1 : Tail(s)[i] = x
      BY <2>1, <1>4
    <3>2. i + 1 \in 1..Len(s) /\ 1 \in 1..Len(s) /\ i + 1 # 1 /\ s[i + 1] = x
      BY <3>1, <1>1, <1>3
    <3> QED BY <3>2, <1>2, <1>3 DEF Uniq
  <2>2. ASSUME x \in ToSet(s), x # Head(s)
        PROVE  x \in ToSet(Tail(s))
    <3>1. PICK i \in 1..Len(s) : s[i] = x
      BY <2>2, <1>3
    <3>2. i - 1 \in 1..Len(s) - 1 /\ (i - 1) + 1 = i
      BY <2>2, <3>1, <1>2, <1>3
    <3> QED BY <3>1, <3>2, <1>1, <1>4
  <2> QED BY <2>1, <2>2
<1>7. Head(s) \in ToSet(s)
  BY <1>2, <1>3
<1> QED BY <1>1, <1>2, <1>5, <1>6, <1>7

(* What the removal of one page from the list leaves.                      *)
LEMMA Removed ==
    ASSUME NEW S, NEW s \in Seq(S), Uniq(s), NEW k \in 1..Len(s)
    PROVE  /\ RemoveAt(s, k) \in Seq(S)
           /\ Len(RemoveAt(s, k)) = Len(s) - 1
           /\ \A i \in 1..Len(s) - 1 :
                  RemoveAt(s, k)[i] = IF i < k THEN s[i] ELSE s[i + 1]
           /\ ToSet(RemoveAt(s, k)) = ToSet(s) \ {s[k]}
           /\ Uniq(RemoveAt(s, k))
<1> DEFINE a == SubSeq(s, 1, k - 1)
           b == SubSeq(s, k + 1, Len(s))
           r == a \o b
           L == Len(s)
<1>1. /\ L \in Nat /\ DOMAIN s = 1..L /\ k \in 1..L
      /\ \A i \in 1..L : s[i] \in S
      /\ \A x : x \in ToSet(s) <=> \E i \in 1..L : s[i] = x
  BY Elements
<1>2. /\ a \in Seq(S)
      /\ Len(a) = IF 1 <= k - 1 THEN (k - 1) - 1 + 1 ELSE 0
      /\ \A i \in 1..(k - 1) - 1 + 1 : a[i] = s[1 + i - 1]
  <2>1. 1 \in Int /\ k - 1 \in Int /\ \A i \in 1..k - 1 : s[i] \in S
    BY <1>1
  <2> QED BY <2>1, SubSeqProperties
<1>3. /\ b \in Seq(S)
      /\ Len(b) = IF k + 1 <= L THEN L - (k + 1) + 1 ELSE 0
      /\ \A i \in 1..L - (k + 1) + 1 : b[i] = s[(k + 1) + i - 1]
  <2>1. k + 1 \in Int /\ L \in Int /\ \A i \in k + 1..L : s[i] \in S
    BY <1>1
  <2> QED BY <2>1, SubSeqProperties
<1>4. /\ r \in Seq(S) /\ Len(r) = Len(a) + Len(b)
      /\ \A i \in 1..Len(a) + Len(b) : r[i] = IF i <= Len(a) THEN a[i] ELSE b[i - Len(a)]
  BY <1>2, <1>3, ConcatProperties
<1> HIDE DEF a, b, L
<1>5. Len(a) = k - 1 /\ Len(b) = L - k
  BY <1>1, <1>2, <1>3
<1> HIDE DEF r
<1>6. Len(r) = L - 1
  BY <1>1, <1>4, <1>5
<1>7. ASSUME NEW i \in 1..L - 1
      PROVE  r[i] = IF i < k THEN s[i] ELSE s[i + 1]
  <2>1. i \in 1..Len(a) + Len(b)
    BY <1>1, <1>5
  <2>2. CASE i < k
    <3>1. i <= Len(a) /\ i \in 1..(k - 1) - 1 + 1 /\ 1 + i - 1 = i
      BY <2>2, <1>1, <1>5
    <3> QED BY <2>1, <2>2, <3>1, <1>2, <1>4
  <2>3. CASE ~(i < k)
    <3>1. /\ ~(i <= Len(a)) /\ i - Len(a) \in 1..L - (k + 1) + 1
          /\ (k + 1) + (i - Len(a)) - 1 = i + 1
      BY <2>3, <1>1, <1>5
    <3> QED BY <2>1, <2>3, <3>1, <1>3, <1>4
  <2> QED BY <2>2, <2>3
<1>8. /\ DOMAIN r = 1..L - 1
      /\ \A x : x \in ToSet(r) <=> \E i \in 1..L - 1 : r[i] = x
  BY <1>4, <1>6, Elements
<1>9. Uniq(r)
  <2> SUFFICES ASSUME NEW i \in 1..L - 1, NEW j \in 1..L - 1, r[i] = r[j]
               PROVE  i = j
    BY <1>8 DEF Uniq
  <2> DEFINE I == IF i < k THEN i ELSE i + 1
             J == IF j < k THEN j ELSE j + 1
  <2>1. I \in 1..L /\ J \in 1..L /\ s[I] = s[J]
    BY <1>1, <1>7
  <2>2. I = J
    BY <2>1, <1>1 DEF Uniq
  <2> QED BY <2>2, <1>1
<1>10. ASSUME NEW x
       PROVE  x \in ToSet(r) <=> x \in ToSet(s) /\ x # s[k]
  <2>1. ASSUME x \in ToSet(r)
        PROVE  x \in ToSet(s) /\ x # s[k]
    <3>1. PICK i \in 1..L - 1 : r[i] = x
      BY <2>1, <1>8
    <3> DEFINE I == IF i < k THEN i ELSE i + 1
    <3>2. I \in 1..L /\ I # k /\ s[I] = x
      BY <3>1, <1>1, <1>7
    <3> QED BY <3>2, <1>1 DEF Uniq
  <2>2. ASSUME x \in ToSet(s), x # s[k]
        PROVE  x \in ToSet(r)
    <3>1. PICK i \in 1..L : s[i] = x
      BY <2>2, <1>1
    <3>2. CASE i < k
      <4>1. i \in 1..L - 1
        BY <3>2, <1>1
      <4> QED BY <3>1, <3>2, <4>1, <1>7, <1>8
    <3>3. CASE i > k
      <4>1. i - 1 \in 1..L - 1 /\ ~(i - 1 < k) /\ (i - 1) + 1 = i
        BY <3>3, <1>1
      <4> QED BY <3>1, <3>3, <4>1, <1>7, <1>8
    <3> QED BY <2>2, <3>1, <3>2, <3>3, <1>1
  <2> QED BY <2>1, <2>2
<1>11. ToSet(r) = ToSet(s) \ {s[k]}
  BY <1>10
<1>12. RemoveAt(s, k) = r
  BY DEF RemoveAt, r, a, b, L
<1> QED BY <1>4, <1>6, <1>7, <1>9, <1>11, <1>12 DEF L

LEMMA LengthIsSize ==
    ASSUME NEW S, NEW s \in Seq(S), Uniq(s)
    PROVE  IsFiniteSet(ToSet(s)) /\ Cardinality(ToSet(s)) = Len(s)
<1>1. /\ Len(s) \in Nat /\ DOMAIN s = 1..Len(s)
      /\ s \in [1..Len(s) -> S]
      /\ \A x : x \in ToSet(s) <=> \E i \in 1..Len(s) : s[i] = x
  BY Elements, LenProperties
<1>2. s \in [1..Len(s) -> ToSet(s)]
  BY <1>1
<1>3. s \in Bijection(1..Len(s), ToSet(s))
  BY <1>1, <1>2 DEF Uniq, Bijection, Injection, Surjection, IsInjective
<1>4. ExistsBijection(1..Len(s), ToSet(s))
  BY <1>3 DEF ExistsBijection
<1>5. IsFiniteSet(1..Len(s)) /\ Cardinality(1..Len(s)) = Len(s)
  BY <1>1, FS_Interval
<1> QED BY <1>4, <1>5, FS_Bijection

LEMMA HasLeast ==
    ASSUME NEW T \in SUBSET Nat, T # {}
    PROVE  Min(T) \in T /\ \A i \in T : Min(T) <= i
<1>1. PICK k \in T : \A i \in T : ~(<<i, k>> \in OpToRel(<, Nat))
  BY NatLessThanWellFounded, WFMin, Zenon
<1>2. k \in Nat /\ \A i \in T : i \in Nat
  OBVIOUS
<1>3. \A i \in T : ~(i < k)
  BY <1>1, <1>2 DEF OpToRel
<1>4. \A i \in T : k <= i
  BY <1>2, <1>3
<1> QED BY <1>4 DEF Min
-----------------------------------------------------------------------------
(* The invariant of the lists.  Every page that morecore has provided is   *)
(* once on one of the three lists; what is on none of the first two is     *)
(* empty.                                                                  *)
ListTypes ==
    /\ free \in [Pages -> -1..Threshold]
    /\ pages \in Seq(Pages)
    /\ last_page \in Pages \cup {Null}
    /\ free_list \subseteq Pages
    /\ mapped \in 0..MaxPages
    /\ page_per_map \in Nat \ {0}
    /\ pc \in {"run", "sweep", "classify", "copy", "fix", "release"}
    /\ alive_pages \in Seq(Pages)
    /\ curr \in Seq(Pages)
    /\ free_blocks \in [1..Threshold -> Seq(Pages)]
    /\ max_free_block \in 0..Threshold

Parted(s, t, F, n) ==
    /\ Uniq(s) /\ Uniq(t)
    /\ ToSet(s) \cap ToSet(t) = {}
    /\ (ToSet(s) \cup ToSet(t)) \cap F = {}
    /\ ToSet(s) \cup ToSet(t) \cup F = 1..n

Tip(s) == IF s = <<>> THEN Null ELSE Last(s)
Sweeping == pc \in {"classify", "copy", "fix", "release"}
Ends == pc # "sweep" => last_page = Tip(IF Sweeping THEN alive_pages ELSE pages)

Quiet == pc \in {"run", "sweep"} => alive_pages = <<>>

\* The pages that the first loop has to visit are the end of the list.
Ahead ==
    pc = "classify" =>
        /\ Len(curr) <= Len(pages)
        /\ \A i \in 1..Len(curr) : curr[i] = pages[Len(pages) - Len(curr) + i]

EmptyOutside ==
    \A p \in Pages : p \notin ToSet(pages) \cup ToSet(alive_pages) =>
        free[p] = Threshold

\* free_blocks has the pages of T with s units of room at s.
Roomy(fb, max, T, fr) ==
    \A s \in 1..Threshold :
        /\ ToSet(fb[s]) = {p \in T : fr[p] > 0 /\ fr[p] = s}
        /\ Uniq(fb[s])
        /\ fb[s] # <<>> => s <= max

ListInv ==
    /\ ListTypes
    /\ Parted(pages, alive_pages, free_list, mapped)
    /\ Ends /\ Quiet /\ Ahead /\ EmptyOutside
    /\ Roomy(free_blocks, max_free_block, ToSet(alive_pages), free)

(* The page that request_new_page provides is new and empty.               *)
LEMMA RequestGives ==
    ASSUME ListInv, NEW p \in Pages, NEW expand \in BOOLEAN,
           request_new_page(p, expand)
    PROVE  /\ p \notin ToSet(pages) \cup ToSet(alive_pages) \cup free_list'
           /\ free[p] = Threshold
           /\ free_list' \subseteq Pages
           /\ mapped' \in 0..MaxPages
           /\ page_per_map' \in Nat \ {0}
           /\ (ToSet(pages) \cup ToSet(alive_pages)) \cap free_list' = {}
           /\ ToSet(pages) \cup ToSet(alive_pages) \cup {p} \cup free_list' = 1..mapped'
<1> DEFINE used == ToSet(pages) \cup ToSet(alive_pages)
<1>1. /\ free_list \subseteq Pages /\ mapped \in 0..MaxPages
      /\ page_per_map \in Nat \ {0} /\ MaxPages \in Nat
      /\ used \cap free_list = {} /\ used \cup free_list = 1..mapped
  BY ConstantsAssumption DEF ListInv, ListTypes, Parted
<1>2. p \notin used => free[p] = Threshold
  BY DEF ListInv, EmptyOutside
<1> HIDE DEF used
<1>3. CASE free_list # {}
  <2>1. free_list \in SUBSET Nat
    BY <1>1 DEF Pages
  <2>2. p \in free_list /\ free_list' = free_list \ {p} /\ UNCHANGED <<mapped, page_per_map>>
    BY <2>1, <1>3, HasLeast DEF request_new_page
  <2> QED BY <2>2, <1>1, <1>2 DEF used
<1>4. CASE free_list = {}
  <2>1. /\ mapped + page_per_map <= MaxPages
        /\ p = mapped + page_per_map
        /\ free_list' = mapped + 1..p - 1
        /\ mapped' = p
        /\ page_per_map' = EXPAND_FACTOR * page_per_map
    BY <1>4 DEF request_new_page
  <2>2. \A m, n \in Nat \ {0} : m * n \in Nat \ {0}
    OBVIOUS
  <2>3. page_per_map' \in Nat \ {0}
    BY <2>1, <2>2, <1>1, ConstantsAssumption
  <2>4. used = 1..mapped
    BY <1>1, <1>4
  <2>5. /\ p \in Nat /\ p > mapped /\ mapped' \in 0..MaxPages
        /\ p \notin used \cup free_list' /\ used \cap free_list' = {}
        /\ used \cup {p} \cup free_list' = 1..p
    BY <2>1, <2>4, <1>1
  <2>6. free_list' \subseteq Pages
    BY <2>1, <2>5, <1>1 DEF Pages
  <2> QED BY <2>1, <2>3, <2>5, <2>6, <1>2 DEF used
<1> QED BY <1>3, <1>4
-----------------------------------------------------------------------------
(* The page p, which has room again or for the first time, is added.       *)
LEMMA RoomAdded ==
    ASSUME NEW fb \in [1..Threshold -> Seq(Pages)], max_free_block \in 0..Threshold,
           NEW T, NEW fr, NEW fr2, NEW p \in Pages, NEW s \in 1..Threshold,
           Roomy(fb, max_free_block, T \ {p}, fr),
           fr2[p] = s, \A r \in T \ {p} : fr2[r] = fr[r],
           AddRoom(fb, p, s)
    PROVE  /\ free_blocks' \in [1..Threshold -> Seq(Pages)]
           /\ max_free_block' \in 0..Threshold
           /\ Roomy(free_blocks', max_free_block', T \cup {p}, fr2)
<1>1. /\ free_blocks' = [fb EXCEPT ![s] = <<p>> \o fb[s]]
      /\ max_free_block' \in 0..Threshold
      /\ s <= max_free_block' /\ max_free_block <= max_free_block'
  BY ConstantsAssumption DEF AddRoom
<1>2. \A u \in 1..Threshold :
          /\ fb[u] \in Seq(Pages) /\ Uniq(fb[u])
          /\ ToSet(fb[u]) = {r \in T \ {p} : fr[r] > 0 /\ fr[r] = u}
          /\ fb[u] # <<>> => u <= max_free_block
  BY DEF Roomy
<1>3. p \notin ToSet(fb[s])
  BY <1>2
<1>4. /\ <<p>> \o fb[s] \in Seq(Pages)
      /\ ToSet(<<p>> \o fb[s]) = ToSet(fb[s]) \cup {p}
      /\ Uniq(<<p>> \o fb[s])
  BY <1>2, <1>3, Prepended
<1>5. free_blocks' \in [1..Threshold -> Seq(Pages)]
  BY <1>1, <1>4
<1>6. ASSUME NEW u \in 1..Threshold
      PROVE  /\ ToSet(free_blocks'[u]) = {r \in T \cup {p} : fr2[r] > 0 /\ fr2[r] = u}
             /\ Uniq(free_blocks'[u])
             /\ free_blocks'[u] # <<>> => u <= max_free_block'
  <2>1. {r \in T \ {p} : fr[r] > 0 /\ fr[r] = u} = {r \in T \ {p} : fr2[r] > 0 /\ fr2[r] = u}
    OBVIOUS
  <2>2. CASE u = s
    <3>1. free_blocks'[u] = <<p>> \o fb[s]
      BY <1>1, <2>2
    <3>2. s > 0
      OBVIOUS
    <3> QED BY <1>1, <1>2, <1>4, <2>1, <2>2, <3>1, <3>2
  <2>3. CASE u # s
    <3>1. free_blocks'[u] = fb[u]
      BY <1>1, <2>3
    <3>2. u <= max_free_block => u <= max_free_block'
      BY <1>1, ConstantsAssumption
    <3> QED BY <1>2, <2>1, <2>3, <3>1, <3>2
  <2> QED BY <2>2, <2>3
<1> QED BY <1>1, <1>5, <1>6 DEF Roomy

(* The next page is taken out at f, its present room.                      *)
LEMMA RoomTaken ==
    ASSUME free_blocks \in [1..Threshold -> Seq(Pages)],
           NEW T, NEW f \in 1..Threshold, free_blocks[f] # <<>>,
           Roomy(free_blocks, max_free_block, T, free)
    PROVE  LET p  == Head(free_blocks[f])
               fb == [free_blocks EXCEPT ![f] = Tail(@)]
           IN  /\ p \in Pages /\ p \in T /\ free[p] = f
               /\ fb \in [1..Threshold -> Seq(Pages)]
               /\ Roomy(fb, max_free_block, T \ {p}, free)
<1> DEFINE p  == Head(free_blocks[f])
           fb == [free_blocks EXCEPT ![f] = Tail(@)]
<1>1. \A u \in 1..Threshold :
          /\ free_blocks[u] \in Seq(Pages) /\ Uniq(free_blocks[u])
          /\ ToSet(free_blocks[u]) = {r \in T : free[r] > 0 /\ free[r] = u}
          /\ free_blocks[u] # <<>> => u <= max_free_block
  BY DEF Roomy
<1>2. /\ p \in Pages /\ p \in ToSet(free_blocks[f])
      /\ Tail(free_blocks[f]) \in Seq(Pages)
      /\ ToSet(Tail(free_blocks[f])) = ToSet(free_blocks[f]) \ {p}
      /\ Uniq(Tail(free_blocks[f]))
  BY <1>1, Tailed
<1>3. p \in T /\ free[p] = f
  BY <1>1, <1>2
<1> HIDE DEF p
<1>4. fb \in [1..Threshold -> Seq(Pages)]
  BY <1>2
<1>5. ASSUME NEW u \in 1..Threshold
      PROVE  /\ ToSet(fb[u]) = {r \in T \ {p} : free[r] > 0 /\ free[r] = u}
             /\ Uniq(fb[u])
             /\ fb[u] # <<>> => u <= max_free_block
  <2>1. CASE u = f
    <3>1. fb[u] = Tail(free_blocks[f])
      BY <2>1
    <3> HIDE DEF fb
    <3> QED BY <1>1, <1>2, <2>1, <3>1
  <2>2. CASE u # f
    <3>1. fb[u] = free_blocks[u]
      BY <2>2
    <3> HIDE DEF fb
    <3> QED BY <1>1, <1>3, <2>2, <3>1
  <2> QED BY <2>1, <2>2
<1> HIDE DEF fb
<1>6. Roomy(fb, max_free_block, T \ {p}, free)
  BY <1>5 DEF Roomy
<1> QED BY <1>2, <1>3, <1>4, <1>6 DEF p, fb

(* A page without room is not added.                                       *)
LEMMA RoomGone ==
    ASSUME NEW fb, NEW max, NEW T, NEW fr, NEW fr2, NEW p,
           Roomy(fb, max, T \ {p}, fr),
           ~(fr2[p] > 0), \A r \in T \ {p} : fr2[r] = fr[r]
    PROVE  Roomy(fb, max, T \cup {p}, fr2)
<1>1. \A u : {r \in T \cup {p} : fr2[r] > 0 /\ fr2[r] = u}
                 = {r \in T \ {p} : fr[r] > 0 /\ fr[r] = u}
  OBVIOUS
<1> QED BY <1>1 DEF Roomy

(* Where nothing is alive, no page is listed.                              *)
LEMMA NoRoom ==
    ASSUME NEW fb \in [1..Threshold -> Seq(Pages)], NEW max, NEW fr
    PROVE  Roomy(fb, max, {}, fr) <=> \A s \in 1..Threshold : fb[s] = <<>>
<1>1. \A s \in 1..Threshold : fb[s] = <<>> <=> ToSet(fb[s]) = {}
  BY Elements
<1> QED BY <1>1, Nothing DEF Roomy
-----------------------------------------------------------------------------
(* The invariant of the data: types, and that each block of a page fits in *)
(* a page.                                                                 *)
PageBlock == {x \in Block : x.size <= Threshold}

BlocksTyped ==
    /\ block \in [Pages -> Seq(PageBlock)]
    /\ DOMAIN big \subseteq 1..MaxBig
    /\ \A k \in DOMAIN big : big[k] \in Block

ProgramTyped ==
    /\ cell \in [Cells -> Pointers]
    /\ raw \in [Raws -> Pointers]
    /\ want \in [Threads -> Request \cup {Null}]

IInv == ListInv /\ BlocksTyped /\ ProgramTyped

(* The fields of a record of Block, one by one.                            *)
LEMMA BlockFields ==
    ASSUME NEW x \in Block
    PROVE  /\ x.size \in Nat \ {0} /\ x.obj \in Objects /\ x.field \in Seq(Pointers)
           /\ x.forward \in Pointers /\ x.marked \in BOOLEAN
           /\ x.pinned \in BOOLEAN /\ x.dead \in BOOLEAN
BY DEF Block

LEMMA NullIsPointer == Null \in Pointers
BY DEF Pointers

(* A block does not leave its type when its flags, its forward pointer or  *)
(* one of its fields is set.                                               *)
LEMMA BlockKept ==
    ASSUME NEW x \in Block
    PROVE  /\ \A m, n, d \in BOOLEAN :
                  /\ [x EXCEPT !.marked = m, !.pinned = n, !.dead = d] \in Block
                  /\ [x EXCEPT !.marked = m, !.pinned = n, !.dead = d].size = x.size
           /\ \A m, n, d \in BOOLEAN :
                  /\ [x EXCEPT !.dead = d, !.marked = m, !.pinned = n] \in Block
                  /\ [x EXCEPT !.dead = d, !.marked = m, !.pinned = n].size = x.size
           /\ \A m, n \in BOOLEAN :
                  /\ [x EXCEPT !.marked = m, !.pinned = n] \in Block
                  /\ [x EXCEPT !.marked = m, !.pinned = n].size = x.size
           /\ \A q \in Pointers :
                  /\ [x EXCEPT !.forward = q] \in Block
                  /\ [x EXCEPT !.forward = q].size = x.size
           /\ \A f \in Seq(Pointers) :
                  /\ [x EXCEPT !.field = f] \in Block
                  /\ [x EXCEPT !.field = f].size = x.size
<1>1. \A m, n, d \in BOOLEAN :
          /\ [x EXCEPT !.marked = m, !.pinned = n, !.dead = d] \in Block
          /\ [x EXCEPT !.marked = m, !.pinned = n, !.dead = d].size = x.size
  BY DEF Block
<1>2. \A m, n, d \in BOOLEAN :
          /\ [x EXCEPT !.dead = d, !.marked = m, !.pinned = n] \in Block
          /\ [x EXCEPT !.dead = d, !.marked = m, !.pinned = n].size = x.size
  BY DEF Block
<1>3. \A m, n \in BOOLEAN :
          /\ [x EXCEPT !.marked = m, !.pinned = n] \in Block
          /\ [x EXCEPT !.marked = m, !.pinned = n].size = x.size
  BY DEF Block
<1>4. \A q \in Pointers :
          /\ [x EXCEPT !.forward = q] \in Block
          /\ [x EXCEPT !.forward = q].size = x.size
  BY DEF Block
<1>5. \A f \in Seq(Pointers) :
          /\ [x EXCEPT !.field = f] \in Block
          /\ [x EXCEPT !.field = f].size = x.size
  BY DEF Block
<1> QED BY <1>1, <1>2, <1>3, <1>4, <1>5

LEMMA FlaggedKept ==
    ASSUME NEW q, At(q) \in Block, NEW found
    PROVE  Flagged(q, found) \in Block /\ Flagged(q, found).size = At(q).size
<1>1. PICK x, m, n : /\ x = At(q)
                     /\ m = (At(q).marked \/ q \in found)
                     /\ n = (At(q).pinned \/ \E p \in Raws : raw[p] = q)
  OBVIOUS
<1>2. m \in BOOLEAN /\ n \in BOOLEAN
  BY <1>1, Zenon
<1>3. Flagged(q, found) = [x EXCEPT !.marked = m, !.pinned = n]
  BY <1>1 DEF Flagged
<1>4. /\ [x EXCEPT !.marked = m, !.pinned = n] \in Block
      /\ [x EXCEPT !.marked = m, !.pinned = n].size = x.size
  BY <1>1, <1>2 DEF Block
<1> QED BY <1>1, <1>3, <1>4

LEMMA NewBlockTyped ==
    ASSUME NEW o \in Objects, NEW s \in Nat \ {0}
    PROVE  NewBlock(o, s) \in Block /\ NewBlock(o, s).size = s
<1>1. FieldCount[o] \in Nat
  BY ConstantsAssumption
<1>2. NoFields(o) \in Seq(Pointers)
  BY <1>1, NullIsPointer, IsASeq DEF NoFields
<1> QED BY <1>2, NullIsPointer DEF NewBlock, Block

(* What a pointer that is followed leads to.                               *)
LEMMA AtTyped ==
    ASSUME BlocksTyped, NEW q \in Pointers, q # Null, Allocated(q)
    PROVE  At(q) \in Block
<1>1. q[1] \in 0..MaxPages /\ q[2] \in Nat \ {0}
  BY DEF Pointers
<1>2. CASE q[1] = 0
  BY <1>2 DEF BlocksTyped, Allocated, At
<1>3. CASE q[1] # 0
  <2>1. q[1] \in Pages
    BY <1>1, <1>3, ConstantsAssumption DEF Pages
  <2>2. block[q[1]] \in Seq(PageBlock) /\ q[2] \in DOMAIN block[q[1]]
    BY <1>3, <2>1 DEF BlocksTyped, Allocated
  <2>3. block[q[1]][q[2]] \in PageBlock
    BY <2>2, Elements
  <2> QED BY <1>3, <2>3 DEF At, PageBlock
<1> QED BY <1>2, <1>3

LEMMA FixedPointer ==
    ASSUME BlocksTyped, NEW q \in Pointers
    PROVE  fix_ptr(q) \in Pointers
BY AtTyped, BlockFields DEF fix_ptr
-----------------------------------------------------------------------------
LEMMA InvInit ==
    ASSUME Init
    PROVE  IInv
<1>1. ListTypes
  BY Nothing, ConstantsAssumption DEF Init, ListTypes
<1>2. Parted(pages, alive_pages, free_list, mapped)
  <2>1. Uniq(<<>>) /\ ToSet(<<>>) = {} /\ 1..0 = {}
    BY Nothing
  <2> QED BY <2>1 DEF Init, Parted
<1>3. Ends /\ Quiet /\ Ahead /\ EmptyOutside
  BY DEF Init, Ends, Quiet, Ahead, EmptyOutside, Tip, Sweeping
<1>4. Roomy(free_blocks, max_free_block, ToSet(alive_pages), free)
  <2>1. ToSet(alive_pages) = {} /\ free_blocks \in [1..Threshold -> Seq(Pages)]
    BY <1>1, Nothing DEF Init, ListTypes
  <2>2. \A s \in 1..Threshold : free_blocks[s] = <<>>
    BY DEF Init
  <2> QED BY <2>1, <2>2, NoRoom
<1>5. BlocksTyped
  BY Nothing DEF Init, BlocksTyped
<1>6. ProgramTyped
  BY NullIsPointer DEF Init, ProgramTyped
<1> QED BY <1>1, <1>2, <1>3, <1>4, <1>5, <1>6 DEF IInv, ListInv

(* Steps that do not touch the lists.                                      *)
LEMMA ListsUnchanged ==
    ASSUME ListInv, pc = pc',
           UNCHANGED <<free, listVars, poolVars, sweepVars, roomVars>>
    PROVE  ListInv'
BY DEF ListInv, ListTypes, Parted, Ends, Quiet, Ahead, EmptyOutside, Tip,
       Sweeping, Roomy, listVars, poolVars, sweepVars, roomVars

(* The end of the list in which gcmalloc allocates.                        *)
LEMMA LastPageKeeps ==
    ASSUME ListInv, pc = "run", NEW p \in Pages, NEW s \in Nat \ {0},
           NEW expand \in BOOLEAN, LastPage(p, s, expand),
           UNCHANGED <<pc, sweepVars, roomVars>>,
           \/ free' = free
           \/ s <= Threshold /\ free' = [free EXCEPT ![p] = Remaining(p, s)]
    PROVE  ListInv' /\ ToSet(pages') = ToSet(pages) \cup {p}
<1>1. /\ free \in [Pages -> -1..Threshold]
      /\ pages \in Seq(Pages) /\ Uniq(pages)
      /\ last_page \in Pages \cup {Null}
      /\ free_list \subseteq Pages /\ mapped \in 0..MaxPages
      /\ page_per_map \in Nat \ {0}
      /\ curr \in Seq(Pages) /\ free_blocks \in [1..Threshold -> Seq(Pages)]
      /\ max_free_block \in 0..Threshold
      /\ Threshold \in Nat \ {0}
  BY ConstantsAssumption DEF ListInv, ListTypes, Parted
<1>2. /\ alive_pages = <<>> /\ ToSet(alive_pages) = {} /\ Uniq(alive_pages)
      /\ alive_pages \in Seq(Pages)
      /\ last_page = Tip(pages)
  BY Nothing DEF ListInv, Quiet, Ends, Sweeping
<1>3. \A r \in Pages : r \notin ToSet(pages) => free[r] = Threshold
  BY <1>2 DEF ListInv, EmptyOutside
<1>4. UNCHANGED <<pc, alive_pages, curr, free_blocks, max_free_block>>
  BY DEF sweepVars, roomVars
<1> DEFINE Grown == /\ pages' \in Seq(Pages) /\ Uniq(pages') /\ pages' # <<>>
                    /\ ToSet(pages') = ToSet(pages) \cup {p}
                    /\ last_page' = Last(pages') /\ last_page' = p
                    /\ free_list' \subseteq Pages /\ mapped' \in 0..MaxPages
                    /\ page_per_map' \in Nat \ {0}
                    /\ ToSet(pages') \cap free_list' = {}
                    /\ ToSet(pages') \cup free_list' = 1..mapped'
                    /\ s <= Threshold => free[p] >= s
<1>5. ASSUME pages # <<>>, p = last_page, s > Threshold \/ HasRoom(last_page, s),
             UNCHANGED <<listVars, poolVars>>
      PROVE  Grown
  <2>1. p = Last(pages)
    BY <1>2, <1>5 DEF Tip
  <2>2. Len(pages) \in 1..Len(pages)
    BY <1>1, <1>5, Elements
  <2>3. p \in ToSet(pages)
    BY <2>1, <2>2, <1>1, Elements DEF Last
  <2>4. s <= Threshold => free[p] >= s
    BY <1>1, <1>5 DEF HasRoom
  <2>5. ToSet(pages) \cap free_list = {} /\ ToSet(pages) \cup free_list = 1..mapped
    BY <1>2 DEF ListInv, Parted
  <2>6. UNCHANGED <<pages, last_page, free_list, mapped, page_per_map>>
    BY <1>5 DEF listVars, poolVars
  <2> QED BY <1>1, <1>5, <2>1, <2>3, <2>4, <2>5, <2>6
<1>6. ASSUME NEW e \in BOOLEAN, request_new_page(p, e),
             pages' = Append(pages, p), last_page' = p
      PROVE  Grown
  <2>1. /\ p \notin ToSet(pages) /\ p \notin free_list'
        /\ free[p] = Threshold
        /\ free_list' \subseteq Pages /\ mapped' \in 0..MaxPages
        /\ page_per_map' \in Nat \ {0}
        /\ ToSet(pages) \cap free_list' = {}
        /\ ToSet(pages) \cup {p} \cup free_list' = 1..mapped'
    BY <1>2, <1>6, RequestGives
  <2>2. /\ pages' \in Seq(Pages) /\ pages' # <<>> /\ Uniq(pages')
        /\ ToSet(pages') = ToSet(pages) \cup {p} /\ Last(pages') = p
    <3>1. pages \in Seq(Pages) /\ Uniq(pages) /\ p \notin ToSet(pages)
      BY <1>1, <2>1
    <3>2. /\ Append(pages, p) \in Seq(Pages) /\ Append(pages, p) # <<>>
          /\ ToSet(Append(pages, p)) = ToSet(pages) \cup {p}
          /\ Uniq(Append(pages, p)) /\ Last(Append(pages, p)) = p
      BY <3>1, Appended
    <3> QED BY <3>2, <1>6
  <2>3. ToSet(pages') \cap free_list' = {} /\ ToSet(pages') \cup free_list' = 1..mapped'
    BY <2>1, <2>2
  <2>4. last_page' = Last(pages') /\ last_page' = p
    BY <1>6, <2>2
  <2>5. s <= Threshold => free[p] >= s
    BY <1>1, <2>1
  <2> QED BY <2>1, <2>2, <2>3, <2>4, <2>5
<1>7. Grown
  <2>1. <<p>> = Append(<<>>, p)
    OBVIOUS
  <2>2. TRUE \in BOOLEAN
    OBVIOUS
  <2> HIDE DEF Grown
  <2> QED BY <1>5, <1>6, <2>1, <2>2 DEF LastPage
<1> HIDE DEF Grown
<1>8. free' \in [Pages -> -1..Threshold] /\ \A r \in Pages \ {p} : free'[r] = free[r]
  <2>1. CASE free' = free
    BY <1>1, <2>1
  <2>2. CASE s <= Threshold /\ free' = [free EXCEPT ![p] = Remaining(p, s)]
    <3>1. free[p] >= s /\ free[p] \in -1..Threshold
      BY <1>1, <1>7, <2>2 DEF Grown
    <3>2. Remaining(p, s) \in -1..Threshold
      BY <1>1, <3>1 DEF Remaining
    <3> QED BY <1>1, <2>2, <3>2
  <2> QED BY <2>1, <2>2
<1>9. ListTypes'
  BY <1>1, <1>2, <1>4, <1>7, <1>8 DEF Grown, ListTypes, ListInv
<1>10. Parted(pages, alive_pages, free_list, mapped)'
  BY <1>2, <1>4, <1>7 DEF Grown, Parted
<1>11. Ends' /\ Quiet' /\ Ahead'
  BY <1>2, <1>4, <1>7 DEF Grown, Ends, Quiet, Ahead, Sweeping, Tip
<1>12. EmptyOutside'
  BY <1>2, <1>3, <1>4, <1>7, <1>8 DEF Grown, EmptyOutside
<1>13. Roomy(free_blocks, max_free_block, ToSet(alive_pages), free)'
  <2>1. \A u \in 1..Threshold : free_blocks[u] = <<>>
    <3>1. Roomy(free_blocks, max_free_block, {}, free)
      BY <1>2 DEF ListInv
    <3> QED BY <1>1, <3>1, NoRoom
  <2>2. Roomy(free_blocks, max_free_block, {}, free')
    BY <1>1, <2>1, NoRoom
  <2> QED BY <1>2, <1>4, <2>2
<1> QED BY <1>7, <1>9, <1>10, <1>11, <1>12, <1>13 DEF Grown, ListInv

(* gc_new.                                                                 *)
LEMMA AllocateKeeps ==
    ASSUME IInv, pc = "run", pc' = pc, NEW x \in Cells, NEW o \in Objects,
           NEW s \in Nat \ {0}, NEW expand \in BOOLEAN, Allocate(x, o, s, expand)
    PROVE  ListInv' /\ BlocksTyped' /\ cell' \in [Cells -> Pointers] /\ raw' = raw
<1>1. PICK p \in Pages :
          /\ LastPage(p, s, expand)
          /\ IF s > Threshold
             THEN \E k \in 1..MaxBig \ DOMAIN big :
                      /\ big' = [i \in DOMAIN big \cup {k} |->
                                    IF i = k THEN NewBlock(o, s) ELSE big[i]]
                      /\ cell' = [cell EXCEPT ![x] = <<0, k>>]
                      /\ UNCHANGED pageVars
             ELSE /\ malloc_in_page(p, NewBlock(o, s))
                  /\ cell' = [cell EXCEPT ![x] = <<p, Len(block[p]) + 1>>]
                  /\ UNCHANGED big
  BY DEF Allocate
<1>2. UNCHANGED <<sweepVars, roomVars>> /\ raw' = raw
  BY DEF Allocate
<1>3. NewBlock(o, s) \in Block /\ NewBlock(o, s).size = s
  BY NewBlockTyped
<1>4. Threshold \in Nat \ {0} /\ MaxPages \in Nat /\ MaxBig \in Nat
  BY ConstantsAssumption
<1>5. block \in [Pages -> Seq(PageBlock)] /\ DOMAIN big \subseteq 1..MaxBig
      /\ \A k \in DOMAIN big : big[k] \in Block
  BY DEF IInv, BlocksTyped
<1>6. cell \in [Cells -> Pointers]
  BY DEF IInv, ProgramTyped
<1>7. CASE s > Threshold
  <2>1. PICK k \in 1..MaxBig \ DOMAIN big :
            /\ big' = [i \in DOMAIN big \cup {k} |->
                          IF i = k THEN NewBlock(o, s) ELSE big[i]]
            /\ cell' = [cell EXCEPT ![x] = <<0, k>>]
            /\ UNCHANGED pageVars
    BY <1>1, <1>7
  <2>2. BlocksTyped'
    BY <1>3, <1>5, <2>1 DEF BlocksTyped, pageVars
  <2>3. <<0, k>> \in Pointers
    BY <1>4 DEF Pointers
  <2>4. ListInv'
    BY <1>1, <1>2, <2>1, LastPageKeeps DEF IInv, pageVars
  <2> QED BY <1>2, <1>6, <2>1, <2>2, <2>3, <2>4
<1>8. CASE ~(s > Threshold)
  <2>1. /\ malloc_in_page(p, NewBlock(o, s))
        /\ cell' = [cell EXCEPT ![x] = <<p, Len(block[p]) + 1>>]
        /\ UNCHANGED big
    BY <1>1, <1>8
  <2>2. s <= Threshold /\ NewBlock(o, s) \in PageBlock
    BY <1>3, <1>4, <1>8 DEF PageBlock
  <2>3. Append(block[p], NewBlock(o, s)) \in Seq(PageBlock) /\ Len(block[p]) \in Nat
    BY <1>5, <2>2, AppendProperties, LenProperties
  <2>4. BlocksTyped'
    BY <1>5, <2>1, <2>3 DEF BlocksTyped, malloc_in_page
  <2>5. <<p, Len(block[p]) + 1>> \in Pointers
    BY <2>3, <1>4 DEF Pointers, Pages
  <2>6. free' = [free EXCEPT ![p] = Remaining(p, s)]
    BY <1>3, <2>1 DEF malloc_in_page
  <2>7. ListInv'
    BY <1>1, <1>2, <2>2, <2>6, LastPageKeeps DEF IInv
  <2> QED BY <1>2, <1>6, <2>1, <2>4, <2>5, <2>7
<1> QED BY <1>7, <1>8

LEMMA gcmallocKeeps ==
    ASSUME IInv, NEW t \in Threads, NEW x \in Cells, NEW o \in Objects,
           NEW s \in Sizes[o], gcmalloc(t, x, o, s)
    PROVE  IInv'
<1>1. s \in Nat \ {0} /\ pc = "run" /\ pc' = pc
  BY ConstantsAssumption DEF gcmalloc, Running
<1>2. ProgramTyped
  BY DEF IInv
<1>3. CASE Allocate(x, o, s, FALSE) /\ UNCHANGED want
  <2>1. FALSE \in BOOLEAN
    OBVIOUS
  <2>2. ListInv' /\ BlocksTyped' /\ cell' \in [Cells -> Pointers] /\ raw' = raw
    BY <1>1, <1>3, <2>1, AllocateKeeps
  <2> QED BY <1>2, <1>3, <2>2 DEF IInv, ProgramTyped
<1>4. CASE /\ want' = [want EXCEPT ![t] = [stage |-> "gc", cell |-> x, obj |-> o, size |-> s]]
           /\ UNCHANGED <<programVars, pageVars, listVars, poolVars, big,
                          sweepVars, roomVars>>
  <2>1. ListInv'
    BY <1>1, <1>4, ListsUnchanged DEF IInv, pageVars
  <2>2. BlocksTyped'
    BY <1>4 DEF IInv, BlocksTyped, pageVars
  <2>3. [stage |-> "gc", cell |-> x, obj |-> o, size |-> s] \in Request
    BY <1>1 DEF Request
  <2> QED BY <1>2, <1>4, <2>1, <2>2, <2>3 DEF IInv, ProgramTyped, programVars
<1> QED BY <1>3, <1>4 DEF gcmalloc

LEMMA gcmalloc_retryKeeps ==
    ASSUME IInv, NEW t \in Threads, gcmalloc_retry(t)
    PROVE  IInv'
<1>1. ProgramTyped
  BY DEF IInv
<1>2. want[t] \in Request
  BY <1>1 DEF gcmalloc_retry, Asks, ProgramTyped
<1>3. /\ want[t].cell \in Cells /\ want[t].obj \in Objects /\ want[t].size \in Nat \ {0}
  BY <1>2 DEF Request
<1>4. Expand \in BOOLEAN
  BY DEF Expand
<1>5. ListInv' /\ BlocksTyped' /\ cell' \in [Cells -> Pointers] /\ raw' = raw
  BY <1>3, <1>4, AllocateKeeps DEF gcmalloc_retry, Running
<1> QED BY <1>1, <1>5 DEF gcmalloc_retry, IInv, ProgramTyped

LEMMA gc_refusedKeeps ==
    ASSUME IInv, NEW t \in Threads, gc_refused(t)
    PROVE  IInv'
<1>1. ListInv'
  BY ListsUnchanged DEF IInv, gc_refused, pageVars
<1>2. BlocksTyped'
  BY DEF IInv, BlocksTyped, gc_refused, pageVars
<1>3. want[t] \in Request
  BY DEF IInv, ProgramTyped, gc_refused, Asks
<1>4. [want[t] EXCEPT !.stage = "retry"] \in Request
  BY <1>3 DEF Request
<1>5. ProgramTyped'
  BY <1>4 DEF IInv, ProgramTyped, gc_refused, programVars
<1> QED BY <1>1, <1>2, <1>5 DEF IInv
-----------------------------------------------------------------------------
LEMMA SetCellKeeps ==
    ASSUME IInv, NEW x \in Cells, NEW q \in Pointers, SetCell(x, q)
    PROVE  IInv'
<1>1. ListInv'
  BY ListsUnchanged DEF IInv, SetCell, pageVars
<1>2. BlocksTyped'
  BY DEF IInv, BlocksTyped, SetCell, pageVars
<1>3. ProgramTyped'
  BY DEF IInv, ProgramTyped, SetCell
<1> QED BY <1>1, <1>2, <1>3 DEF IInv

LEMMA SetRawKeeps ==
    ASSUME IInv, NEW p \in Raws, NEW q \in Pointers, SetRaw(p, q)
    PROVE  IInv'
<1>1. ListInv'
  BY ListsUnchanged DEF IInv, SetRaw, pageVars
<1>2. BlocksTyped'
  BY DEF IInv, BlocksTyped, SetRaw, pageVars
<1>3. ProgramTyped'
  BY DEF IInv, ProgramTyped, SetRaw
<1> QED BY <1>1, <1>2, <1>3 DEF IInv

LEMMA SetFieldKeeps ==
    ASSUME IInv, NEW q \in Pointers, q # Null, Allocated(q),
           NEW i \in DOMAIN At(q).field, NEW r \in Pointers, SetField(q, i, r)
    PROVE  IInv'
<1>1. ListInv'
  BY ListsUnchanged DEF IInv, SetField
<1>2. ProgramTyped'
  BY DEF IInv, ProgramTyped, SetField, programVars
<1>3. At(q) \in Block
  BY AtTyped DEF IInv
<1> DEFINE f == [At(q).field EXCEPT ![i] = r]
           b == [At(q) EXCEPT !.field = f]
<1>4. At(q).field \in Seq(Pointers)
  BY <1>3, BlockFields
<1>5. f \in Seq(Pointers)
  BY <1>4, ExceptSeq
<1> HIDE DEF f
<1>6. b \in Block /\ b.size = At(q).size
  BY <1>3, <1>5, BlockKept
<1>7. q[1] \in 0..MaxPages /\ q[2] \in Nat \ {0}
  BY DEF Pointers
<1>8. CASE q[1] = 0
  <2>1. big' = [big EXCEPT ![q[2]] = b] /\ block' = block
    BY <1>8 DEF SetField, b, f, At
  <2> QED BY <1>2, <1>1, <1>6, <1>8, <2>1 DEF IInv, BlocksTyped
<1>9. CASE q[1] # 0
  <2>1. q[1] \in Pages
    BY <1>7, <1>9, ConstantsAssumption DEF Pages
  <2>2. At(q) = block[q[1]][q[2]]
    BY <1>9 DEF At
  <2>3. block' = [block EXCEPT ![q[1]] = [block[q[1]] EXCEPT ![q[2]] = b]] /\ big' = big
    BY <1>9, <2>2 DEF SetField, b, f
  <2>4. block[q[1]] \in Seq(PageBlock) /\ q[2] \in DOMAIN block[q[1]]
    BY <1>9, <2>1 DEF IInv, BlocksTyped, Allocated
  <2>5. block[q[1]][q[2]] \in PageBlock
    BY <2>4, Elements
  <2>6. b \in PageBlock
    BY <1>6, <2>2, <2>5 DEF PageBlock
  <2> HIDE DEF b
  <2>7. [block[q[1]] EXCEPT ![q[2]] = b] \in Seq(PageBlock)
    BY <2>4, <2>6, ExceptSeq
  <2>8. block' \in [Pages -> Seq(PageBlock)]
    BY <2>1, <2>3, <2>7 DEF IInv, BlocksTyped
  <2> QED BY <1>1, <1>2, <2>3, <2>8 DEF IInv, BlocksTyped
<1> QED BY <1>8, <1>9

LEMMA ProgramKeeps ==
    ASSUME IInv, Program
    PROVE  IInv'
<1>1. cell \in [Cells -> Pointers] /\ raw \in [Raws -> Pointers]
  BY DEF IInv, ProgramTyped
<1>2. ASSUME NEW x \in Cells, Clear(x)
      PROVE  IInv'
  BY <1>2, SetCellKeeps, NullIsPointer DEF Clear
<1>3. ASSUME NEW x \in Cells, NEW y \in Cells, Assign(x, y)
      PROVE  IInv'
  BY <1>1, <1>3, SetCellKeeps DEF Assign
<1>4. ASSUME NEW x \in Cells, NEW y \in Cells, NEW i \in 1..MaxFields, Load(x, y, i)
      PROVE  IInv'
  <2>1. /\ cell[y] \in Pointers /\ cell[y] # Null /\ Allocated(cell[y])
        /\ i \in DOMAIN At(cell[y]).field
        /\ SetCell(x, At(cell[y]).field[i])
    BY <1>1, <1>4 DEF Load
  <2>2. At(cell[y]).field \in Seq(Pointers)
    BY <2>1, AtTyped, BlockFields DEF IInv
  <2>3. At(cell[y]).field[i] \in Pointers
    BY <2>1, <2>2, Elements
  <2> QED BY <2>1, <2>3, SetCellKeeps
<1>5. ASSUME NEW x \in Cells, NEW y \in Cells, NEW i \in 1..MaxFields, Store(x, i, y)
      PROVE  IInv'
  <2>1. /\ cell[x] \in Pointers /\ cell[x] # Null /\ Allocated(cell[x])
        /\ i \in DOMAIN At(cell[x]).field
        /\ cell[y] \in Pointers
        /\ SetField(cell[x], i, cell[y])
    BY <1>1, <1>5 DEF Store
  <2> QED BY <2>1, SetFieldKeeps
<1>6. ASSUME NEW p \in Raws, Forget(p)
      PROVE  IInv'
  BY <1>6, SetRawKeeps, NullIsPointer DEF Forget
<1>7. ASSUME NEW p \in Raws, NEW x \in Cells, Dereference(p, x)
      PROVE  IInv'
  BY <1>1, <1>7, SetRawKeeps DEF Dereference
<1> QED BY <1>2, <1>3, <1>4, <1>5, <1>6, <1>7 DEF Program
-----------------------------------------------------------------------------
(* A sequence of which each element is replaced.                           *)
LEMMA Mapped ==
    ASSUME NEW S, NEW T, NEW s \in Seq(S), NEW t, DOMAIN t = DOMAIN s,
           t = [i \in DOMAIN s |-> t[i]], \A i \in DOMAIN s : t[i] \in T
    PROVE  t \in Seq(T)
<1>1. Len(s) \in Nat /\ DOMAIN s = 1..Len(s)
  BY Elements
<1>2. t \in [1..Len(s) -> T]
  BY <1>1
<1> QED BY <1>1, <1>2, SeqDef

LEMMA markKeeps ==
    ASSUME IInv, mark
    PROVE  IInv'
<1>1. ListInv'
  BY DEF mark, Running, IInv, ListInv, ListTypes, Parted, Ends, Quiet, Ahead, EmptyOutside,
         Tip, Sweeping, Roomy, listVars, poolVars, sweepVars, roomVars
<1>2. ProgramTyped'
  BY DEF IInv, ProgramTyped, mark, programVars
<1>3. /\ block \in [Pages -> Seq(PageBlock)] /\ DOMAIN big \subseteq 1..MaxBig
      /\ \A k \in DOMAIN big : big[k] \in Block
  BY DEF IInv, BlocksTyped
<1>0. PICK found \in Found :
          /\ block' = [p \in Pages |-> [i \in DOMAIN block[p] |-> Flagged(<<p, i>>, found)]]
          /\ big' = [k \in DOMAIN big |-> Flagged(<<0, k>>, found)]
  BY DEF mark
<1> DEFINE F(q) == Flagged(q, found)
<1>4. ASSUME NEW q, At(q) \in Block
      PROVE  F(q) \in Block /\ F(q).size = At(q).size
  BY <1>4, FlaggedKept
<1>5. ASSUME NEW p \in Pages
      PROVE  block'[p] \in Seq(PageBlock)
  <2>1. p # 0 /\ block[p] \in Seq(PageBlock)
    BY <1>3 DEF Pages
  <2>2. block'[p] = [i \in DOMAIN block[p] |-> F(<<p, i>>)]
    BY <1>0
  <2>3. ASSUME NEW i \in DOMAIN block[p]
        PROVE  F(<<p, i>>) \in PageBlock
    <3>1. At(<<p, i>>) = block[p][i]
      BY <2>1 DEF At
    <3>2. block[p][i] \in PageBlock
      BY <2>1, Elements
    <3> QED BY <3>1, <3>2, <1>4 DEF PageBlock
  <2> QED BY <2>1, <2>2, <2>3, Mapped
<1>6. block' \in [Pages -> Seq(PageBlock)]
  BY <1>0, <1>5
<1>7. DOMAIN big' = DOMAIN big /\ \A k \in DOMAIN big : big'[k] \in Block
  <2>1. \A k \in DOMAIN big : At(<<0, k>>) = big[k]
    BY DEF At
  <2> QED BY <1>0, <1>3, <1>4, <2>1
<1> QED BY <1>1, <1>2, <1>3, <1>6, <1>7 DEF IInv, BlocksTyped

LEMMA sweep_big_blocksKeeps ==
    ASSUME IInv, sweep_big_blocks
    PROVE  IInv'
<1>1. ProgramTyped'
  BY DEF IInv, ProgramTyped, sweep_big_blocks, programVars
<1>2. BlocksTyped'
  <2>1. \A k \in DOMAIN big : [big[k] EXCEPT !.marked = FALSE, !.pinned = FALSE] \in Block
    BY BlockKept DEF IInv, BlocksTyped
  <2> QED BY <2>1 DEF IInv, BlocksTyped, sweep_big_blocks, pageVars
<1>3. /\ pc = "sweep" /\ pc' = "classify" /\ max_free_block' = 0 /\ alive_pages' = <<>>
      /\ last_page' = Null /\ curr' = pages
      /\ UNCHANGED <<free, pages, free_list, mapped, page_per_map, free_blocks>>
  BY DEF sweep_big_blocks, pageVars, poolVars
<1>4. ListTypes /\ Parted(pages, alive_pages, free_list, mapped) /\ EmptyOutside
      /\ alive_pages = <<>>
  BY <1>3 DEF IInv, ListInv, Quiet
<1>5. ListTypes'
  BY <1>3, <1>4, ConstantsAssumption, Nothing DEF ListTypes
<1>6. Parted(pages, alive_pages, free_list, mapped)' /\ EmptyOutside'
  BY <1>3, <1>4 DEF Parted, EmptyOutside
<1>7. Ends' /\ Quiet'
  BY <1>3 DEF Ends, Quiet, Tip, Sweeping
<1>8. Ahead'
  <2>1. Len(pages) \in Nat /\ \A i \in 1..Len(pages) : Len(pages) - Len(pages) + i = i
    BY <1>4, Elements DEF ListTypes
  <2> QED BY <1>3, <2>1 DEF Ahead
<1>9. Roomy(free_blocks, max_free_block, ToSet(alive_pages), free)'
  <2>1. /\ ToSet(alive_pages) = {} /\ free_blocks \in [1..Threshold -> Seq(Pages)]
        /\ Roomy(free_blocks, max_free_block, ToSet(alive_pages), free)
    BY <1>4, Nothing DEF IInv, ListInv, ListTypes
  <2>2. \A u \in 1..Threshold : free_blocks[u] = <<>>
    BY <2>1, NoRoom
  <2>3. Roomy(free_blocks, 0, {}, free)
    BY <2>1, <2>2, NoRoom
  <2> QED BY <1>3, <1>4, <2>1, <2>3
<1> QED BY <1>1, <1>2, <1>5, <1>6, <1>7, <1>8, <1>9 DEF IInv, ListInv

LEMMA classify_doneKeeps ==
    ASSUME IInv, classify_done
    PROVE  IInv'
<1>1. ListInv'
  BY DEF classify_done, IInv, ListInv, ListTypes, Parted, Ends, Quiet, Ahead,
         EmptyOutside, Tip, Sweeping, Roomy, pageVars, listVars, poolVars,
         sweepVars, roomVars
<1>2. BlocksTyped'
  BY DEF IInv, BlocksTyped, classify_done, pageVars
<1>3. ProgramTyped'
  BY DEF IInv, ProgramTyped, classify_done, programVars
<1> QED BY <1>1, <1>2, <1>3 DEF IInv
-----------------------------------------------------------------------------
(* The lists in the first loop: curr_page is where curr begins.            *)
LEMMA CurrPage ==
    ASSUME ListInv, pc = "classify", curr # <<>>
    PROVE  /\ curr_page \in 1..Len(pages)
           /\ Head(curr) = pages[curr_page] /\ Head(curr) \in Pages
           /\ Head(curr) \in ToSet(pages)
           /\ Tail(curr) \in Seq(Pages) /\ Len(Tail(curr)) = Len(curr) - 1
           /\ \A i \in 1..Len(curr) - 1 : Tail(curr)[i] = pages[curr_page + i]
<1>1. curr \in Seq(Pages) /\ pages \in Seq(Pages)
      /\ Len(curr) <= Len(pages)
      /\ \A i \in 1..Len(curr) : curr[i] = pages[Len(pages) - Len(curr) + i]
  BY DEF ListInv, ListTypes, Ahead
<1>2. /\ Len(curr) \in Nat \ {0} /\ Len(pages) \in Nat
      /\ \A i \in 1..Len(pages) : pages[i] \in ToSet(pages) /\ pages[i] \in Pages
  BY <1>1, Elements
<1>3. /\ Tail(curr) \in Seq(Pages) /\ Len(Tail(curr)) = Len(curr) - 1
      /\ \A i \in 1..Len(curr) - 1 : Tail(curr)[i] = curr[i + 1]
  BY <1>1, HeadTailProperties
<1>4. Head(curr) = curr[1]
  OBVIOUS
<1>5. curr_page \in 1..Len(pages) /\ curr_page = Len(pages) - Len(curr) + 1
  BY <1>1, <1>2 DEF curr_page
<1>6. Head(curr) = pages[curr_page]
  BY <1>1, <1>2, <1>4, <1>5
<1>7. ASSUME NEW i \in 1..Len(curr) - 1
      PROVE  Tail(curr)[i] = pages[curr_page + i]
  <2>1. i + 1 \in 1..Len(curr) /\ Len(pages) - Len(curr) + (i + 1) = curr_page + i
    BY <1>2, <1>5
  <2> QED BY <1>1, <1>3, <2>1
<1> QED BY <1>2, <1>3, <1>5, <1>6, <1>7

LEMMA classify_pageKeepsLists ==
    ASSUME IInv, classify_page
    PROVE  ListInv'
<1> DEFINE p == Head(curr)
<1>1. /\ pc = "classify" /\ pc' = pc /\ curr # <<>> /\ curr' = Tail(curr)
      /\ UNCHANGED <<free, free_list, mapped, page_per_map>>
  BY DEF classify_page, poolVars
<1>2. ListInv /\ ListTypes /\ Parted(pages, alive_pages, free_list, mapped)
      /\ EmptyOutside /\ Threshold \in Nat \ {0}
      /\ Roomy(free_blocks, max_free_block, ToSet(alive_pages), free)
  BY ConstantsAssumption DEF IInv, ListInv
<1>3. /\ curr_page \in 1..Len(pages) /\ curr_page \in Nat
      /\ p = pages[curr_page] /\ p \in Pages /\ p \in ToSet(pages)
      /\ curr' \in Seq(Pages) /\ Len(curr') = Len(curr) - 1
      /\ \A i \in 1..Len(curr) - 1 : curr'[i] = pages[curr_page + i]
  BY <1>1, <1>2, CurrPage
<1>4. /\ Len(curr) \in Nat \ {0} /\ Len(pages) \in Nat
      /\ Len(curr) <= Len(pages) /\ curr_page = Len(pages) - Len(curr) + 1
  BY <1>1, <1>2, Elements DEF ListInv, ListTypes, Ahead, curr_page
<1> HIDE DEF p
<1>5. CASE ~HasPinned(p)
  <2>1. UNCHANGED <<pages, last_page, alive_pages, free_blocks, max_free_block>>
    BY <1>5 DEF classify_page, p, listVars, roomVars
  <2>2. ListTypes'
    BY <1>1, <1>2, <1>3, <2>1 DEF ListTypes
  <2>3. Parted(pages, alive_pages, free_list, mapped)' /\ Ends' /\ Quiet' /\ EmptyOutside'
        /\ Roomy(free_blocks, max_free_block, ToSet(alive_pages), free)'
    BY <1>1, <1>2, <2>1 DEF ListInv, Parted, Ends, Quiet, EmptyOutside, Roomy, Tip, Sweeping
  <2>4. Ahead'
    <3>1. \A i \in 1..Len(curr) - 1 : Len(pages) - (Len(curr) - 1) + i = curr_page + i
      BY <1>4
    <3>2. /\ Len(curr') <= Len(pages')
          /\ \A i \in 1..Len(curr') : Len(pages') - Len(curr') + i = curr_page + i
      BY <1>3, <1>4, <2>1, <3>1
    <3> QED BY <1>3, <2>1, <3>2 DEF Ahead
  <2> QED BY <2>2, <2>3, <2>4 DEF ListInv
<1>6. CASE HasPinned(p)
  <2>1. /\ pages' = RemoveAt(pages, curr_page)
        /\ alive_pages' = <<p>> \o alive_pages
        /\ last_page' = IF alive_pages = <<>> THEN p ELSE last_page
        /\ IF page_is_full(p) THEN UNCHANGED roomVars
                              ELSE AddRoom(free_blocks, p, free[p])
    BY <1>6 DEF classify_page, p
  <2>2. /\ pages \in Seq(Pages) /\ Uniq(pages)
        /\ alive_pages \in Seq(Pages) /\ Uniq(alive_pages)
        /\ p \notin ToSet(alive_pages) /\ p \notin free_list
        /\ last_page = Tip(alive_pages)
    BY <1>1, <1>2, <1>3 DEF ListInv, ListTypes, Parted, Ends, Sweeping
  <2>3. /\ pages' \in Seq(Pages) /\ Len(pages') = Len(pages) - 1
        /\ \A i \in 1..Len(pages) - 1 :
               pages'[i] = IF i < curr_page THEN pages[i] ELSE pages[i + 1]
        /\ ToSet(pages') = ToSet(pages) \ {p} /\ Uniq(pages')
    <3>1. /\ RemoveAt(pages, curr_page) \in Seq(Pages)
          /\ Len(RemoveAt(pages, curr_page)) = Len(pages) - 1
          /\ \A i \in 1..Len(pages) - 1 :
                 RemoveAt(pages, curr_page)[i] =
                     IF i < curr_page THEN pages[i] ELSE pages[i + 1]
          /\ ToSet(RemoveAt(pages, curr_page)) = ToSet(pages) \ {pages[curr_page]}
          /\ Uniq(RemoveAt(pages, curr_page))
      BY <1>3, <2>2, Removed
    <3> QED BY <1>3, <2>1, <3>1
  <2>4. /\ alive_pages' \in Seq(Pages) /\ alive_pages' # <<>>
        /\ ToSet(alive_pages') = ToSet(alive_pages) \cup {p} /\ Uniq(alive_pages')
        /\ Last(alive_pages') = IF alive_pages = <<>> THEN p ELSE Last(alive_pages)
    <3>1. /\ <<p>> \o alive_pages \in Seq(Pages) /\ <<p>> \o alive_pages # <<>>
          /\ ToSet(<<p>> \o alive_pages) = ToSet(alive_pages) \cup {p}
          /\ Uniq(<<p>> \o alive_pages)
          /\ Last(<<p>> \o alive_pages) = IF alive_pages = <<>> THEN p ELSE Last(alive_pages)
      BY <1>3, <2>2, Prepended
    <3> QED BY <2>1, <3>1
  <2>5. Ends' /\ Quiet'
    BY <1>1, <2>1, <2>2, <2>4 DEF Ends, Quiet, Tip, Sweeping
  <2>6. /\ free_blocks' \in [1..Threshold -> Seq(Pages)] /\ max_free_block' \in 0..Threshold
        /\ Roomy(free_blocks', max_free_block', ToSet(alive_pages) \cup {p}, free)
    <3>1. /\ free_blocks \in [1..Threshold -> Seq(Pages)]
          /\ max_free_block \in 0..Threshold /\ free[p] \in -1..Threshold
      BY <1>2, <1>3 DEF ListTypes
    <3>2. ToSet(alive_pages) = ToSet(alive_pages) \ {p}
      BY <2>2
    <3>3. Roomy(free_blocks, max_free_block, ToSet(alive_pages) \ {p}, free)
      BY <1>2, <3>2
    <3>4. CASE free[p] <= 0
      <4>1. UNCHANGED <<free_blocks, max_free_block>>
        BY <2>1, <3>4 DEF page_is_full, roomVars
      <4>2. ~(free[p] > 0)
        BY <3>1, <3>4, <1>2
      <4>3. Roomy(free_blocks, max_free_block, ToSet(alive_pages) \cup {p}, free)
        BY <3>3, <4>2, RoomGone
      <4> QED BY <3>1, <4>1, <4>3
    <3>5. CASE ~(free[p] <= 0)
      <4>1. AddRoom(free_blocks, p, free[p])
        BY <2>1, <3>5 DEF page_is_full
      <4>2. free[p] \in 1..Threshold
        BY <1>2, <3>1, <3>5
      <4> QED BY <1>3, <3>1, <3>3, <4>1, <4>2, RoomAdded
    <3> QED BY <3>4, <3>5
  <2>7. last_page' \in Pages \cup {Null}
    BY <1>2, <1>3, <2>1 DEF ListTypes
  <2>8. ListTypes'
    BY <1>1, <1>2, <1>3, <2>3, <2>4, <2>6, <2>7 DEF ListTypes
  <2>9. Parted(pages, alive_pages, free_list, mapped)' /\ EmptyOutside'
    BY <1>1, <1>2, <1>3, <2>2, <2>3, <2>4 DEF Parted, EmptyOutside
  <2>10. Ahead'
    <3>1. \A i \in 1..Len(curr) - 1 :
              /\ (Len(pages) - 1) - (Len(curr) - 1) + i = curr_page - 1 + i
              /\ curr_page - 1 + i \in 1..Len(pages) - 1
              /\ ~(curr_page - 1 + i < curr_page)
              /\ (curr_page - 1 + i) + 1 = curr_page + i
      BY <1>4
    <3>2. \A i \in 1..Len(curr) - 1 : pages'[curr_page - 1 + i] = pages[curr_page + i]
      BY <2>3, <3>1
    <3> QED BY <1>3, <1>4, <2>3, <3>1, <3>2 DEF Ahead
  <2>11. Roomy(free_blocks, max_free_block, ToSet(alive_pages), free)'
    BY <1>1, <2>4, <2>6
  <2> QED BY <2>5, <2>8, <2>9, <2>10, <2>11 DEF ListInv
<1> QED BY <1>5, <1>6

LEMMA classify_pageKeeps ==
    ASSUME IInv, classify_page
    PROVE  IInv'
<1> DEFINE p == Head(curr)
<1>1. ProgramTyped'
  BY DEF IInv, ProgramTyped, classify_page, programVars
<1>2. big' = big
  BY DEF classify_page
<1>3. block \in [Pages -> Seq(PageBlock)]
  BY DEF IInv, BlocksTyped
<1>4. CASE HasPinned(p)
  <2>1. block' = [block EXCEPT ![p] = [i \in DOMAIN block[p] |-> Stays(block[p][i])]]
    BY <1>4 DEF classify_page
  <2>2. ASSUME NEW x \in PageBlock
        PROVE  Stays(x) \in PageBlock
    <3>1. x \in Block /\ (x.dead \/ (~x.marked /\ ~x.pinned)) \in BOOLEAN
      BY Zenon DEF PageBlock
    <3> QED BY <3>1, BlockKept DEF Stays, PageBlock
  <2>3. ASSUME p \in Pages
        PROVE  [i \in DOMAIN block[p] |-> Stays(block[p][i])] \in Seq(PageBlock)
    <3>1. block[p] \in Seq(PageBlock)
      BY <1>3, <2>3
    <3>2. \A i \in DOMAIN block[p] : Stays(block[p][i]) \in PageBlock
      BY <2>2, <3>1, Elements
    <3> QED BY <3>1, <3>2, Mapped
  <2> HIDE DEF p
  <2>4. block' \in [Pages -> Seq(PageBlock)]
    BY <1>3, <2>1, <2>3
  <2> QED BY <1>1, <1>2, <2>4, classify_pageKeepsLists DEF IInv, BlocksTyped
<1>5. CASE ~HasPinned(p)
  <2>1. block' = block
    BY <1>5 DEF classify_page
  <2> QED BY <1>1, <1>2, <2>1, classify_pageKeepsLists DEF IInv, BlocksTyped
<1> QED BY <1>4, <1>5
-----------------------------------------------------------------------------
(* The block that the second loop copies next lies in one of the old pages. *)
LEMMA NextBlockIs ==
    ASSUME IInv, WaitingPages # {}
    PROVE  /\ NextBlock[1] \in Pages /\ NextBlock[1] \in ToSet(pages)
           /\ NextBlock[2] \in Nat /\ NextBlock[2] \in DOMAIN block[NextBlock[1]]
           /\ At(NextBlock) = block[NextBlock[1]][NextBlock[2]]
           /\ At(NextBlock) \in Block /\ At(NextBlock).size \in 1..Threshold
           /\ At(NextBlock).marked /\ At(NextBlock).forward = Null
<1> DEFINE p == pages[Min(WaitingPages)]
           i == Min(Waiting(p))
<1>1. /\ pages \in Seq(Pages) /\ block \in [Pages -> Seq(PageBlock)]
      /\ Threshold \in Nat \ {0}
  BY ConstantsAssumption DEF IInv, ListInv, ListTypes, BlocksTyped
<1>2. DOMAIN pages = 1..Len(pages) /\ Len(pages) \in Nat
  BY <1>1, Elements
<1>3. WaitingPages \in SUBSET Nat
  BY <1>2 DEF WaitingPages
<1>4. Min(WaitingPages) \in WaitingPages
  BY <1>3, HasLeast
<1>5. Min(WaitingPages) \in 1..Len(pages) /\ Waiting(p) # {}
  BY <1>2, <1>4 DEF WaitingPages
<1>6. p \in Pages /\ p \in ToSet(pages)
  BY <1>1, <1>5, Elements
<1> HIDE DEF p
<1>7. block[p] \in Seq(PageBlock)
  BY <1>1, <1>6
<1>8. DOMAIN block[p] = 1..Len(block[p]) /\ Len(block[p]) \in Nat
      /\ \A k \in DOMAIN block[p] : block[p][k] \in PageBlock
  BY <1>7, Elements
<1>9. Waiting(p) \in SUBSET Nat
  BY <1>8 DEF Waiting
<1>10. i \in Waiting(p)
  BY <1>5, <1>9, HasLeast
<1>11. i \in DOMAIN block[p] /\ i \in Nat /\ block[p][i].marked /\ block[p][i].forward = Null
  BY <1>8, <1>10 DEF Waiting
<1> HIDE DEF i
<1>12. NextBlock = <<p, i>>
  BY DEF NextBlock, p, i
<1>13. p # 0
  BY <1>6 DEF Pages
<1>14. At(NextBlock) = block[p][i]
  BY <1>12, <1>13 DEF At
<1>15. block[p][i] \in PageBlock
  BY <1>8, <1>11
<1>16. block[p][i] \in Block /\ block[p][i].size \in 1..Threshold
  BY <1>1, <1>15, BlockFields DEF PageBlock
<1> QED BY <1>6, <1>11, <1>12, <1>14, <1>16

(* What the copy of the next block to the page p changes; T is the set of  *)
(* the pages that were alive before.                                       *)
LEMMA CopyKeeps ==
    ASSUME IInv, WaitingPages # {}, NEW p \in Pages, p \notin ToSet(pages),
           NEW fb \in [1..Threshold -> Seq(Pages)], NEW T,
           Roomy(fb, max_free_block, T \ {p}, free),
           free[p] >= At(NextBlock).size, big' = big, CopyTo(p, fb)
    PROVE  /\ BlocksTyped'
           /\ free' \in [Pages -> -1..Threshold]
           /\ \A r \in Pages \ {p} : free'[r] = free[r]
           /\ free_blocks' \in [1..Threshold -> Seq(Pages)]
           /\ max_free_block' \in 0..Threshold
           /\ Roomy(free_blocks', max_free_block', T \cup {p}, free')
<1> DEFINE b    == NextBlock
           x    == At(NextBlock)
           room == Remaining(p, x.size)
           to   == <<p, Len(block[p]) + 1>>
           copy == [x EXCEPT !.marked = FALSE, !.pinned = FALSE, !.dead = FALSE]
<1>1. /\ b[1] \in Pages /\ b[1] \in ToSet(pages)
      /\ b[2] \in Nat /\ b[2] \in DOMAIN block[b[1]]
      /\ x = block[b[1]][b[2]] /\ x \in Block /\ x.size \in 1..Threshold
  BY NextBlockIs
<1>2. /\ free \in [Pages -> -1..Threshold] /\ max_free_block \in 0..Threshold
      /\ block \in [Pages -> Seq(PageBlock)] /\ Threshold \in Nat \ {0}
      /\ MaxPages \in Nat
  BY ConstantsAssumption DEF IInv, ListInv, ListTypes, BlocksTyped
<1>3. /\ block' = [block EXCEPT ![p] = Append(@, copy), ![b[1]][b[2]].forward = to]
      /\ free' = [free EXCEPT ![p] = room]
      /\ IF room <= 0 THEN free_blocks' = fb /\ UNCHANGED max_free_block
                      ELSE AddRoom(fb, p, room)
  BY DEF CopyTo
<1>4. room \in -1..Threshold
  <2>1. free[p] \in -1..Threshold /\ x.size \in 1..Threshold /\ free[p] >= x.size
    BY <1>1, <1>2
  <2> HIDE DEF x
  <2> QED BY <2>1, <1>2 DEF Remaining
<1>5. copy \in PageBlock /\ x \in PageBlock
  <2>1. copy \in Block /\ copy.size = x.size
    BY <1>1, BlockKept
  <2> HIDE DEF copy, x
  <2> QED BY <1>1, <1>2, <2>1 DEF PageBlock
<1>6. to \in Pointers
  <2>1. Len(block[p]) \in Nat
    BY <1>2, LenProperties
  <2>2. \A n \in Nat : <<p, n + 1>> \in Pointers
    BY ConstantsAssumption DEF Pointers, Pages
  <2> QED BY <2>1, <2>2
<1> DEFINE y == [x EXCEPT !.forward = to]
<1>7. y \in PageBlock
  <2>1. x \in Block /\ x.size <= Threshold
    BY <1>5 DEF PageBlock
  <2>2. y \in Block /\ y.size = x.size
    BY <2>1, <1>6, BlockKept
  <2> HIDE DEF y, x
  <2> QED BY <2>1, <2>2 DEF PageBlock
<1> HIDE DEF copy, to, b, x, room
<1>8. p # b[1]
  BY <1>1
<1>9. block' = [block EXCEPT ![p] = Append(block[p], copy),
                             ![b[1]] = [block[b[1]] EXCEPT ![b[2]] = y]]
  BY <1>1, <1>2, <1>3, <1>8
<1> HIDE DEF y
<1>10. Append(block[p], copy) \in Seq(PageBlock)
  BY <1>2, <1>5, AppendProperties
<1>11. [block[b[1]] EXCEPT ![b[2]] = y] \in Seq(PageBlock)
  <2>1. block[b[1]] \in Seq(PageBlock) /\ b[2] \in 1..Len(block[b[1]])
    <3>1. block[b[1]] \in Seq(PageBlock) /\ b[2] \in DOMAIN block[b[1]]
      BY <1>1, <1>2
    <3>2. DOMAIN block[b[1]] = 1..Len(block[b[1]])
      BY <3>1, LenProperties
    <3> QED BY <3>1, <3>2
  <2> QED BY <2>1, <1>7, ExceptSeq
<1>12. block' \in [Pages -> Seq(PageBlock)]
  BY <1>1, <1>2, <1>9, <1>10, <1>11
<1>13. BlocksTyped'
  BY <1>12 DEF BlocksTyped, IInv
<1>14. /\ free' \in [Pages -> -1..Threshold] /\ free'[p] = room
       /\ \A r \in Pages \ {p} : free'[r] = free[r]
  BY <1>2, <1>3, <1>4
<1>15. \A r \in T \ {p} : free'[r] = free[r]
  <2>1. \A r : r # p => [free EXCEPT ![p] = room][r] = free[r]
    OBVIOUS
  <2> QED BY <1>3, <2>1
<1>16. CASE room <= 0
  <2>1. free_blocks' = fb /\ max_free_block' = max_free_block
    BY <1>3, <1>16
  <2>2. ~(free'[p] > 0)
    BY <1>4, <1>14, <1>16
  <2>3. Roomy(fb, max_free_block, T \cup {p}, free')
    BY <1>15, <2>2, RoomGone
  <2> QED BY <1>2, <1>13, <1>14, <2>1, <2>3
<1>17. CASE ~(room <= 0)
  <2>1. AddRoom(fb, p, room)
    BY <1>3, <1>17
  <2>2. room \in 1..Threshold
    BY <1>2, <1>4, <1>17
  <2>3. /\ free_blocks' \in [1..Threshold -> Seq(Pages)]
        /\ max_free_block' \in 0..Threshold
        /\ Roomy(free_blocks', max_free_block', T \cup {p}, free')
    BY <1>2, <1>14, <1>15, <2>1, <2>2, RoomAdded
  <2> QED BY <1>13, <1>14, <2>3
<1> QED BY <1>16, <1>17

LEMMA first_alive_pageKeeps ==
    ASSUME IInv, first_alive_page
    PROVE  IInv'
<1>1. PICK p \in Pages :
          /\ request_new_page(p, TRUE)
          /\ alive_pages' = <<p>> /\ last_page' = p
          /\ free_blocks' = [free_blocks EXCEPT ![Threshold] = <<p>> \o @]
  BY DEF first_alive_page
<1>2. /\ pc = "copy" /\ pc' = pc /\ alive_pages = <<>> /\ max_free_block' = Threshold
      /\ UNCHANGED <<cell, raw, block, free, pages, big, want, curr>>
  BY DEF first_alive_page, programVars, pageVars
<1>3. ListInv /\ ListTypes /\ Parted(pages, alive_pages, free_list, mapped) /\ EmptyOutside
      /\ Roomy(free_blocks, max_free_block, ToSet(alive_pages), free)
      /\ Threshold \in Nat \ {0} /\ TRUE \in BOOLEAN
  BY ConstantsAssumption DEF IInv, ListInv
<1>4. ToSet(alive_pages) = {} /\ Uniq(alive_pages)
  BY <1>2, Nothing
<1>5. /\ p \notin ToSet(pages) \cup free_list' /\ free[p] = Threshold
      /\ free_list' \subseteq Pages /\ mapped' \in 0..MaxPages
      /\ page_per_map' \in Nat \ {0}
      /\ ToSet(pages) \cap free_list' = {}
      /\ ToSet(pages) \cup {p} \cup free_list' = 1..mapped'
  BY <1>1, <1>3, <1>4, RequestGives
<1>6. /\ <<p>> \in Seq(Pages) /\ Len(<<p>>) = 1 /\ <<p>>[1] = p
      /\ ToSet(<<p>>) = {p} /\ Uniq(<<p>>)
  BY Single
<1>7. /\ free_blocks' \in [1..Threshold -> Seq(Pages)]
      /\ max_free_block' \in 0..Threshold
      /\ Roomy(free_blocks', max_free_block', {p}, free)
  <2>1. free_blocks \in [1..Threshold -> Seq(Pages)] /\ max_free_block \in 0..Threshold
        /\ Threshold \in 1..Threshold
    BY <1>3 DEF ListTypes
  <2>2. AddRoom(free_blocks, p, Threshold)
    BY <1>1, <1>2, <1>3, <2>1 DEF AddRoom
  <2> DEFINE T == ToSet(alive_pages)
  <2>3. T \ {p} = T /\ T \cup {p} = {p}
    BY <1>4
  <2>4. Roomy(free_blocks, max_free_block, T \ {p}, free)
    BY <1>3, <2>3
  <2> HIDE DEF T
  <2>5. /\ free_blocks' \in [1..Threshold -> Seq(Pages)]
        /\ max_free_block' \in 0..Threshold
        /\ Roomy(free_blocks', max_free_block', T \cup {p}, free)
    BY <1>5, <2>1, <2>2, <2>4, RoomAdded
  <2> QED BY <2>3, <2>5
<1>8. ListTypes'
  BY <1>1, <1>2, <1>3, <1>5, <1>6, <1>7 DEF ListTypes
<1>9. Parted(pages, alive_pages, free_list, mapped)'
  BY <1>1, <1>2, <1>3, <1>5, <1>6 DEF Parted
<1>10. Ends' /\ Quiet' /\ Ahead'
  <2>1. Last(<<p>>) = p /\ <<p>> # <<>>
    BY <1>6 DEF Last
  <2> QED BY <1>1, <1>2, <2>1 DEF Ends, Quiet, Ahead, Tip, Sweeping
<1>11. EmptyOutside'
  BY <1>1, <1>2, <1>3, <1>4, <1>6 DEF EmptyOutside
<1>12. Roomy(free_blocks, max_free_block, ToSet(alive_pages), free)'
  BY <1>1, <1>2, <1>6, <1>7
<1>13. BlocksTyped' /\ ProgramTyped'
  BY <1>2 DEF IInv, BlocksTyped, ProgramTyped
<1> QED BY <1>8, <1>9, <1>10, <1>11, <1>12, <1>13 DEF IInv, ListInv

LEMMA copy_blockKeeps ==
    ASSUME IInv, copy_block
    PROVE  IInv'
<1>1. /\ pc = "copy" /\ pc' = pc /\ WaitingPages # {}
      /\ UNCHANGED <<cell, raw, pages, big, want, curr>>
  BY DEF copy_block, programVars
<1>2. ListInv /\ ListTypes /\ Parted(pages, alive_pages, free_list, mapped) /\ EmptyOutside
      /\ Roomy(free_blocks, max_free_block, ToSet(alive_pages), free)
      /\ Threshold \in Nat \ {0} /\ TRUE \in BOOLEAN
  BY ConstantsAssumption DEF IInv, ListInv
<1>3. At(NextBlock).size \in 1..Threshold
  BY <1>1, NextBlockIs
<1> DEFINE T == ToSet(alive_pages)
<1>4. /\ alive_pages \in Seq(Pages) /\ Uniq(alive_pages) /\ Uniq(pages)
      /\ pages \in Seq(Pages) /\ ToSet(pages) \cap T = {}
      /\ free_blocks \in [1..Threshold -> Seq(Pages)]
      /\ max_free_block \in 0..Threshold /\ curr \in Seq(Pages)
  BY <1>2 DEF ListTypes, Parted
<1>5. ProgramTyped' /\ Ahead' /\ Quiet'
  BY <1>1 DEF IInv, ProgramTyped, Ahead, Quiet
<1>6. ASSUME NEW f \in Fits, f = Min(Fits),
             CopyTo(Head(free_blocks[f]), [free_blocks EXCEPT ![f] = Tail(@)]),
             UNCHANGED <<alive_pages, last_page, poolVars>>
      PROVE  IInv'
  <2> DEFINE p  == Head(free_blocks[f])
             fb == [free_blocks EXCEPT ![f] = Tail(@)]
  <2>1. f \in At(NextBlock).size..max_free_block /\ free_blocks[f] # <<>>
    BY <1>6 DEF Fits
  <2>2. f \in 1..Threshold /\ f >= At(NextBlock).size
    BY <1>2, <1>3, <1>4, <2>1
  <2>3. /\ p \in Pages /\ p \in T /\ free[p] = f
        /\ fb \in [1..Threshold -> Seq(Pages)]
        /\ Roomy(fb, max_free_block, T \ {p}, free)
    BY <1>2, <1>4, <2>1, <2>2, RoomTaken
  <2>4. CopyTo(p, fb)
    BY <1>6
  <2> HIDE DEF p, fb, T
  <2>5. p \notin ToSet(pages) /\ T \cup {p} = T
    BY <1>4, <2>3
  <2>6. /\ BlocksTyped'
        /\ free' \in [Pages -> -1..Threshold]
        /\ \A r \in Pages \ {p} : free'[r] = free[r]
        /\ free_blocks' \in [1..Threshold -> Seq(Pages)]
        /\ max_free_block' \in 0..Threshold
        /\ Roomy(free_blocks', max_free_block', T \cup {p}, free')
    BY <1>1, <2>2, <2>3, <2>4, <2>5, CopyKeeps
  <2>7. UNCHANGED <<alive_pages, last_page, free_list, mapped, page_per_map>>
    BY <1>6 DEF poolVars
  <2>8. ListTypes'
    BY <1>1, <1>2, <1>4, <2>6, <2>7 DEF ListTypes
  <2>9. Parted(pages, alive_pages, free_list, mapped)' /\ Ends'
    BY <1>1, <1>2, <2>7 DEF ListInv, Parted, Ends, Tip, Sweeping
  <2>10. EmptyOutside'
    BY <1>1, <1>2, <2>3, <2>6, <2>7 DEF EmptyOutside, T
  <2>11. Roomy(free_blocks, max_free_block, ToSet(alive_pages), free)'
    BY <2>5, <2>6, <2>7 DEF T
  <2> QED BY <1>5, <2>6, <2>8, <2>9, <2>10, <2>11 DEF IInv, ListInv
<1>7. ASSUME NEW p \in Pages, request_new_page(p, TRUE),
             alive_pages' = Append(alive_pages, p), last_page' = p,
             CopyTo(p, free_blocks)
      PROVE  IInv'
  <2>1. /\ p \notin ToSet(pages) /\ p \notin T /\ p \notin free_list'
        /\ free[p] = Threshold
        /\ free_list' \subseteq Pages /\ mapped' \in 0..MaxPages
        /\ page_per_map' \in Nat \ {0}
        /\ (ToSet(pages) \cup T) \cap free_list' = {}
        /\ ToSet(pages) \cup T \cup {p} \cup free_list' = 1..mapped'
    BY <1>2, <1>7, RequestGives
  <2>2. /\ Append(alive_pages, p) \in Seq(Pages) /\ Append(alive_pages, p) # <<>>
        /\ ToSet(Append(alive_pages, p)) = T \cup {p}
        /\ Uniq(Append(alive_pages, p)) /\ Last(Append(alive_pages, p)) = p
    BY <1>4, <2>1, Appended
  <2>3. Roomy(free_blocks, max_free_block, T, free)
    BY <1>2
  <2> HIDE DEF T
  <2>4. T \ {p} = T
    BY <2>1
  <2>5. Roomy(free_blocks, max_free_block, T \ {p}, free)
    BY <2>3, <2>4
  <2>6. free[p] >= At(NextBlock).size
    BY <1>2, <1>3, <2>1
  <2>7. /\ BlocksTyped'
        /\ free' \in [Pages -> -1..Threshold]
        /\ \A r \in Pages \ {p} : free'[r] = free[r]
        /\ free_blocks' \in [1..Threshold -> Seq(Pages)]
        /\ max_free_block' \in 0..Threshold
        /\ Roomy(free_blocks', max_free_block', T \cup {p}, free')
    BY <1>1, <1>4, <1>7, <2>1, <2>5, <2>6, CopyKeeps
  <2>8. /\ alive_pages' \in Seq(Pages) /\ alive_pages' # <<>>
        /\ ToSet(alive_pages') = T \cup {p}
        /\ Uniq(alive_pages') /\ Last(alive_pages') = p
    BY <1>7, <2>2
  <2>9. ListTypes'
    BY <1>1, <1>2, <1>4, <1>7, <2>1, <2>7, <2>8 DEF ListTypes
  <2>10. Parted(pages, alive_pages, free_list, mapped)'
    BY <1>1, <1>2, <1>4, <2>1, <2>8 DEF Parted
  <2>11. Ends'
    BY <1>1, <1>7, <2>8 DEF Ends, Tip, Sweeping
  <2>12. EmptyOutside'
    BY <1>1, <1>2, <2>7, <2>8 DEF EmptyOutside, T
  <2>13. Roomy(free_blocks, max_free_block, ToSet(alive_pages), free)'
    BY <2>7, <2>8
  <2> QED BY <1>5, <2>7, <2>9, <2>10, <2>11, <2>12, <2>13 DEF IInv, ListInv
<1>8. Fits # {} => Min(Fits) \in Fits
  <2>1. Fits \in SUBSET Nat
    BY <1>2, <1>3, <1>4 DEF Fits
  <2> QED BY <2>1, HasLeast
<1> QED BY <1>6, <1>7, <1>8 DEF copy_block
-----------------------------------------------------------------------------
LEMMA fix_pagesKeeps ==
    ASSUME IInv, fix_pages
    PROVE  IInv'
<1>1. ListInv'
  BY DEF fix_pages, IInv, ListInv, ListTypes, Parted, Ends, Quiet, Ahead,
         EmptyOutside, Tip, Sweeping, Roomy, listVars, poolVars, sweepVars, roomVars
<1>2. ProgramTyped'
  BY DEF IInv, ProgramTyped, fix_pages, programVars
<1>3. BlocksTyped
  BY DEF IInv
<1>4. ASSUME NEW x \in PageBlock
      PROVE  FixFields(x) \in PageBlock
  <2> DEFINE f == [i \in DOMAIN x.field |-> fix_ptr(x.field[i])]
  <2>1. x \in Block /\ x.field \in Seq(Pointers)
    BY BlockFields DEF PageBlock
  <2>2. \A i \in DOMAIN x.field : fix_ptr(x.field[i]) \in Pointers
    BY <1>3, <2>1, Elements, FixedPointer
  <2>3. f \in Seq(Pointers)
    BY <2>1, <2>2, Mapped
  <2> HIDE DEF f
  <2>4. [x EXCEPT !.field = f] \in PageBlock
    BY <2>1, <2>3, BlockKept DEF PageBlock
  <2> QED BY <2>4 DEF FixFields, f
<1>5. ASSUME NEW p \in Pages
      PROVE  block'[p] \in Seq(PageBlock)
  <2>1. block[p] \in Seq(PageBlock)
    BY <1>3 DEF BlocksTyped
  <2>2. \A i \in DOMAIN block[p] : FixFields(block[p][i]) \in PageBlock
    BY <1>4, <2>1, Elements
  <2>3. [i \in DOMAIN block[p] |-> FixFields(block[p][i])] \in Seq(PageBlock)
    BY <2>1, <2>2, Mapped
  <2>4. \/ block'[p] = [i \in DOMAIN block[p] |-> FixFields(block[p][i])]
        \/ block'[p] = block[p]
    BY DEF fix_pages
  <2> QED BY <2>1, <2>3, <2>4
<1>6. block' \in [Pages -> Seq(PageBlock)] /\ big' = big
  BY <1>5 DEF fix_pages
<1> QED BY <1>1, <1>2, <1>3, <1>6 DEF IInv, BlocksTyped

LEMMA fix_rootsKeeps ==
    ASSUME IInv, fix_roots
    PROVE  IInv'
<1>1. ListInv'
  BY DEF fix_roots, IInv, ListInv, ListTypes, Parted, Ends, Quiet, Ahead,
         EmptyOutside, Tip, Sweeping, Roomy, pageVars, listVars, poolVars,
         sweepVars, roomVars
<1>2. BlocksTyped /\ BlocksTyped'
  BY DEF IInv, BlocksTyped, fix_roots, pageVars
<1>3. \A x \in Cells : fix_ptr(cell[x]) \in Pointers /\ cell[x] \in Pointers
  BY <1>2, FixedPointer DEF IInv, ProgramTyped
<1>4. ProgramTyped'
  BY <1>3 DEF IInv, ProgramTyped, fix_roots
<1> QED BY <1>1, <1>2, <1>4 DEF IInv

LEMMA releaseKeeps ==
    ASSUME IInv, release
    PROVE  IInv'
<1>1. /\ pc = "release" /\ pc' = "run" /\ pages' = alive_pages /\ alive_pages' = <<>>
      /\ free_list' = free_list \cup ToSet(pages)
      /\ free' = [p \in Pages |-> IF p \in ToSet(pages) THEN Threshold ELSE free[p]]
      /\ block' = [p \in Pages |-> IF p \in ToSet(pages) THEN <<>> ELSE block[p]]
      /\ free_blocks' = Reset(free_blocks) /\ max_free_block' = 0
      /\ UNCHANGED <<cell, raw, last_page, mapped, page_per_map, big, curr>>
  BY DEF release, Freed, programVars
<1>2. ListInv /\ ListTypes /\ Parted(pages, alive_pages, free_list, mapped) /\ EmptyOutside
      /\ Roomy(free_blocks, max_free_block, ToSet(alive_pages), free)
      /\ Threshold \in Nat \ {0}
  BY ConstantsAssumption DEF IInv, ListInv
<1>3. /\ <<>> \in Seq(Pages) /\ ToSet(<<>>) = {} /\ Uniq(<<>>)
      /\ <<>> \in Seq(PageBlock)
  BY Nothing
<1>4. \A s \in 1..Threshold : free_blocks'[s] = <<>>
  <2>1. ASSUME NEW s \in 1..Threshold
        PROVE  free_blocks'[s] = <<>>
    <3>1. free_blocks'[s] = IF s <= max_free_block THEN <<>> ELSE free_blocks[s]
      BY <1>1 DEF Reset
    <3>2. free_blocks[s] # <<>> => s <= max_free_block
      BY <1>2 DEF Roomy
    <3> QED BY <3>1, <3>2
  <2> QED BY <2>1
<1>5. free_blocks' \in [1..Threshold -> Seq(Pages)]
  <2>1. free_blocks' = [s \in 1..Threshold |-> free_blocks'[s]]
    BY <1>1 DEF Reset
  <2> QED BY <1>3, <1>4, <2>1
<1>6. ToSet(pages) \subseteq Pages
  BY <1>2, Elements DEF ListTypes
<1>7. ListTypes'
  BY <1>1, <1>2, <1>3, <1>5, <1>6 DEF ListTypes
<1>8. Parted(pages, alive_pages, free_list, mapped)'
  BY <1>1, <1>2, <1>3 DEF Parted
<1>9. Ends' /\ Quiet' /\ Ahead'
  BY <1>1, <1>2 DEF ListInv, Ends, Quiet, Ahead, Tip, Sweeping
<1>10. EmptyOutside'
  BY <1>1, <1>2, <1>3 DEF EmptyOutside
<1>11. Roomy(free_blocks, max_free_block, ToSet(alive_pages), free)'
  <2>1. Roomy(free_blocks', max_free_block', {}, free')
    BY <1>4, <1>5, NoRoom
  <2> QED BY <1>1, <1>3, <2>1
<1>12. BlocksTyped'
  BY <1>1, <1>3 DEF IInv, BlocksTyped
<1>13. ProgramTyped'
  <2>1. \A t \in Threads : want'[t] = IF Asks(t, "gc")
                                      THEN [want[t] EXCEPT !.stage = "retry"]
                                      ELSE want[t]
    BY DEF release
  <2>2. ASSUME NEW t \in Threads
        PROVE  want'[t] \in Request \cup {Null}
    <3>1. want[t] \in Request \cup {Null}
      BY DEF IInv, ProgramTyped
    <3>2. CASE Asks(t, "gc")
      <4>1. want[t] \in Request
        BY <3>1, <3>2 DEF Asks
      <4>2. [want[t] EXCEPT !.stage = "retry"] \in Request
        BY <4>1 DEF Request
      <4> QED BY <2>1, <3>2, <4>2
    <3>3. CASE ~Asks(t, "gc")
      BY <2>1, <3>1, <3>3
    <3> QED BY <3>2, <3>3
  <2>3. want' \in [Threads -> Request \cup {Null}]
    BY <2>2 DEF release
  <2> QED BY <1>1, <2>3 DEF IInv, ProgramTyped
<1> QED BY <1>7, <1>8, <1>9, <1>10, <1>11, <1>12, <1>13 DEF IInv, ListInv
-----------------------------------------------------------------------------
LEMMA InvNext ==
    ASSUME IInv, [Next]_vars
    PROVE  IInv'
<1>1. CASE UNCHANGED vars
  <2>1. ListInv'
    BY <1>1, ListsUnchanged DEF vars, IInv, pageVars
  <2> QED BY <1>1, <2>1 DEF vars, IInv, BlocksTyped, ProgramTyped, programVars, pageVars
<1>2. CASE Program
  BY <1>2, ProgramKeeps
<1>3. CASE Allocation
  BY <1>3, gcmallocKeeps, gcmalloc_retryKeeps, gc_refusedKeeps DEF Allocation
<1>4. CASE mark
  BY <1>4, markKeeps
<1>5. CASE Sweep
  BY <1>5, sweep_big_blocksKeeps, classify_pageKeeps, classify_doneKeeps,
     first_alive_pageKeeps, copy_blockKeeps, fix_pagesKeeps, fix_rootsKeeps,
     releaseKeeps DEF Sweep
<1> QED BY <1>1, <1>2, <1>3, <1>4, <1>5 DEF Next

LEMMA InvAlways == Spec => []IInv
<1>1. Init => IInv
  BY InvInit
<1>2. IInv /\ [Next]_vars => IInv'
  BY InvNext
<1> QED BY <1>1, <1>2, PTL DEF Spec

(* The variables keep their types: no page is filled beyond its end, no    *)
(* pointer is anything else than a block's place or null (malloc.cpp:      *)
(* 121-183, 246-276).                                                      *)
THEOREM TypesOfTheHeap == Spec => []TypeOK
<1>1. ASSUME IInv, missed \in BOOLEAN
      PROVE  TypeOK
  <2>1. ListTypes /\ BlocksTyped /\ ProgramTyped
    BY <1>1 DEF IInv, ListInv
  <2>2. block \in [Pages -> Seq(Block)]
    <3>1. ASSUME NEW p \in Pages
          PROVE  block[p] \in Seq(Block)
      <4>1. block[p] \in Seq(PageBlock)
        BY <2>1 DEF BlocksTyped
      <4>2. /\ Len(block[p]) \in Nat /\ DOMAIN block[p] = 1..Len(block[p])
            /\ block[p] \in [1..Len(block[p]) -> PageBlock]
        BY <4>1, Elements, LenProperties
      <4>3. block[p] \in [1..Len(block[p]) -> Block]
        BY <4>2 DEF PageBlock
      <4> QED BY <4>2, <4>3, SeqDef
    <3> QED BY <2>1, <3>1 DEF BlocksTyped
  <2> QED BY <1>1, <2>1, <2>2 DEF TypeOK, ListTypes, BlocksTyped, ProgramTyped
<1>2. Init => missed \in BOOLEAN
  BY DEF Init
<1>3. missed \in BOOLEAN /\ [Next]_vars => (missed \in BOOLEAN)'
  BY DEF Next, mark, vars
<1> QED BY <1>1, <1>2, <1>3, InvAlways, PTL DEF Spec

(* No page is lost or listed twice, whatever the sweep has moved so far,   *)
(* and last_page is the end of the list being built (malloc.cpp:246-412).  *)
THEOREM PagesAreKept == Spec => []PagesKept
<1>1. ASSUME IInv
      PROVE  PagesKept
  <2> DEFINE used == pages \o alive_pages
  <2>1. /\ pages \in Seq(Pages) /\ alive_pages \in Seq(Pages)
        /\ free_list \subseteq Pages /\ mapped \in 0..MaxPages /\ MaxPages \in Nat
        /\ Uniq(pages) /\ Uniq(alive_pages)
        /\ ToSet(pages) \cap ToSet(alive_pages) = {}
        /\ (ToSet(pages) \cup ToSet(alive_pages)) \cap free_list = {}
        /\ ToSet(pages) \cup ToSet(alive_pages) \cup free_list = 1..mapped
    BY <1>1, ConstantsAssumption DEF IInv, ListInv, ListTypes, Parted
  <2>2. /\ used \in Seq(Pages) /\ Uniq(used)
        /\ ToSet(used) = ToSet(pages) \cup ToSet(alive_pages)
    BY <2>1, Concatenated
  <2> HIDE DEF used
  <2>3. IsFiniteSet(ToSet(used)) /\ Cardinality(ToSet(used)) = Len(used)
    BY <2>2, LengthIsSize
  <2>4. IsFiniteSet(1..mapped) /\ Cardinality(1..mapped) = mapped
    BY <2>1, FS_Interval
  <2>5. ToSet(used) \cup free_list = 1..mapped /\ ToSet(used) \cap free_list = {}
    BY <2>1, <2>2
  <2>6. IsFiniteSet(free_list)
    BY <2>4, <2>5, FS_Subset
  <2>7. Cardinality(ToSet(used) \cup free_list)
            = Cardinality(ToSet(used)) + Cardinality(free_list)
                  - Cardinality(ToSet(used) \cap free_list)
    BY <2>3, <2>6, FS_Union
  <2>8. Cardinality({}) = 0
    BY FS_EmptySet
  <2>9. Len(used) \in Nat /\ Cardinality(free_list) \in Nat
    BY <2>2, <2>6, LenProperties, FS_CardinalityType
  <2>10. Len(used) + Cardinality(free_list) = mapped
    <3>1. Cardinality(ToSet(used) \cup free_list) = mapped
      BY <2>4, <2>5
    <3>2. Cardinality(ToSet(used) \cap free_list) = 0
      BY <2>5, <2>8
    <3> QED BY <2>1, <2>3, <2>7, <2>9, <3>1, <3>2
  <2>11. pc # "sweep" =>
             last_page = IF (IF Sweeping THEN alive_pages ELSE pages) = <<>>
                         THEN Null
                         ELSE Last(IF Sweeping THEN alive_pages ELSE pages)
    BY <1>1 DEF IInv, ListInv, Ends, Tip
  <2> QED BY <2>5, <2>10, <2>11 DEF PagesKept, used, Sweeping
<1> QED BY <1>1, InvAlways, PTL

(* free_blocks lists the surviving pages with room, each once, under the   *)
(* present size of its free block and below max_free_block; outside a      *)
(* collection it is empty (malloc.cpp:247-273, 335-342, 409-412).          *)
THEOREM RoomIsExact == Spec => []RoomExact
<1>1. ASSUME IInv
      PROVE  RoomExact
  <2>1. /\ Roomy(free_blocks, max_free_block, ToSet(alive_pages), free)
        /\ alive_pages \in Seq(Pages) /\ free \in [Pages -> -1..Threshold]
        /\ Threshold \in Nat \ {0}
    BY <1>1, ConstantsAssumption DEF IInv, ListInv, ListTypes
  <2>2. \A p \in ToSet(alive_pages) : free[p] \in Int
    BY <2>1, Elements
  <2>3. \A p \in ToSet(alive_pages) : free[p] > 0 <=> ~page_is_full(p)
    BY <2>2 DEF page_is_full
  <2>4. \A s \in 1..Threshold :
            {p \in ToSet(alive_pages) : free[p] > 0 /\ free[p] = s}
                = {p \in ToSet(alive_pages) : ~page_is_full(p) /\ free[p] = s}
    BY <2>3
  <2> QED BY <2>1, <2>4 DEF Roomy, Uniq, RoomExact
<1> QED BY <1>1, InvAlways, PTL
-----------------------------------------------------------------------------
(* Where the blocks of a page begin.  The recursion has a solution, and    *)
(* what it gives depends on the lengths of the blocks alone: both by a     *)
(* least counterexample.                                                   *)
Runs(g, b, n) ==
    g = [i \in 1..n |-> IF i = 1 THEN 0 ELSE g[i - 1] + b[i - 1].size + 1]

LEMMA RunsExist ==
    ASSUME NEW b \in Seq(Block), NEW n \in 1..Len(b) + 1
    PROVE  \E g : Runs(g, b, n)
<1>1. Len(b) \in Nat
  BY Elements
<1> DEFINE Bad == {m \in 1..Len(b) + 1 : ~\E g : Runs(g, b, m)}
<1>2. SUFFICES ASSUME Bad # {}
               PROVE  FALSE
  OBVIOUS
<1> DEFINE m == Min(Bad)
<1>3. m \in Bad /\ \A i \in Bad : m <= i
  <2>1. Bad \in SUBSET Nat
    BY <1>1
  <2> HIDE DEF Bad
  <2> QED BY <1>2, <2>1, HasLeast
<1>4. m \in 1..Len(b) + 1 /\ ~\E g : Runs(g, b, m)
  BY <1>3
<1> HIDE DEF m
<1>5. CASE m = 1
  <2>1. Runs([i \in 1..m |-> 0], b, m)
    BY <1>5 DEF Runs
  <2> QED BY <1>4, <2>1
<1>6. CASE m > 1
  <2>1. m - 1 \in 1..Len(b) + 1 /\ ~(m <= m - 1)
    BY <1>1, <1>4, <1>6
  <2>2. m - 1 \notin Bad
    BY <1>3, <2>1
  <2>3. PICK g : Runs(g, b, m - 1)
    BY <2>1, <2>2
  <2> DEFINE h == [i \in 1..m |-> IF i = m THEN g[m - 1] + b[m - 1].size + 1 ELSE g[i]]
  <2>4. ASSUME NEW i \in 1..m
        PROVE  h[i] = IF i = 1 THEN 0 ELSE h[i - 1] + b[i - 1].size + 1
    <3>1. CASE i = m
      <4>1. m - 1 \in 1..m /\ m - 1 # m
        BY <1>4, <1>6
      <4>2. h[m - 1] = g[m - 1]
        BY <4>1
      <4> QED BY <1>4, <1>6, <3>1, <4>2
    <3>2. CASE i # m
      <4>1. i \in 1..m - 1 /\ h[i] = g[i]
        BY <1>4, <3>2
      <4>2. g[i] = IF i = 1 THEN 0 ELSE g[i - 1] + b[i - 1].size + 1
        BY <2>3, <4>1 DEF Runs
      <4>3. i # 1 => i - 1 \in 1..m /\ i - 1 # m
        BY <1>4, <4>1
      <4>4. i # 1 => h[i - 1] = g[i - 1]
        BY <4>3
      <4> QED BY <4>1, <4>2, <4>4
    <3> QED BY <3>1, <3>2
  <2>5. h = [i \in 1..m |-> h[i]]
    OBVIOUS
  <2> HIDE DEF h
  <2>6. Runs(h, b, m)
    BY <2>4, <2>5 DEF Runs
  <2> QED BY <1>4, <2>6
<1> QED BY <1>1, <1>4, <1>5, <1>6

LEMMA BeginsIs ==
    ASSUME NEW b \in Seq(Block)
    PROVE  \A i \in 1..Len(b) + 1 :
               Begins(b)[i] = IF i = 1 THEN 0 ELSE Begins(b)[i - 1] + b[i - 1].size + 1
<1>1. Len(b) + 1 \in 1..Len(b) + 1
  BY Elements
<1>2. \E g : g = [i \in 1..Len(b) + 1 |->
                     IF i = 1 THEN 0 ELSE g[i - 1] + b[i - 1].size + 1]
  BY <1>1, RunsExist DEF Runs
<1>3. Begins(b) = CHOOSE at : at = [i \in 1..Len(b) + 1 |->
                     IF i = 1 THEN 0 ELSE at[i - 1] + b[i - 1].size + 1]
  BY DEF Begins
<1>4. Begins(b) = [i \in 1..Len(b) + 1 |->
                     IF i = 1 THEN 0 ELSE Begins(b)[i - 1] + b[i - 1].size + 1]
  BY <1>2, <1>3
<1> QED BY <1>4

LEMMA BeginsSame ==
    ASSUME NEW b \in Seq(Block), NEW c \in Seq(Block), Len(b) <= Len(c),
           \A i \in 1..Len(b) : c[i].size = b[i].size
    PROVE  \A i \in 1..Len(b) + 1 : Begins(c)[i] = Begins(b)[i]
<1>1. Len(b) \in Nat /\ Len(c) \in Nat
  BY Elements
<1> DEFINE Bad == {i \in 1..Len(b) + 1 : Begins(c)[i] # Begins(b)[i]}
<1>2. SUFFICES ASSUME Bad # {}
               PROVE  FALSE
  OBVIOUS
<1> DEFINE m == Min(Bad)
<1>3. m \in Bad /\ \A i \in Bad : m <= i
  <2>1. Bad \in SUBSET Nat
    BY <1>1
  <2> HIDE DEF Bad
  <2> QED BY <1>2, <2>1, HasLeast
<1>4. /\ m \in 1..Len(b) + 1 /\ m \in 1..Len(c) + 1
      /\ Begins(c)[m] # Begins(b)[m]
  BY <1>1, <1>3
<1> HIDE DEF m
<1>5. /\ Begins(b)[m] = IF m = 1 THEN 0 ELSE Begins(b)[m - 1] + b[m - 1].size + 1
      /\ Begins(c)[m] = IF m = 1 THEN 0 ELSE Begins(c)[m - 1] + c[m - 1].size + 1
  BY <1>4, BeginsIs
<1>6. m # 1 /\ m - 1 \in 1..Len(b) /\ m - 1 \in 1..Len(b) + 1 /\ ~(m <= m - 1)
  BY <1>1, <1>4, <1>5
<1>7. m - 1 \notin Bad
  BY <1>3, <1>6
<1>8. Begins(c)[m - 1] = Begins(b)[m - 1] /\ c[m - 1].size = b[m - 1].size
  BY <1>6, <1>7
<1> QED BY <1>4, <1>5, <1>8

LEMMA BeginsTyped ==
    ASSUME NEW b \in Seq(Block)
    PROVE  Begins(b)[Len(b) + 1] \in Int
<1>1. Len(b) \in Nat /\ \A i \in 1..Len(b) : b[i] \in Block
  BY Elements
<1> DEFINE Bad == {i \in 1..Len(b) + 1 : Begins(b)[i] \notin Int}
<1>2. SUFFICES ASSUME Bad # {}
               PROVE  FALSE
  BY <1>1
<1> DEFINE m == Min(Bad)
<1>3. m \in Bad /\ \A i \in Bad : m <= i
  <2>1. Bad \in SUBSET Nat
    BY <1>1
  <2> HIDE DEF Bad
  <2> QED BY <1>2, <2>1, HasLeast
<1>4. m \in 1..Len(b) + 1 /\ Begins(b)[m] \notin Int
  BY <1>3
<1> HIDE DEF m
<1>5. Begins(b)[m] = IF m = 1 THEN 0 ELSE Begins(b)[m - 1] + b[m - 1].size + 1
  BY <1>4, BeginsIs
<1>6. m # 1 /\ m - 1 \in 1..Len(b) /\ m - 1 \in 1..Len(b) + 1 /\ ~(m <= m - 1)
  BY <1>1, <1>4, <1>5
<1>7. m - 1 \notin Bad
  BY <1>3, <1>6
<1>8. Begins(b)[m - 1] \in Int /\ b[m - 1].size \in Int
  <2>1. b[m - 1].size \in Nat
    BY <1>1, <1>6, BlockFields
  <2> QED BY <1>6, <1>7, <2>1
<1> QED BY <1>4, <1>5, <1>6, <1>8

\* What a step does to the blocks b and the free block f of a page.
AsLong(b, c) == \A i \in 1..Len(b) : c[i].size = b[i].size
Alike(b, f, c, g)  == Len(c) = Len(b) /\ AsLong(b, c) /\ g = f
Longer(b, f, c, g) ==
    /\ Len(c) = Len(b) + 1
    /\ AsLong(b, c)
    /\ g = f - (c[Len(b) + 1].size + 1)
Emptied(c, g) == c = <<>> /\ g = Threshold

LEMMA FilledStill ==
    ASSUME NEW b \in Seq(Block), NEW c \in Seq(Block), NEW f \in Int, NEW g,
           Begins(b)[Len(b) + 1] + f = Threshold,
           Alike(b, f, c, g) \/ Longer(b, f, c, g) \/ Emptied(c, g)
    PROVE  Begins(c)[Len(c) + 1] + g = Threshold
<1>1. /\ Len(b) \in Nat /\ Len(c) \in Nat /\ Threshold \in Nat
      /\ \A i \in 1..Len(c) : c[i] \in Block
  BY Elements, ConstantsAssumption
<1>2. Begins(b)[Len(b) + 1] \in Int /\ Begins(c)[Len(c) + 1] \in Int
  BY BeginsTyped
<1>3. CASE Alike(b, f, c, g)
  <2>1. Begins(c)[Len(b) + 1] = Begins(b)[Len(b) + 1]
    BY <1>1, <1>3, BeginsSame DEF Alike, AsLong
  <2> QED BY <1>3, <2>1 DEF Alike
<1>4. CASE Longer(b, f, c, g)
  <2>1. Begins(c)[Len(b) + 1] = Begins(b)[Len(b) + 1]
    BY <1>1, <1>4, BeginsSame DEF Longer, AsLong
  <2>2. Len(c) = Len(b) + 1 /\ Len(c) + 1 \in 1..Len(c) + 1 /\ Len(c) + 1 # 1
    BY <1>1, <1>4 DEF Longer
  <2>3. Begins(c)[Len(c) + 1] = Begins(c)[Len(c)] + c[Len(c)].size + 1
    <3>1. Len(c) + 1 - 1 = Len(c)
      BY <1>1
    <3> QED BY <2>2, <3>1, BeginsIs
  <2>4. c[Len(c)].size \in Nat
    BY <1>1, <2>2, BlockFields
  <2>5. PICK m, n, e, s : /\ m = Begins(b)[Len(b) + 1] /\ n = Begins(c)[Len(c) + 1]
                          /\ e = Begins(c)[Len(c)] /\ s = c[Len(c)].size
    OBVIOUS
  <2>6. e = m
    BY <2>1, <2>2, <2>5
  <2>7. n = e + s + 1
    BY <2>3, <2>5
  <2>8. g = f - (s + 1)
    BY <1>4, <2>2, <2>5 DEF Longer
  <2>9. m \in Int /\ s \in Int /\ m + f = Threshold
    BY <1>2, <2>4, <2>5
  <2>10. n + g = Threshold
    BY <2>6, <2>7, <2>8, <2>9
  <2> QED BY <2>5, <2>10
<1>5. CASE Emptied(c, g)
  <2>1. Len(c) = 0 /\ 1 \in 1..Len(c) + 1
    BY <1>5, Elements DEF Emptied
  <2>2. Begins(c)[1] = 0
    BY <2>1, BeginsIs
  <2> QED BY <1>1, <1>5, <2>1, <2>2 DEF Emptied
<1> QED BY <1>3, <1>4, <1>5

Change(p) ==
    \/ Alike(block[p], free[p], block'[p], free'[p])
    \/ Longer(block[p], free[p], block'[p], free'[p])
    \/ Emptied(block'[p], free'[p])

LEMMA PagesTyped ==
    ASSUME IInv
    PROVE  \A p \in Pages :
               /\ block[p] \in Seq(Block) /\ free[p] \in Int
               /\ Len(block[p]) \in Nat /\ DOMAIN block[p] = 1..Len(block[p])
               /\ \A i \in 1..Len(block[p]) : block[p][i] \in Block
<1>1. ASSUME NEW p \in Pages
      PROVE  /\ block[p] \in Seq(Block) /\ free[p] \in Int
             /\ Len(block[p]) \in Nat /\ DOMAIN block[p] = 1..Len(block[p])
             /\ \A i \in 1..Len(block[p]) : block[p][i] \in Block
  <2>1. block[p] \in Seq(PageBlock) /\ free \in [Pages -> -1..Threshold] /\ Threshold \in Nat
    BY ConstantsAssumption DEF IInv, BlocksTyped, ListInv, ListTypes
  <2>2. /\ Len(block[p]) \in Nat /\ DOMAIN block[p] = 1..Len(block[p])
        /\ block[p] \in [1..Len(block[p]) -> PageBlock]
    BY <2>1, Elements, LenProperties
  <2>3. block[p] \in [1..Len(block[p]) -> Block]
    BY <2>2 DEF PageBlock
  <2> QED BY <2>1, <2>2, <2>3, SeqDef
<1> QED BY <1>1

LEMMA PagesTypedNext ==
    (IInv => \A p \in Pages :
                 /\ block[p] \in Seq(Block) /\ free[p] \in Int
                 /\ Len(block[p]) \in Nat /\ DOMAIN block[p] = 1..Len(block[p]))'
<1>1. IInv => \A p \in Pages :
                 /\ block[p] \in Seq(Block) /\ free[p] \in Int
                 /\ Len(block[p]) \in Nat /\ DOMAIN block[p] = 1..Len(block[p])
  BY PagesTyped
<1> QED BY <1>1, PTL

LEMMA SameInterval ==
    ASSUME NEW m \in Nat, NEW n \in Nat, 1..m = 1..n
    PROVE  m = n
<1>1. ~(m < n) /\ ~(n < m)
  OBVIOUS
<1> QED BY <1>1

LEMMA KeptChange ==
    ASSUME IInv, IInv', NEW p \in Pages, free'[p] = free[p],
           DOMAIN block'[p] = DOMAIN block[p],
           \A i \in DOMAIN block[p] : block'[p][i].size = block[p][i].size
    PROVE  Change(p)
<1>1. /\ Len(block[p]) \in Nat /\ DOMAIN block[p] = 1..Len(block[p])
  BY PagesTyped
<1>2. /\ Len(block'[p]) \in Nat /\ DOMAIN block'[p] = 1..Len(block'[p])
  BY PagesTypedNext DEF Pages
<1>3. Len(block'[p]) = Len(block[p])
  BY <1>1, <1>2, SameInterval
<1> QED BY <1>1, <1>3 DEF Change, Alike, AsLong

\* A new block at the end of the list of blocks of the page p.
LEMMA LongerChange ==
    ASSUME IInv, NEW p \in Pages, NEW x \in Block, NEW r \in Pages,
           block' = [block EXCEPT ![p] = Append(@, x)],
           free' = [free EXCEPT ![p] = Remaining(p, x.size)]
    PROVE  Change(r)
<1>1. /\ block \in [Pages -> Seq(PageBlock)] /\ free \in [Pages -> -1..Threshold]
      /\ block[p] \in Seq(Block) /\ Len(block[p]) \in Nat
  BY PagesTyped DEF IInv, BlocksTyped, ListInv, ListTypes
<1>2. CASE r = p
  <2>1. block'[p] = Append(block[p], x) /\ free'[p] = free[p] - (x.size + 1)
    BY <1>1 DEF Remaining
  <2>2. /\ Len(block'[p]) = Len(block[p]) + 1
        /\ block'[p][Len(block[p]) + 1] = x
        /\ \A i \in 1..Len(block[p]) : block'[p][i] = block[p][i]
    BY <1>1, <2>1, AppendProperties
  <2> QED BY <1>2, <2>1, <2>2 DEF Change, Longer, AsLong
<1>3. CASE r # p
  BY <1>1, <1>3 DEF Change, Alike, AsLong
<1> QED BY <1>2, <1>3

LEMMA AllocateChange ==
    ASSUME IInv, NEW x \in Cells, NEW o \in Objects, NEW s \in Nat \ {0}, NEW expand,
           Allocate(x, o, s, expand), NEW r \in Pages
    PROVE  Change(r)
<1>1. NewBlock(o, s) \in Block
  BY NewBlockTyped
<1>2. PICK p \in Pages :
          \/ UNCHANGED pageVars
          \/ malloc_in_page(p, NewBlock(o, s))
  BY DEF Allocate
<1>3. CASE UNCHANGED pageVars
  BY <1>3 DEF pageVars, Change, Alike, AsLong
<1>4. CASE malloc_in_page(p, NewBlock(o, s))
  BY <1>1, <1>4, LongerChange DEF malloc_in_page
<1> QED BY <1>2, <1>3, <1>4

LEMMA StoreChange ==
    ASSUME IInv, IInv', NEW q, NEW i, NEW v, SetField(q, i, v), NEW r \in Pages
    PROVE  Change(r)
<1>1. /\ free' = free
      /\ block' = block \/ block' = [block EXCEPT ![q[1]][q[2]].field[i] = v]
      /\ block \in [Pages -> Seq(PageBlock)]
  BY DEF SetField, IInv, BlocksTyped
<1>2. PICK g : block'[r] = block[r] \/
               (block'[r] = [block[r] EXCEPT ![q[2]] = [block[r][q[2]] EXCEPT !.field = g]])
  <2>1. CASE block' = block
    BY <2>1
  <2>2. CASE block' = [block EXCEPT ![q[1]][q[2]].field[i] = v]
    <3>1. CASE r = q[1]
      <4>1. PICK g : g = [block[r][q[2]].field EXCEPT ![i] = v]
        OBVIOUS
      <4>2. block'[r] = [block[r] EXCEPT ![q[2]] = [block[r][q[2]] EXCEPT !.field = g]]
        BY <1>1, <2>2, <3>1, <4>1
      <4> QED BY <4>2
    <3>2. CASE r # q[1]
      BY <1>1, <2>2, <3>2
    <3> QED BY <3>1, <3>2
  <2> QED BY <1>1, <2>1, <2>2
<1>3. /\ Len(block[r]) \in Nat /\ DOMAIN block[r] = 1..Len(block[r])
      /\ \A j \in 1..Len(block[r]) : block[r][j] \in Block
  BY PagesTyped
<1>4. CASE block'[r] = block[r]
  BY <1>1, <1>4 DEF Change, Alike, AsLong
<1>5. CASE block'[r] = [block[r] EXCEPT ![q[2]] = [block[r][q[2]] EXCEPT !.field = g]]
  <2>1. \A j \in 1..Len(block[r]) :
            block'[r][j] = IF j = q[2] THEN [block[r][j] EXCEPT !.field = g] ELSE block[r][j]
    BY <1>3, <1>5
  <2>2. \A j \in 1..Len(block[r]) : block'[r][j].size = block[r][j].size
    BY <1>3, <2>1 DEF Block
  <2>3. DOMAIN block'[r] = DOMAIN block[r]
    BY <1>5
  <2> QED BY <1>1, <1>3, <2>2, <2>3, KeptChange
<1> QED BY <1>2, <1>4, <1>5

LEMMA CopyChange ==
    ASSUME IInv, IInv', WaitingPages # {}, NEW p \in Pages, NEW fb, CopyTo(p, fb),
           NEW r \in Pages
    PROVE  Change(r)
<1>1. PICK b, y, to : /\ b = NextBlock /\ to = <<p, Len(block[p]) + 1>>
                      /\ y = [At(b) EXCEPT !.marked = FALSE, !.pinned = FALSE, !.dead = FALSE]
  OBVIOUS
<1>2. /\ b[1] \in Pages /\ b[2] \in DOMAIN block[b[1]]
      /\ At(b) \in Block
  BY <1>1, NextBlockIs
<1>3. y \in Block /\ y.size = At(b).size
  <2>1. PICK w : w = At(b)
    OBVIOUS
  <2>2. /\ w \in Block /\ FALSE \in BOOLEAN
        /\ y = [w EXCEPT !.marked = FALSE, !.pinned = FALSE, !.dead = FALSE]
    BY <1>1, <1>2, <2>1
  <2>3. y \in Block
    BY <2>2, BlockKept
  <2>4. y.size = w.size
    BY <2>2 DEF Block
  <2> QED BY <2>1, <2>3, <2>4
<1> DEFINE B == [block EXCEPT ![p] = Append(@, y)]
<1>4. /\ block' = [B EXCEPT ![b[1]][b[2]].forward = to]
      /\ free' = [free EXCEPT ![p] = Remaining(p, y.size)]
  BY <1>1, <1>3 DEF CopyTo
<1>5. /\ block \in [Pages -> Seq(PageBlock)] /\ free \in [Pages -> -1..Threshold]
      /\ block[p] \in Seq(Block) /\ block[r] \in Seq(Block)
      /\ Len(block[p]) \in Nat /\ Len(block[r]) \in Nat
      /\ DOMAIN block[r] = 1..Len(block[r])
  BY PagesTyped DEF IInv, BlocksTyped, ListInv, ListTypes
<1>6. /\ B[r] \in Seq(Block) /\ Len(B[r]) \in Nat /\ DOMAIN B[r] = 1..Len(B[r])
      /\ \A i \in 1..Len(B[r]) : B[r][i] \in Block
      /\ r # p => B[r] = block[r]
      /\ r = p => /\ Len(B[r]) = Len(block[p]) + 1 /\ B[r][Len(block[p]) + 1] = y
                  /\ \A i \in 1..Len(block[p]) : B[r][i] = block[p][i]
  <2>1. CASE r = p
    <3>1. B[r] = Append(block[p], y)
      BY <1>5, <2>1
    <3>2. /\ B[r] \in Seq(Block) /\ Len(B[r]) = Len(block[p]) + 1
          /\ B[r][Len(block[p]) + 1] = y
          /\ \A i \in 1..Len(block[p]) : B[r][i] = block[p][i]
      BY <1>3, <1>5, <3>1, AppendProperties
    <3> HIDE DEF B
    <3> QED BY <2>1, <3>2, Elements
  <2>2. CASE r # p
    <3>1. B[r] = block[r]
      BY <1>5, <2>2
    <3> HIDE DEF B
    <3> QED BY <1>5, <2>2, <3>1, Elements
  <2> QED BY <2>1, <2>2
<1>7. DOMAIN B = Pages
  BY <1>5
<1> HIDE DEF B
<1>8. /\ DOMAIN block'[r] = 1..Len(B[r])
      /\ \A i \in 1..Len(B[r]) : block'[r][i].size = B[r][i].size
  <2>1. CASE r = b[1]
    <3>1. block'[r] = [B[r] EXCEPT ![b[2]] = [B[r][b[2]] EXCEPT !.forward = to]]
      BY <1>4, <1>7, <2>1
    <3>2. \A i \in 1..Len(B[r]) :
              block'[r][i] = IF i = b[2] THEN [B[r][i] EXCEPT !.forward = to] ELSE B[r][i]
      BY <1>6, <3>1
    <3>3. \A i \in 1..Len(B[r]) : block'[r][i].size = B[r][i].size
      BY <1>6, <3>2 DEF Block
    <3> QED BY <1>6, <3>1, <3>3
  <2>2. CASE r # b[1]
    BY <1>4, <1>6, <1>7, <2>2
  <2> QED BY <2>1, <2>2
<1>9. CASE r # p
  <2>1. free'[r] = free[r]
    BY <1>4, <1>5, <1>9
  <2> QED BY <1>5, <1>6, <1>8, <1>9, <2>1, KeptChange
<1>10. CASE r = p
  <2>1. /\ Len(block'[r]) \in Nat /\ DOMAIN block'[r] = 1..Len(block'[r])
    BY PagesTypedNext DEF Pages
  <2>2. Len(block'[r]) = Len(B[r])
    BY <1>6, <1>8, <2>1, SameInterval
  <2>3. free'[r] = free[r] - (y.size + 1)
    BY <1>4, <1>5, <1>10 DEF Remaining
  <2>4. block'[r][Len(block[r]) + 1].size = y.size
    <3>1. Len(block[r]) + 1 \in 1..Len(B[r])
      BY <1>5, <1>6, <1>10
    <3> QED BY <1>6, <1>8, <1>10, <3>1
  <2>5. \A i \in 1..Len(block[r]) : block'[r][i].size = block[r][i].size
    <3>1. \A i \in 1..Len(block[r]) : i \in 1..Len(B[r])
      BY <1>5, <1>6, <1>10
    <3> QED BY <1>6, <1>8, <1>10, <3>1
  <2> QED BY <1>6, <1>10, <2>2, <2>3, <2>4, <2>5 DEF Change, Longer, AsLong
<1> QED BY <1>9, <1>10

LEMMA StepChange ==
    ASSUME IInv, IInv', [Next]_vars, NEW r \in Pages
    PROVE  Change(r)
<1>1. /\ Len(block[r]) \in Nat /\ DOMAIN block[r] = 1..Len(block[r])
      /\ \A i \in 1..Len(block[r]) : block[r][i] \in Block
      /\ pages \in Seq(Pages) /\ alive_pages \in Seq(Pages)
      /\ Threshold \in Nat
  BY PagesTyped, ConstantsAssumption DEF IInv, ListInv, ListTypes
<1>2. ASSUME UNCHANGED pageVars
      PROVE  Change(r)
  BY <1>2 DEF pageVars, Change, Alike, AsLong
<1>3. CASE Program
  BY <1>2, <1>3, StoreChange DEF Program, Clear, Assign, Load, Store, Dereference,
     Forget, SetCell, SetRaw
<1>4. CASE Allocation
  <2>1. ASSUME NEW t \in Threads, NEW x \in Cells, NEW o \in Objects, NEW s \in Sizes[o],
               gcmalloc(t, x, o, s)
        PROVE  Change(r)
    <3>1. s \in Nat \ {0}
      BY ConstantsAssumption
    <3> QED BY <1>2, <2>1, <3>1, AllocateChange DEF gcmalloc
  <2>2. ASSUME NEW t \in Threads, gcmalloc_retry(t)
        PROVE  Change(r)
    <3>1. /\ want[t] # Null /\ want[t] \in Request \cup {Null}
          /\ Allocate(want[t].cell, want[t].obj, want[t].size, Expand)
      BY <2>2 DEF gcmalloc_retry, Asks, IInv, ProgramTyped
    <3>2. want[t].cell \in Cells /\ want[t].obj \in Objects /\ want[t].size \in Nat \ {0}
      BY <3>1 DEF Request
    <3> QED BY <3>1, <3>2, AllocateChange
  <2>3. ASSUME NEW t \in Threads, gc_refused(t)
        PROVE  Change(r)
    BY <1>2, <2>3 DEF gc_refused
  <2> QED BY <1>4, <2>1, <2>2, <2>3 DEF Allocation
<1>5. CASE mark
  <2>0. PICK found \in Found :
            block'[r] = [i \in DOMAIN block[r] |-> Flagged(<<r, i>>, found)]
    BY <1>5 DEF mark
  <2> DEFINE F(q) == Flagged(q, found)
  <2>1. block'[r] = [i \in DOMAIN block[r] |-> F(<<r, i>>)] /\ free'[r] = free[r]
    BY <1>5, <2>0 DEF mark
  <2>2. ASSUME NEW i \in DOMAIN block[r]
        PROVE  F(<<r, i>>).size = block[r][i].size
    <3>1. At(<<r, i>>) = block[r][i]
      BY DEF At, Pages
    <3>2. block[r][i] \in Block
      BY <1>1
    <3>3. F(<<r, i>>).size = At(<<r, i>>).size
      BY <3>1, <3>2, FlaggedKept
    <3> QED BY <3>1, <3>3
  <2> HIDE DEF F
  <2> QED BY <2>1, <2>2, KeptChange
<1>6. CASE sweep_big_blocks \/ classify_done \/ first_alive_page \/ fix_roots
  BY <1>2, <1>6 DEF sweep_big_blocks, classify_done, first_alive_page, fix_roots
<1>7. CASE classify_page
  <2>1. CASE ~HasPinned(Head(curr)) \/ r # Head(curr)
    <3>1. block'[r] = block[r] /\ free'[r] = free[r]
      BY <1>7, <2>1 DEF classify_page, IInv, BlocksTyped
    <3> QED BY <3>1 DEF Change, Alike, AsLong
  <2>2. CASE HasPinned(Head(curr)) /\ r = Head(curr)
    <3>1. block'[r] = [i \in DOMAIN block[r] |-> Stays(block[r][i])] /\ free'[r] = free[r]
      BY <1>7, <2>2 DEF classify_page, IInv, BlocksTyped
    <3>2. \A i \in DOMAIN block[r] : Stays(block[r][i]).size = block[r][i].size
      BY <1>1 DEF Stays, Block
    <3> QED BY <3>1, <3>2, KeptChange
  <2> QED BY <2>1, <2>2
<1>8. CASE copy_block
  <2>1. ASSUME NEW f, f = Min(Fits), Fits # {},
               CopyTo(Head(free_blocks[f]), [free_blocks EXCEPT ![f] = Tail(@)])
        PROVE  Change(r)
    <3>1. At(NextBlock).size \in Nat \ {0} /\ WaitingPages # {}
      BY <1>8, NextBlockIs, BlockFields DEF copy_block
    <3>2. max_free_block \in 0..Threshold /\ free_blocks \in [1..Threshold -> Seq(Pages)]
      BY DEF IInv, ListInv, ListTypes
    <3>3. Fits \in SUBSET Nat
      BY <1>1, <3>1, <3>2 DEF Fits
    <3>4. f \in Fits
      BY <2>1, <3>3, HasLeast
    <3>5. f \in 1..Threshold /\ free_blocks[f] # <<>>
      BY <1>1, <3>1, <3>2, <3>4 DEF Fits
    <3>6. Head(free_blocks[f]) \in Pages
      BY <3>2, <3>5, HeadTailProperties
    <3> QED BY <2>1, <3>1, <3>6, CopyChange
  <2> QED BY <1>8, <2>1, CopyChange DEF copy_block
<1>9. CASE fix_pages
  <2>1. CASE r \in ToSet(alive_pages)
    <3>1. block'[r] = [i \in DOMAIN block[r] |-> FixFields(block[r][i])] /\ free'[r] = free[r]
      BY <1>9, <2>1 DEF fix_pages
    <3>2. ASSUME NEW x \in Block
          PROVE  FixFields(x).size = x.size
      <4> DEFINE g == [i \in DOMAIN x.field |-> fix_ptr(x.field[i])]
      <4>1. FixFields(x) = IF x.dead THEN x ELSE [x EXCEPT !.field = g]
        BY DEF FixFields
      <4> HIDE DEF g
      <4> QED BY <4>1 DEF Block
    <3> QED BY <1>1, <3>1, <3>2, KeptChange
  <2>2. CASE r \notin ToSet(alive_pages)
    BY <1>9, <2>2 DEF fix_pages, Change, Alike, AsLong
  <2> QED BY <2>1, <2>2
<1>10. CASE release
  BY <1>10 DEF release, Change, Alike, AsLong, Emptied
<1>11. CASE UNCHANGED vars
  BY <1>2, <1>11 DEF vars
<1> QED BY <1>3, <1>4, <1>5, <1>6, <1>7, <1>8, <1>9, <1>10, <1>11 DEF Next, Sweep

(* A page never holds more than fits: its blocks, one behind the other,    *)
(* and its free block make up the page (malloc.cpp:173-183).               *)
THEOREM PagesAreFilled == Spec => []PageFilled
<1>1. Init => PageFilled
  <2>1. SUFFICES ASSUME Init, NEW p \in Pages
                 PROVE  Begins(block[p])[Len(block[p]) + 1] + free[p] = Threshold
    BY DEF PageFilled
  <2>2. /\ block[p] = <<>> /\ free[p] = Threshold /\ <<>> \in Seq(Block) /\ Len(<<>>) = 0
    BY <2>1, EmptySeq DEF Init
  <2>3. Begins(<<>>)[1] = 0
    <3>1. 1 \in 1..Len(<<>>) + 1
      BY <2>2
    <3> QED BY <2>2, <3>1, BeginsIs
  <2>4. Len(block[p]) + 1 = 1
    BY <2>2
  <2> QED BY <2>2, <2>3, <2>4, ConstantsAssumption
<1>2. IInv /\ IInv' /\ PageFilled /\ [Next]_vars => PageFilled'
  <2>1. SUFFICES ASSUME IInv, IInv', PageFilled, [Next]_vars, NEW p \in Pages
                 PROVE  Begins(block'[p])[Len(block'[p]) + 1] + free'[p] = Threshold
    BY DEF PageFilled, Pages, Begins
  <2>2. PICK b, f, c, g : b = block[p] /\ f = free[p] /\ c = block'[p] /\ g = free'[p]
    OBVIOUS
  <2>3. Alike(b, f, c, g) \/ Longer(b, f, c, g) \/ Emptied(c, g)
    BY <2>1, <2>2, StepChange DEF Change
  <2>4. b \in Seq(Block) /\ f \in Int /\ c \in Seq(Block)
    <3>1. b \in Seq(Block) /\ f \in Int
      BY <2>1, <2>2, PagesTyped
    <3>2. c \in Seq(Block)
      BY <2>1, <2>2, PagesTypedNext DEF Pages
    <3> QED BY <3>1, <3>2
  <2>5. Begins(b)[Len(b) + 1] + f = Threshold
    BY <2>1, <2>2 DEF PageFilled
  <2>6. Begins(c)[Len(c) + 1] + g = Threshold
    BY <2>3, <2>4, <2>5, FilledStill
  <2> QED BY <2>2, <2>6
<1> QED BY <1>1, <1>2, InvAlways, PTL DEF Spec
=============================================================================
