--------------------------- MODULE FakeRootsProofs ---------------------------
(***************************************************************************)
(* Proofs about FakeRoots, for any addresses and trees of any height.      *)
(* The functions on trees are recursive: first it is shown that each of    *)
(* them is defined and satisfies its equation, then what each of them does *)
(* to a tree that is ordered and balanced, by induction over the tree.     *)
(***************************************************************************)
EXTENDS FakeRoots, WellFoundedInduction, TLAPS

(* Induction over numbers, in the form of a set that holds all of them.    *)
LEMMA Induction ==
    ASSUME NEW B, 0 \in B, \A n \in Nat : n \in B => n + 1 \in B
    PROVE  Nat \subseteq B
<1> SUFFICES ASSUME Nat \ B # {} PROVE FALSE
  OBVIOUS
<1>1. PICK k \in Nat \ B : \A i \in Nat \ B : ~(<<i, k>> \in OpToRel(<, Nat))
  <2>1. Nat \ B \subseteq Nat
    OBVIOUS
  <2> QED BY <2>1, NatLessThanWellFounded, WFMin, Zenon
<1>2. \A i \in Nat \ B : ~(i < k)
  BY <1>1 DEF OpToRel
<1>3. k # 0 /\ k - 1 \in Nat
  <2>1. k \in Nat /\ k \notin B
    OBVIOUS
  <2>2. k # 0
    BY <2>1
  <2> QED BY <2>1, <2>2
<1>4. k - 1 \in B
  BY <1>2, <1>3
<1>5. k - 1 + 1 \in B
  BY <1>3, <1>4
<1> QED BY <1>5
-----------------------------------------------------------------------------
(* The sets of trees.                                                      *)
Counts(g, n) ==
    g = [i \in 0..n |-> IF i = 0 THEN {Null} ELSE {Null} \cup NodesOver(g[i - 1])]

\* Some function gives the trees that are no deeper than n.
LEMMA CountsExists == \A n \in Nat : \E g : Counts(g, n)
<1> DEFINE B == {n \in Nat : \E g : Counts(g, n)}
<1>1. 0 \in B
  <2>1. Counts([i \in 0..0 |-> {Null}], 0)
    BY DEF Counts
  <2> QED BY <2>1
<1>2. ASSUME NEW n \in Nat, n \in B PROVE n + 1 \in B
  <2>1. PICK g : Counts(g, n)
    BY <1>2
  <2> DEFINE h == [i \in 0..(n + 1) |->
                      IF i = 0 THEN {Null} ELSE {Null} \cup NodesOver(g[i - 1])]
  <2>2. \A i \in 0..n : g[i] = IF i = 0 THEN {Null} ELSE {Null} \cup NodesOver(g[i - 1])
    BY <2>1 DEF Counts
  <2>3. ASSUME NEW i \in 0..n PROVE h[i] = g[i]
    <3>1. i \in 0..(n + 1)
      OBVIOUS
    <3> QED BY <3>1, <2>2, Zenon
  <2>4. h = [i \in 0..(n + 1) |->
                IF i = 0 THEN {Null} ELSE {Null} \cup NodesOver(h[i - 1])]
    <3>1. ASSUME NEW i \in 0..(n + 1), i # 0 PROVE h[i - 1] = g[i - 1]
      <4>1. i - 1 \in 0..n
        BY <3>1
      <4> QED BY <4>1, <2>3
    <3> QED BY <3>1, Zenon
  <2> HIDE DEF h
  <2>5. Counts(h, n + 1)
    BY <2>4, Zenon DEF Counts
  <2> QED BY <2>5
<1> HIDE DEF B
<1>3. Nat \subseteq B
  BY <1>1, <1>2, Induction
<1> QED BY <1>3 DEF B

\* Two such functions agree.
LEMMA CountsAgree ==
    ASSUME NEW m \in Nat, NEW n \in Nat, NEW g, NEW h, Counts(g, m), Counts(h, n)
    PROVE  \A i \in Nat : i <= m /\ i <= n => g[i] = h[i]
<1> DEFINE B == {i \in Nat : i <= m /\ i <= n => g[i] = h[i]}
<1>0. /\ \A i \in 0..m : g[i] = IF i = 0 THEN {Null} ELSE {Null} \cup NodesOver(g[i - 1])
      /\ \A i \in 0..n : h[i] = IF i = 0 THEN {Null} ELSE {Null} \cup NodesOver(h[i - 1])
  BY DEF Counts
<1>1. 0 \in B
  <2>1. 0 \in 0..m /\ 0 \in 0..n
    OBVIOUS
  <2>2. g[0] = {Null} /\ h[0] = {Null}
    BY <1>0, <2>1, Zenon
  <2> QED BY <2>2
<1>2. ASSUME NEW i \in Nat, i \in B PROVE i + 1 \in B
  <2> SUFFICES ASSUME i + 1 <= m, i + 1 <= n PROVE g[i + 1] = h[i + 1]
    OBVIOUS
  <2>1. g[i] = h[i]
    BY <1>2
  <2>2. PICK j : j = i + 1
    OBVIOUS
  <2>3. j \in 0..m /\ j \in 0..n /\ j # 0 /\ j - 1 = i
    BY <2>2
  <2>4. g[j] = {Null} \cup NodesOver(g[j - 1]) /\ h[j] = {Null} \cup NodesOver(h[j - 1])
    BY <1>0, <2>3, Zenon
  <2>5. g[j] = h[j]
    BY <2>1, <2>3, <2>4, Zenon
  <2> QED BY <2>2, <2>5
<1> HIDE DEF B
<1>3. Nat \subseteq B
  BY <1>1, <1>2, Induction
<1> QED BY <1>3 DEF B

LEMMA TreesDef ==
    Trees = [n \in Nat |-> IF n = 0 THEN {Null} ELSE {Null} \cup NodesOver(Trees[n - 1])]
<1> DEFINE C(n) == CHOOSE g : Counts(g, n)
           h == [n \in Nat |-> C(n)[n]]
<1>1. \A n \in Nat : Counts(C(n), n)
  BY CountsExists
<1> HIDE DEF C
<1>2. ASSUME NEW n \in Nat
      PROVE  h[n] = IF n = 0 THEN {Null} ELSE {Null} \cup NodesOver(h[n - 1])
  <2>1. n \in 0..n /\ h[n] = C(n)[n]
    OBVIOUS
  <2>2. C(n)[n] = IF n = 0 THEN {Null} ELSE {Null} \cup NodesOver(C(n)[n - 1])
    BY <1>1, <2>1, Zenon DEF Counts
  <2>3. ASSUME n # 0 PROVE C(n)[n - 1] = h[n - 1]
    <3>1. n - 1 \in Nat /\ n - 1 <= n /\ n - 1 <= n - 1
      BY <2>3
    <3>2. Counts(C(n), n) /\ Counts(C(n - 1), n - 1)
      BY <1>1, <3>1
    <3>3. C(n)[n - 1] = C(n - 1)[n - 1]
      BY <3>1, <3>2, CountsAgree
    <3> QED BY <3>1, <3>3
  <2> QED BY <2>1, <2>2, <2>3
<1>3. h = [n \in Nat |-> IF n = 0 THEN {Null} ELSE {Null} \cup NodesOver(h[n - 1])]
  BY <1>2, Zenon
<1> HIDE DEF h
<1> QED BY <1>3, Zenon DEF Trees

LEMMA TreesValues ==
    /\ Trees[0] = {Null}
    /\ \A n \in Nat : Trees[n + 1] = {Null} \cup NodesOver(Trees[n])
<1>1. Trees[0] = {Null}
  BY TreesDef
<1>2. ASSUME NEW n \in Nat PROVE Trees[n + 1] = {Null} \cup NodesOver(Trees[n])
  <2>1. PICK j : j = n + 1
    OBVIOUS
  <2>2. j \in Nat /\ j # 0 /\ j - 1 = n
    BY <2>1
  <2>3. \A i \in Nat :
            Trees[i] = IF i = 0 THEN {Null} ELSE {Null} \cup NodesOver(Trees[i - 1])
    BY TreesDef, Zenon
  <2>4. Trees[j] = {Null} \cup NodesOver(Trees[j - 1])
    BY <2>2, <2>3, Zenon
  <2>5. Trees[j] = {Null} \cup NodesOver(Trees[n])
    BY <2>2, <2>4, Zenon
  <2> QED BY <2>1, <2>5, Zenon
<1> QED BY <1>1, <1>2
\* What a tree is made of.
LEMMA TreeParts ==
    ASSUME NEW n \in Nat, NEW p \in Trees[n + 1], p # Null
    PROVE  /\ p = [addr |-> p.addr, height |-> p.height, left |-> p.left, right |-> p.right]
           /\ p.addr \in Addresses /\ p.height \in Nat
           /\ p.left \in Trees[n] /\ p.right \in Trees[n]
<1>1. p \in NodesOver(Trees[n])
  BY TreesValues
<1> QED BY <1>1 DEF NodesOver

LEMMA NullIsTree == \A n \in Nat : Null \in Trees[n]
<1> SUFFICES ASSUME NEW n \in Nat PROVE Null \in Trees[n]
  OBVIOUS
<1>1. CASE n = 0
  BY <1>1, TreesValues
<1>2. CASE n # 0
  <2>1. PICK m \in Nat : n = m + 1
    <3>1. n - 1 \in Nat /\ n = n - 1 + 1
      BY <1>2
    <3> QED BY <3>1
  <2> QED BY <2>1, TreesValues
<1> QED BY <1>1, <1>2

LEMMA TreesGrow == \A n \in Nat : Trees[n] \subseteq Trees[n + 1]
<1> DEFINE B == {n \in Nat : Trees[n] \subseteq Trees[n + 1]}
<1>1. 0 \in B
  BY TreesValues, NullIsTree
<1>2. ASSUME NEW n \in Nat, n \in B PROVE n + 1 \in B
  <2>1. PICK m \in Nat : m = n + 1
    OBVIOUS
  <2>2. /\ Trees[m] = {Null} \cup NodesOver(Trees[n])
        /\ Trees[m + 1] = {Null} \cup NodesOver(Trees[m])
    BY <2>1, TreesValues
  <2>3. Trees[n] \subseteq Trees[m]
    BY <1>2, <2>1
  <2>4. NodesOver(Trees[n]) \subseteq NodesOver(Trees[m])
    BY <2>3 DEF NodesOver
  <2>5. Trees[m] \subseteq Trees[m + 1]
    BY <2>2, <2>4
  <2> QED BY <2>1, <2>5
<1> HIDE DEF B
<1>3. Nat \subseteq B
  BY <1>1, <1>2, Induction
<1> QED BY <1>3 DEF B

LEMMA TreesMonotone ==
    ASSUME NEW m \in Nat, NEW n \in Nat, m <= n
    PROVE  Trees[m] \subseteq Trees[n]
<1> DEFINE B == {i \in Nat : Trees[m] \subseteq Trees[m + i]}
<1>1. 0 \in B
  <2>1. m + 0 = m
    OBVIOUS
  <2> QED BY <2>1
<1>2. ASSUME NEW i \in Nat, i \in B PROVE i + 1 \in B
  <2>1. PICK j \in Nat : j = m + i
    OBVIOUS
  <2>2. Trees[m] \subseteq Trees[j]
    BY <1>2, <2>1
  <2>3. Trees[j] \subseteq Trees[j + 1]
    BY TreesGrow
  <2>4. m + (i + 1) = j + 1
    BY <2>1
  <2>5. Trees[m] \subseteq Trees[m + (i + 1)]
    BY <2>2, <2>3, <2>4
  <2> QED BY <2>5
<1> HIDE DEF B
<1>3. Nat \subseteq B
  BY <1>1, <1>2, Induction
<1>4. n - m \in Nat /\ m + (n - m) = n
  OBVIOUS
<1>5. Trees[m] \subseteq Trees[m + (n - m)]
  BY <1>3, <1>4 DEF B
<1> QED BY <1>4, <1>5

(* Induction over the trees that are no deeper than n.                     *)
LEMMA TreeInduction ==
    ASSUME NEW n \in Nat, NEW G, Null \in G,
           \A p \in Trees[n] : p # Null /\ p.left \in G /\ p.right \in G => p \in G
    PROVE  Trees[n] \subseteq G
<1> DEFINE B == {i \in Nat : i <= n => Trees[i] \subseteq G}
<1>1. 0 \in B
  BY TreesValues
<1>2. ASSUME NEW i \in Nat, i \in B PROVE i + 1 \in B
  <2> SUFFICES ASSUME i + 1 <= n, NEW p \in Trees[i + 1], p # Null PROVE p \in G
    OBVIOUS
  <2>1. Trees[i] \subseteq G
    BY <1>2
  <2>2. p.left \in Trees[i] /\ p.right \in Trees[i]
    BY TreeParts
  <2>3. p \in Trees[n]
    BY TreesMonotone, i + 1 \in Nat
  <2> QED BY <2>1, <2>2, <2>3
<1> HIDE DEF B
<1>3. Nat \subseteq B
  BY <1>1, <1>2, Induction
<1> QED BY <1>3 DEF B

LEMMA Subtrees ==
    ASSUME NEW n \in Nat, NEW p \in Trees[n], p # Null
    PROVE  /\ p.addr \in Addresses /\ p.height \in Nat
           /\ p.left \in Trees[n] /\ p.right \in Trees[n]
<1>1. n # 0
  BY TreesValues
<1>2. PICK m \in Nat : n = m + 1
  <2>1. n - 1 \in Nat /\ n = n - 1 + 1
    BY <1>1
  <2> QED BY <2>1
<1>3. /\ p.addr \in Addresses /\ p.height \in Nat
      /\ p.left \in Trees[m] /\ p.right \in Trees[m]
  BY <1>2, TreeParts
<1>4. Trees[m] \subseteq Trees[n]
  BY <1>2, TreesGrow
<1> QED BY <1>3, <1>4
-----------------------------------------------------------------------------
(* Recursion over trees: a function on the trees D with values in V that   *)
(* is b at Null, and elsewhere what s makes of a node and of the values at *)
(* its children, exists.                                                   *)
Recurs(f, D, V, b, s) ==
    /\ f \in [D -> V]
    /\ \A p \in D : f[p] = IF p = Null THEN b ELSE s[p][f[p.left]][f[p.right]]

LEMMA Recursion ==
    ASSUME NEW n \in Nat, NEW V, NEW b \in V,
           NEW s \in [Trees[n] -> [V -> [V -> V]]]
    PROVE  \E f : Recurs(f, Trees[n], V, b, s)
<1> DEFINE Solves(f, i) == Recurs(f, Trees[i], V, b, s)
           B == {i \in Nat : i <= n => \E f : Solves(f, i)}
<1>1. 0 \in B
  <2>1. Solves([p \in Trees[0] |-> b], 0)
    BY TreesValues DEF Recurs
  <2> QED BY <2>1
<1>2. ASSUME NEW i \in Nat, i \in B PROVE i + 1 \in B
  <2> SUFFICES ASSUME i + 1 <= n PROVE \E f : Solves(f, i + 1)
    OBVIOUS
  <2>1. PICK f : Solves(f, i)
    BY <1>2
  <2>2. PICK j \in Nat : j = i + 1 /\ j <= n
    OBVIOUS
  <2> DEFINE g == [p \in Trees[j] |->
                      IF p = Null THEN b ELSE s[p][f[p.left]][f[p.right]]]
  <2>3. Trees[i] \subseteq Trees[j] /\ Trees[j] \subseteq Trees[n]
    BY <2>2, TreesMonotone
  <2>4. \A p \in Trees[i] : g[p] = f[p]
    BY <2>1, <2>3, Zenon DEF Recurs
  <2>5. ASSUME NEW p \in Trees[j], p # Null
        PROVE  p.left \in Trees[i] /\ p.right \in Trees[i]
    BY <2>2, <2>5, TreeParts
  <2>6. ASSUME NEW p \in Trees[j]
        PROVE  (IF p = Null THEN b ELSE s[p][f[p.left]][f[p.right]]) \in V
    <3>1. CASE p = Null
      BY <3>1
    <3>2. CASE p # Null
      <4>1. f[p.left] \in V /\ f[p.right] \in V
        BY <2>1, <2>5, <3>2 DEF Recurs
      <4>2. s[p] \in [V -> [V -> V]]
        BY <2>3
      <4>3. s[p][f[p.left]] \in [V -> V]
        BY <4>1, <4>2
      <4>4. s[p][f[p.left]][f[p.right]] \in V
        BY <4>1, <4>3
      <4> QED BY <3>2, <4>4
    <3> QED BY <3>1, <3>2
  <2>7. g \in [Trees[j] -> V]
    BY <2>6
  <2>8. ASSUME NEW p \in Trees[j]
        PROVE  g[p] = IF p = Null THEN b ELSE s[p][g[p.left]][g[p.right]]
    <3>1. g[p] = IF p = Null THEN b ELSE s[p][f[p.left]][f[p.right]]
      BY Zenon
    <3>2. p # Null => g[p.left] = f[p.left] /\ g[p.right] = f[p.right]
      BY <2>4, <2>5
    <3> HIDE DEF g
    <3> QED BY <3>1, <3>2
  <2> HIDE DEF g
  <2>9. Solves(g, j)
    BY <2>7, <2>8 DEF Recurs
  <2> QED BY <2>2, <2>9
<1>3. \A i \in Nat : i \in B
  <2> HIDE DEF B
  <2>1. Nat \subseteq B
    BY <1>1, <1>2, Induction
  <2> QED BY <2>1
<1>4. n \in B
  BY <1>3
<1>5. PICK f : Solves(f, n)
  BY <1>4
<1> QED BY <1>5
-----------------------------------------------------------------------------
(* The trees that the functions take, and those that they give.            *)
Full == Trees[MaxHeight]
Tree == UNION {Trees[n] : n \in Nat}

LEMMA MaxHeightType == MaxHeight \in Nat
BY ConstantsAssumption

LEMMA FullIsTree == Full \subseteq Tree /\ Null \in Full /\ Null \in Tree
BY MaxHeightType, NullIsTree DEF Full, Tree

LEMMA TreeFields ==
    ASSUME NEW p \in Tree, p # Null
    PROVE  /\ p.addr \in Addresses /\ p.height \in Nat
           /\ p.left \in Tree /\ p.right \in Tree
<1>1. PICK n \in Nat : p \in Trees[n]
  BY DEF Tree
<1> QED BY <1>1, Subtrees DEF Tree

LEMMA FullFields ==
    ASSUME NEW p \in Full, p # Null
    PROVE  /\ p.addr \in Addresses /\ p.height \in Nat
           /\ p.left \in Full /\ p.right \in Full
BY MaxHeightType, Subtrees DEF Full

LEMMA HeightType == \A p \in Tree : Height(p) \in Nat
BY TreeFields DEF Height

LEMMA HigherProperties ==
    \A a, b \in Nat :
        /\ Higher(a, b) \in Nat /\ a <= Higher(a, b) /\ b <= Higher(a, b)
        /\ Higher(a, b) = IF a > b THEN a ELSE b
BY DEF Higher

LEMMA NodeFields ==
    ASSUME NEW k, NEW l, NEW r
    PROVE  /\ Node(k, l, r).addr = k
           /\ Node(k, l, r).height = Higher(Height(l), Height(r)) + 1
           /\ Node(k, l, r).left = l
           /\ Node(k, l, r).right = r
BY DEF Node

LEMMA NodeInTrees ==
    ASSUME NEW n \in Nat, NEW k \in Addresses, NEW l \in Trees[n], NEW r \in Trees[n]
    PROVE  Node(k, l, r) \in Trees[n + 1] /\ Node(k, l, r) \in NodesOver(Trees[n])
<1>1. Height(l) \in Nat /\ Height(r) \in Nat
  BY HeightType DEF Tree
<1>2. Higher(Height(l), Height(r)) + 1 \in Nat
  <2>1. PICK a \in Nat, b \in Nat : a = Height(l) /\ b = Height(r)
    BY <1>1
  <2>2. Higher(a, b) + 1 \in Nat
    BY HigherProperties
  <2> QED BY <2>1, <2>2
<1>3. Node(k, l, r) \in NodesOver(Trees[n])
  BY <1>2 DEF Node, NodesOver
<1> QED BY <1>3, TreesValues

LEMMA NodeIsTree ==
    ASSUME NEW k \in Addresses, NEW l \in Tree, NEW r \in Tree
    PROVE  Node(k, l, r) \in Tree
<1>1. PICK i \in Nat, j \in Nat : l \in Trees[i] /\ r \in Trees[j]
  BY DEF Tree
<1>2. PICK n \in Nat : i <= n /\ j <= n
  OBVIOUS
<1>3. l \in Trees[n] /\ r \in Trees[n]
  BY <1>1, <1>2, TreesMonotone
<1>4. Node(k, l, r) \in Trees[n + 1] /\ n + 1 \in Nat
  BY <1>3, NodeInTrees
<1> QED BY <1>4 DEF Tree

\* bfactor of a node that Node makes.
LEMMA NodeFactor ==
    ASSUME NEW k, NEW l, NEW r
    PROVE  bfactor(Node(k, l, r)) = Height(r) - Height(l)
BY NodeFields DEF bfactor

\* What balance makes, in the five cases.
LEMMA BalanceCases ==
    ASSUME NEW k, NEW l \in Tree, NEW r \in Tree
    PROVE  /\ Height(r) - Height(l) = 2 /\ ~(bfactor(r) < 0) =>
                balance(k, l, r) = Node(r.addr, Node(k, l, r.left), r.right)
           /\ Height(r) - Height(l) = 2 /\ bfactor(r) < 0 =>
                balance(k, l, r) =
                    Node(r.left.addr, Node(k, l, r.left.left),
                         Node(r.addr, r.left.right, r.right))
           /\ Height(r) - Height(l) = -2 /\ ~(bfactor(l) > 0) =>
                balance(k, l, r) = Node(l.addr, l.left, Node(k, l.right, r))
           /\ Height(r) - Height(l) = -2 /\ bfactor(l) > 0 =>
                balance(k, l, r) =
                    Node(l.right.addr, Node(l.addr, l.left, l.right.left),
                         Node(k, l.right.right, r))
           /\ Height(r) - Height(l) \notin {2, -2} => balance(k, l, r) = Node(k, l, r)
<1> DEFINE p == Node(k, l, r)
           d == Height(r) - Height(l)
<1>1. d \in Int
  BY HeightType
<1>2. bfactor(p) = d
  BY NodeFactor
<1>3. balance(k, l, r) =
          CASE d = 2 -> rotateleft(IF bfactor(r) < 0 THEN Node(k, l, rotateright(r)) ELSE p)
            [] d = -2 -> rotateright(IF bfactor(l) > 0 THEN Node(k, rotateleft(l), r) ELSE p)
            [] OTHER -> p
  BY <1>2, Zenon DEF balance
<1> HIDE DEF p, d
<1>p. p.addr = k /\ p.left = l /\ p.right = r
  BY NodeFields DEF p
<1>4. rotateleft(p) = Node(r.addr, Node(k, l, r.left), r.right)
  BY <1>p, Zenon DEF rotateleft
<1>5. rotateright(p) = Node(l.addr, l.left, Node(k, l.right, r))
  BY <1>p, Zenon DEF rotateright
<1>6. rotateleft(Node(k, l, rotateright(r))) =
          Node(r.left.addr, Node(k, l, r.left.left), Node(r.addr, r.left.right, r.right))
  <2>1. PICK q : q = rotateright(r)
    OBVIOUS
  <2>2. q.addr = r.left.addr /\ q.left = r.left.left /\ q.right = Node(r.addr, r.left.right, r.right)
    BY <2>1, NodeFields DEF rotateright
  <2>3. PICK t : t = Node(k, l, q)
    OBVIOUS
  <2>4. t.addr = k /\ t.left = l /\ t.right = q
    BY <2>3, NodeFields
  <2>5. rotateleft(t) = Node(q.addr, Node(k, l, q.left), q.right)
    BY <2>4, Zenon DEF rotateleft
  <2> QED BY <2>1, <2>2, <2>3, <2>5, Zenon
<1>7. rotateright(Node(k, rotateleft(l), r)) =
          Node(l.right.addr, Node(l.addr, l.left, l.right.left), Node(k, l.right.right, r))
  <2>1. PICK q : q = rotateleft(l)
    OBVIOUS
  <2>2. q.addr = l.right.addr /\ q.left = Node(l.addr, l.left, l.right.left) /\ q.right = l.right.right
    BY <2>1, NodeFields DEF rotateleft
  <2>3. PICK t : t = Node(k, q, r)
    OBVIOUS
  <2>4. t.addr = k /\ t.left = q /\ t.right = r
    BY <2>3, NodeFields
  <2>5. rotateright(t) = Node(q.addr, q.left, Node(k, q.right, r))
    BY <2>4, Zenon DEF rotateright
  <2> QED BY <2>1, <2>2, <2>3, <2>5, Zenon
<1>8. d = 2 => balance(k, l, r) = rotateleft(IF bfactor(r) < 0 THEN Node(k, l, rotateright(r)) ELSE p)
  BY <1>3
<1>9. d = -2 => balance(k, l, r) = rotateright(IF bfactor(l) > 0 THEN Node(k, rotateleft(l), r) ELSE p)
  BY <1>3
<1>10. d \notin {2, -2} => balance(k, l, r) = p
  BY <1>3
<1>11. d = 2 /\ ~(bfactor(r) < 0) => balance(k, l, r) = rotateleft(p)
  BY <1>8, Zenon
<1>12. d = 2 /\ bfactor(r) < 0 => balance(k, l, r) = rotateleft(Node(k, l, rotateright(r)))
  BY <1>8, Zenon
<1>13. d = -2 /\ ~(bfactor(l) > 0) => balance(k, l, r) = rotateright(p)
  BY <1>9, Zenon
<1>14. d = -2 /\ bfactor(l) > 0 => balance(k, l, r) = rotateright(Node(k, rotateleft(l), r))
  BY <1>9, Zenon
<1> QED BY <1>4, <1>5, <1>6, <1>7, <1>10, <1>11, <1>12, <1>13, <1>14, Zenon DEF d, p

LEMMA BalanceIsTree ==
    ASSUME NEW k \in Addresses, NEW l \in Tree, NEW r \in Tree
    PROVE  balance(k, l, r) \in Tree
<1>1. /\ Height(l) \in Nat /\ Height(r) \in Nat
      /\ Height(Null) = 0
  BY HeightType DEF Height
<1>2. CASE Height(r) - Height(l) = 2
  <2>1. r # Null
    BY <1>1, <1>2
  <2>2. r.addr \in Addresses /\ r.left \in Tree /\ r.right \in Tree
    BY <2>1, TreeFields
  <2>3. CASE ~(bfactor(r) < 0)
    <3>1. Node(k, l, r.left) \in Tree
      BY <2>2, NodeIsTree
    <3>2. Node(r.addr, Node(k, l, r.left), r.right) \in Tree
      BY <2>2, <3>1, NodeIsTree
    <3> QED BY <1>2, <2>3, <3>2, BalanceCases
  <2>4. CASE bfactor(r) < 0
    <3>1. Height(r.left) \in Nat /\ Height(r.right) \in Nat
      BY <2>2, HeightType
    <3>2. r.left # Null
      BY <1>1, <2>4, <3>1 DEF bfactor
    <3>3. r.left.addr \in Addresses /\ r.left.left \in Tree /\ r.left.right \in Tree
      BY <2>2, <3>2, TreeFields
    <3>4. Node(k, l, r.left.left) \in Tree /\ Node(r.addr, r.left.right, r.right) \in Tree
      BY <2>2, <3>3, NodeIsTree
    <3>5. Node(r.left.addr, Node(k, l, r.left.left), Node(r.addr, r.left.right, r.right))
              \in Tree
      BY <3>3, <3>4, NodeIsTree
    <3> QED BY <1>2, <2>4, <3>5, BalanceCases
  <2> QED BY <2>3, <2>4
<1>3. CASE Height(r) - Height(l) = -2
  <2>1. l # Null
    BY <1>1, <1>3
  <2>2. l.addr \in Addresses /\ l.left \in Tree /\ l.right \in Tree
    BY <2>1, TreeFields
  <2>3. CASE ~(bfactor(l) > 0)
    <3>1. Node(k, l.right, r) \in Tree
      BY <2>2, NodeIsTree
    <3>2. Node(l.addr, l.left, Node(k, l.right, r)) \in Tree
      BY <2>2, <3>1, NodeIsTree
    <3> QED BY <1>3, <2>3, <3>2, BalanceCases
  <2>4. CASE bfactor(l) > 0
    <3>1. Height(l.left) \in Nat /\ Height(l.right) \in Nat
      BY <2>2, HeightType
    <3>2. l.right # Null
      BY <1>1, <2>4, <3>1 DEF bfactor
    <3>3. l.right.addr \in Addresses /\ l.right.left \in Tree /\ l.right.right \in Tree
      BY <2>2, <3>2, TreeFields
    <3>4. Node(l.addr, l.left, l.right.left) \in Tree /\ Node(k, l.right.right, r) \in Tree
      BY <2>2, <3>3, NodeIsTree
    <3>5. Node(l.right.addr, Node(l.addr, l.left, l.right.left), Node(k, l.right.right, r))
              \in Tree
      BY <3>3, <3>4, NodeIsTree
    <3> QED BY <1>3, <2>4, <3>5, BalanceCases
  <2> QED BY <2>3, <2>4
<1>4. CASE Height(r) - Height(l) \notin {2, -2}
  BY <1>4, BalanceCases, NodeIsTree
<1> QED BY <1>2, <1>3, <1>4
LEMMA FullRecursion ==
    ASSUME NEW V, NEW b \in V, NEW s \in [Full -> [V -> [V -> V]]]
    PROVE  \E f : Recurs(f, Full, V, b, s)
<1>1. PICK n \in Nat : n = MaxHeight
  BY MaxHeightType
<1>2. Full = Trees[n]
  BY <1>1 DEF Full
<1>3. s \in [Trees[n] -> [V -> [V -> V]]]
  BY <1>2
<1> QED BY <1>2, <1>3, Recursion

LEMMA FullInduction ==
    ASSUME NEW G, Null \in G,
           \A p \in Full : p # Null /\ p.left \in G /\ p.right \in G => p \in G
    PROVE  Full \subseteq G
<1>1. PICK n \in Nat : n = MaxHeight
  BY MaxHeightType
<1>2. Full = Trees[n]
  BY <1>1 DEF Full
<1> QED BY <1>2, TreeInduction
-----------------------------------------------------------------------------
(* Each function is defined, and what it gives is a tree.                  *)
LEMMA InsertDef ==
    ASSUME NEW k \in Addresses
    PROVE  /\ insert(k) \in [Full -> Tree]
           /\ \A p \in Full :
                insert(k)[p] =
                    IF p = Null THEN Node(k, Null, Null)
                    ELSE IF k < p.addr THEN balance(p.addr, insert(k)[p.left], p.right)
                    ELSE balance(p.addr, p.left, insert(k)[p.right])
<1> DEFINE s == [p \in Full |-> [x \in Tree |-> [y \in Tree |->
                    IF p = Null THEN Null
                    ELSE IF k < p.addr THEN balance(p.addr, x, p.right)
                    ELSE balance(p.addr, p.left, y)]]]
           b == Node(k, Null, Null)
<1>1. b \in Tree
  BY FullIsTree, NodeIsTree
<1>2. s \in [Full -> [Tree -> [Tree -> Tree]]]
  <2>1. ASSUME NEW p \in Full, NEW x \in Tree, NEW y \in Tree
        PROVE  (IF p = Null THEN Null
                ELSE IF k < p.addr THEN balance(p.addr, x, p.right)
                ELSE balance(p.addr, p.left, y)) \in Tree
    <3>1. CASE p = Null
      BY <3>1, FullIsTree
    <3>2. CASE p # Null
      <4>1. p.addr \in Addresses /\ p.left \in Tree /\ p.right \in Tree
        BY <3>2, FullIsTree, TreeFields
      <4> QED BY <3>2, <4>1, BalanceIsTree
    <3> QED BY <3>1, <3>2
  <2> QED BY <2>1
<1>3. \A p \in Full, x, y \in Tree : p # Null =>
          s[p][x][y] = IF k < p.addr THEN balance(p.addr, x, p.right)
                       ELSE balance(p.addr, p.left, y)
  BY Zenon
<1> HIDE DEF s, b
<1>4. PICK f : Recurs(f, Full, Tree, b, s)
  BY <1>1, <1>2, FullRecursion
<1>5. ASSUME NEW p \in Full
      PROVE  f[p] = IF p = Null THEN Node(k, Null, Null)
                    ELSE IF k < p.addr THEN balance(p.addr, f[p.left], p.right)
                    ELSE balance(p.addr, p.left, f[p.right])
  <2>1. CASE p = Null
    BY <1>4, <2>1, Zenon DEF b, Recurs
  <2>2. CASE p # Null
    <3>1. f[p.left] \in Tree /\ f[p.right] \in Tree
      BY <1>4, <2>2, FullFields DEF Recurs
    <3>2. f[p] = s[p][f[p.left]][f[p.right]]
      BY <1>4, <2>2, Zenon DEF Recurs
    <3> QED BY <1>3, <2>2, <3>1, <3>2, Zenon
  <2> QED BY <2>1, <2>2, Zenon
<1>6. f = [p \in Full |-> IF p = Null THEN Node(k, Null, Null)
                          ELSE IF k < p.addr THEN balance(p.addr, f[p.left], p.right)
                          ELSE balance(p.addr, p.left, f[p.right])]
  BY <1>4, <1>5, Zenon DEF Recurs
<1> DEFINE Solves(g) ==
              g = [p \in Full |-> IF p = Null THEN Node(k, Null, Null)
                                  ELSE IF k < p.addr THEN balance(p.addr, g[p.left], p.right)
                                  ELSE balance(p.addr, p.left, g[p.right])]
<1>7. insert(k) = CHOOSE g : Solves(g)
  BY Zenon DEF insert, Full
<1>8. Solves(insert(k))
  <2> HIDE DEF Solves
  <2>1. Solves(f)
    BY <1>6, Zenon DEF Solves
  <2> QED BY <1>7, <2>1, Zenon
<1> DEFINE g == insert(k)
<1>9. ASSUME NEW p \in Full
      PROVE  g[p] = IF p = Null THEN Node(k, Null, Null)
                    ELSE IF k < p.addr THEN balance(p.addr, g[p.left], p.right)
                    ELSE balance(p.addr, p.left, g[p.right])
  BY <1>8, Zenon
<1>10. g = [p \in Full |-> g[p]]
  BY <1>8
<1> HIDE DEF Solves, g
<1>11. \A p \in Full : g[p] \in Tree
  <2> DEFINE G == {p \in Full : g[p] \in Tree}
  <2>1. Null \in G
    BY <1>1, <1>9, FullIsTree DEF b
  <2>2. ASSUME NEW p \in Full, p # Null, p.left \in G, p.right \in G PROVE p \in G
    <3>1. /\ g[p.left] \in Tree /\ g[p.right] \in Tree
          /\ p.addr \in Addresses /\ p.left \in Tree /\ p.right \in Tree
      BY <2>2, FullFields, FullIsTree
    <3>2. g[p] \in Tree
      BY <1>9, <2>2, <3>1, BalanceIsTree
    <3> QED BY <3>2
  <2> HIDE DEF G
  <2>3. Full \subseteq G
    BY <2>1, <2>2, FullInduction
  <2> QED BY <2>3 DEF G
<1>12. g \in [Full -> Tree]
  BY <1>10, <1>11
<1> QED BY <1>9, <1>12, Zenon DEF g

LEMMA FindminDef ==
    /\ findmin \in [Full \ {Null} -> Full \ {Null}]
    /\ \A p \in Full \ {Null} :
           findmin[p] = IF p.left # Null THEN findmin[p.left] ELSE p
<1> DEFINE s == [p \in Full |-> [x \in Full |-> [y \in Full |->
                    IF p = Null THEN Null ELSE IF p.left # Null THEN x ELSE p]]]
<1>1. s \in [Full -> [Full -> [Full -> Full]]] /\ Null \in Full
  BY FullIsTree
<1>2. \A p \in Full, x, y \in Full : p # Null =>
          s[p][x][y] = IF p.left # Null THEN x ELSE p
  BY Zenon
<1> HIDE DEF s
<1>3. PICK f : Recurs(f, Full, Full, Null, s)
  BY <1>1, FullRecursion
<1> DEFINE h == [p \in Full \ {Null} |-> f[p]]
<1>4. ASSUME NEW p \in Full \ {Null}
      PROVE  h[p] = IF p.left # Null THEN h[p.left] ELSE p
  <2>1. p \in Full /\ p # Null
    OBVIOUS
  <2>2. p.left \in Full /\ f[p.left] \in Full /\ f[p.right] \in Full
    BY <1>3, FullFields DEF Recurs
  <2>3. f[p] = s[p][f[p.left]][f[p.right]]
    BY <1>3, <2>1, Zenon DEF Recurs
  <2>4. f[p] = IF p.left # Null THEN f[p.left] ELSE p
    <3>1. \A x, y \in Full : s[p][x][y] = IF p.left # Null THEN x ELSE p
      BY <1>2, <2>1, Zenon
    <3>2. s[p][f[p.left]][f[p.right]] = IF p.left # Null THEN f[p.left] ELSE p
      BY <2>2, <3>1
    <3> QED BY <2>3, <3>2
  <2>5. p.left # Null => h[p.left] = f[p.left]
    BY <2>2
  <2>6. h[p] = f[p]
    OBVIOUS
  <2> HIDE DEF h
  <2> QED BY <2>4, <2>5, <2>6, Zenon
<1>5. h = [p \in Full \ {Null} |-> IF p.left # Null THEN h[p.left] ELSE p]
  BY <1>4, Zenon
<1> HIDE DEF h
<1> DEFINE Solves(g) ==
              g = [p \in Full \ {Null} |-> IF p.left # Null THEN g[p.left] ELSE p]
<1>6. Solves(findmin)
  <2>1. findmin = CHOOSE g : Solves(g)
    BY Zenon DEF findmin, Full
  <2> HIDE DEF Solves
  <2>2. Solves(h)
    BY <1>5, Zenon DEF Solves
  <2> QED BY <2>1, <2>2, Zenon
<1> DEFINE g == findmin
<1>7. ASSUME NEW p \in Full \ {Null}
      PROVE  g[p] = IF p.left # Null THEN g[p.left] ELSE p
  BY <1>6, Zenon
<1>8. g = [p \in Full \ {Null} |-> g[p]]
  BY <1>6
<1> HIDE DEF Solves, g
<1>9. \A p \in Full \ {Null} : g[p] \in Full \ {Null}
  <2> DEFINE G == {p \in Full : p # Null => g[p] \in Full \ {Null}}
  <2>1. Null \in G
    BY FullIsTree
  <2>2. ASSUME NEW p \in Full, p # Null, p.left \in G, p.right \in G PROVE p \in G
    <3>1. p.left # Null => g[p.left] \in Full \ {Null}
      BY <2>2
    <3>2. g[p] \in Full \ {Null}
      BY <1>7, <2>2, <3>1
    <3> QED BY <3>2
  <2> HIDE DEF G
  <2>3. Full \subseteq G
    BY <2>1, <2>2, FullInduction
  <2> QED BY <2>3 DEF G
<1>10. g \in [Full \ {Null} -> Full \ {Null}]
  BY <1>8, <1>9
<1> QED BY <1>7, <1>10, Zenon DEF g

LEMMA RemoveminDef ==
    /\ removemin \in [Full \ {Null} -> Tree]
    /\ \A p \in Full \ {Null} :
           removemin[p] = IF p.left = Null THEN p.right
                          ELSE balance(p.addr, removemin[p.left], p.right)
<1> DEFINE s == [p \in Full |-> [x \in Tree |-> [y \in Tree |->
                    IF p = Null THEN Null
                    ELSE IF p.left = Null THEN p.right ELSE balance(p.addr, x, p.right)]]]
<1>1. s \in [Full -> [Tree -> [Tree -> Tree]]] /\ Null \in Tree
  <2>1. ASSUME NEW p \in Full, NEW x \in Tree, NEW y \in Tree
        PROVE  (IF p = Null THEN Null
                ELSE IF p.left = Null THEN p.right ELSE balance(p.addr, x, p.right)) \in Tree
    <3>1. CASE p = Null
      BY <3>1, FullIsTree
    <3>2. CASE p # Null
      <4>1. p.addr \in Addresses /\ p.right \in Tree
        BY <3>2, FullIsTree, TreeFields
      <4> QED BY <3>2, <4>1, BalanceIsTree
    <3> QED BY <3>1, <3>2
  <2> QED BY <2>1, FullIsTree
<1>2. \A p \in Full, x, y \in Tree : p # Null =>
          s[p][x][y] = IF p.left = Null THEN p.right ELSE balance(p.addr, x, p.right)
  BY Zenon
<1> HIDE DEF s
<1>3. PICK f : Recurs(f, Full, Tree, Null, s)
  BY <1>1, FullRecursion
<1> DEFINE h == [p \in Full \ {Null} |-> f[p]]
<1>4. ASSUME NEW p \in Full \ {Null}
      PROVE  h[p] = IF p.left = Null THEN p.right ELSE balance(p.addr, h[p.left], p.right)
  <2>1. p \in Full /\ p # Null
    OBVIOUS
  <2>2. p.left \in Full /\ f[p.left] \in Tree /\ f[p.right] \in Tree
    BY <1>3, FullFields DEF Recurs
  <2>3. f[p] = s[p][f[p.left]][f[p.right]]
    BY <1>3, <2>1, Zenon DEF Recurs
  <2>4. f[p] = IF p.left = Null THEN p.right ELSE balance(p.addr, f[p.left], p.right)
    BY <1>2, <2>1, <2>2, <2>3, Zenon
  <2>5. p.left # Null => h[p.left] = f[p.left]
    BY <2>2
  <2>6. h[p] = f[p]
    OBVIOUS
  <2> HIDE DEF h
  <2> QED BY <2>4, <2>5, <2>6, Zenon
<1>5. h = [p \in Full \ {Null} |->
              IF p.left = Null THEN p.right ELSE balance(p.addr, h[p.left], p.right)]
  BY <1>4, Zenon
<1> HIDE DEF h
<1> DEFINE Solves(g) ==
              g = [p \in Full \ {Null} |->
                      IF p.left = Null THEN p.right
                      ELSE balance(p.addr, g[p.left], p.right)]
<1>6. Solves(removemin)
  <2>1. removemin = CHOOSE g : Solves(g)
    BY Zenon DEF removemin, Full
  <2> HIDE DEF Solves
  <2>2. Solves(h)
    BY <1>5, Zenon DEF Solves
  <2> QED BY <2>1, <2>2, Zenon
<1> DEFINE g == removemin
<1>7. ASSUME NEW p \in Full \ {Null}
      PROVE  g[p] = IF p.left = Null THEN p.right
                    ELSE balance(p.addr, g[p.left], p.right)
  BY <1>6, Zenon
<1>8. g = [p \in Full \ {Null} |-> g[p]]
  BY <1>6
<1> HIDE DEF Solves, g
<1>9. \A p \in Full \ {Null} : g[p] \in Tree
  <2> DEFINE G == {p \in Full : p # Null => g[p] \in Tree}
  <2>1. Null \in G
    BY FullIsTree
  <2>2. ASSUME NEW p \in Full, p # Null, p.left \in G, p.right \in G PROVE p \in G
    <3>1. /\ p.left # Null => g[p.left] \in Tree
          /\ p.addr \in Addresses /\ p.right \in Tree
      BY <2>2, FullIsTree, TreeFields
    <3>2. g[p] \in Tree
      BY <1>7, <2>2, <3>1, BalanceIsTree
    <3> QED BY <3>2
  <2> HIDE DEF G
  <2>3. Full \subseteq G
    BY <2>1, <2>2, FullInduction
  <2> QED BY <2>3 DEF G
<1>10. g \in [Full \ {Null} -> Tree]
  BY <1>8, <1>9
<1> QED BY <1>7, <1>10, Zenon DEF g

LEMMA JoinedIsTree ==
    ASSUME NEW q \in Full, NEW r \in Full
    PROVE  Joined(q, r) \in Tree
<1>1. CASE r = Null
  BY <1>1, FullIsTree DEF Joined
<1>2. CASE r # Null
  <2>1. findmin[r] \in Full /\ findmin[r] # Null /\ removemin[r] \in Tree
    BY <1>2, FindminDef, RemoveminDef
  <2>2. findmin[r].addr \in Addresses /\ q \in Tree
    BY <2>1, FullFields, FullIsTree
  <2>3. balance(findmin[r].addr, q, removemin[r]) \in Tree
    BY <2>1, <2>2, BalanceIsTree
  <2> QED BY <1>2, <2>3 DEF Joined
<1> QED BY <1>1, <1>2

LEMMA RemoveDef ==
    ASSUME NEW k \in Addresses
    PROVE  /\ remove(k) \in [Full -> Tree]
           /\ \A p \in Full :
                remove(k)[p] =
                    IF p = Null THEN Null
                    ELSE IF k < p.addr THEN balance(p.addr, remove(k)[p.left], p.right)
                    ELSE IF k > p.addr THEN balance(p.addr, p.left, remove(k)[p.right])
                    ELSE Joined(p.left, p.right)
<1> DEFINE s == [p \in Full |-> [x \in Tree |-> [y \in Tree |->
                    IF p = Null THEN Null
                    ELSE IF k < p.addr THEN balance(p.addr, x, p.right)
                    ELSE IF k > p.addr THEN balance(p.addr, p.left, y)
                    ELSE Joined(p.left, p.right)]]]
<1>1. s \in [Full -> [Tree -> [Tree -> Tree]]] /\ Null \in Tree
  <2>1. ASSUME NEW p \in Full, NEW x \in Tree, NEW y \in Tree
        PROVE  (IF p = Null THEN Null
                ELSE IF k < p.addr THEN balance(p.addr, x, p.right)
                ELSE IF k > p.addr THEN balance(p.addr, p.left, y)
                ELSE Joined(p.left, p.right)) \in Tree
    <3>1. CASE p = Null
      BY <3>1, FullIsTree
    <3>2. CASE p # Null
      <4>1. /\ p.addr \in Addresses /\ p.left \in Tree /\ p.right \in Tree
            /\ Joined(p.left, p.right) \in Tree
        BY <3>2, FullFields, FullIsTree, JoinedIsTree
      <4> QED BY <3>2, <4>1, BalanceIsTree
    <3> QED BY <3>1, <3>2
  <2> QED BY <2>1, FullIsTree
<1>2. \A p \in Full, x, y \in Tree : p # Null =>
          s[p][x][y] = IF k < p.addr THEN balance(p.addr, x, p.right)
                       ELSE IF k > p.addr THEN balance(p.addr, p.left, y)
                       ELSE Joined(p.left, p.right)
  BY Zenon
<1> HIDE DEF s
<1>3. PICK f : Recurs(f, Full, Tree, Null, s)
  BY <1>1, FullRecursion
<1>4. ASSUME NEW p \in Full
      PROVE  f[p] = IF p = Null THEN Null
                    ELSE IF k < p.addr THEN balance(p.addr, f[p.left], p.right)
                    ELSE IF k > p.addr THEN balance(p.addr, p.left, f[p.right])
                    ELSE Joined(p.left, p.right)
  <2>1. CASE p = Null
    BY <1>3, <2>1, Zenon DEF Recurs
  <2>2. CASE p # Null
    <3>1. f[p.left] \in Tree /\ f[p.right] \in Tree
      BY <1>3, <2>2, FullFields DEF Recurs
    <3>2. f[p] = s[p][f[p.left]][f[p.right]]
      BY <1>3, <2>2, Zenon DEF Recurs
    <3> QED BY <1>2, <2>2, <3>1, <3>2, Zenon
  <2> QED BY <2>1, <2>2, Zenon
<1> DEFINE Solves(g) ==
              g = [p \in Full |->
                      IF p = Null THEN Null
                      ELSE IF k < p.addr THEN balance(p.addr, g[p.left], p.right)
                      ELSE IF k > p.addr THEN balance(p.addr, p.left, g[p.right])
                      ELSE Joined(p.left, p.right)]
<1>5. Solves(f)
  BY <1>3, <1>4, Zenon DEF Recurs
<1>6. Solves(remove(k))
  <2>1. remove(k) = CHOOSE g : Solves(g)
    BY Zenon DEF remove, Full
  <2> HIDE DEF Solves
  <2> QED BY <1>5, <2>1, Zenon
<1> DEFINE g == remove(k)
<1>7. ASSUME NEW p \in Full
      PROVE  g[p] = IF p = Null THEN Null
                    ELSE IF k < p.addr THEN balance(p.addr, g[p.left], p.right)
                    ELSE IF k > p.addr THEN balance(p.addr, p.left, g[p.right])
                    ELSE Joined(p.left, p.right)
  BY <1>6, Zenon
<1>8. g = [p \in Full |-> g[p]]
  BY <1>6
<1> HIDE DEF Solves, g
<1>9. \A p \in Full : g[p] \in Tree
  <2> DEFINE G == {p \in Full : g[p] \in Tree}
  <2>1. Null \in G
    BY <1>7, FullIsTree
  <2>2. ASSUME NEW p \in Full, p # Null, p.left \in G, p.right \in G PROVE p \in G
    <3>1. /\ g[p.left] \in Tree /\ g[p.right] \in Tree
          /\ p.addr \in Addresses /\ p.left \in Tree /\ p.right \in Tree
          /\ Joined(p.left, p.right) \in Tree
      BY <2>2, FullFields, FullIsTree, JoinedIsTree
    <3>2. g[p] \in Tree
      BY <1>7, <2>2, <3>1, BalanceIsTree
    <3> QED BY <3>2
  <2> HIDE DEF G
  <2>3. Full \subseteq G
    BY <2>1, <2>2, FullInduction
  <2> QED BY <2>3 DEF G
<1>10. g \in [Full -> Tree]
  BY <1>8, <1>9
<1> QED BY <1>7, <1>10, Zenon DEF g

\* The functions that TreeExact and TreeBalanced are stated with.
LEMMA TimesDef ==
    /\ Times \in [Full -> [Addresses -> Nat]]
    /\ \A a \in Addresses : Times[Null][a] = 0
    /\ \A p \in Full, a \in Addresses : p # Null =>
           Times[p][a] = Times[p.left][a] + Times[p.right][a]
                             + (IF a = p.addr THEN 1 ELSE 0)
<1> DEFINE V == [Addresses -> Nat]
           zero == [a \in Addresses |-> 0]
           s == [p \in Full |-> [x \in V |-> [y \in V |->
                    [a \in Addresses |->
                        IF p = Null THEN 0
                        ELSE x[a] + y[a] + (IF a = p.addr THEN 1 ELSE 0)]]]]
<1>1. zero \in V
  OBVIOUS
<1>2. s \in [Full -> [V -> [V -> V]]]
  <2>1. ASSUME NEW p \in Full, NEW x \in V, NEW y \in V
        PROVE  [a \in Addresses |->
                   IF p = Null THEN 0
                   ELSE x[a] + y[a] + (IF a = p.addr THEN 1 ELSE 0)] \in V
    <3>1. ASSUME NEW a \in Addresses PROVE x[a] \in Nat /\ y[a] \in Nat
      OBVIOUS
    <3> QED BY <3>1
  <2> HIDE DEF V
  <2> QED BY <2>1
<1>3. \A p \in Full, x, y \in V : p # Null =>
          s[p][x][y] = [a \in Addresses |-> x[a] + y[a] + (IF a = p.addr THEN 1 ELSE 0)]
  <2> HIDE DEF V
  <2> QED OBVIOUS
<1> HIDE DEF s, V, zero
<1>4. PICK f : Recurs(f, Full, V, zero, s)
  BY <1>1, <1>2, FullRecursion
<1>5. ASSUME NEW p \in Full
      PROVE  f[p] = [a \in Addresses |->
                        IF p = Null THEN 0
                        ELSE f[p.left][a] + f[p.right][a]
                                 + (IF a = p.addr THEN 1 ELSE 0)]
  <2>1. CASE p = Null
    <3>1. f[p] = zero
      BY <1>4, <2>1, Zenon DEF Recurs
    <3> QED BY <2>1, <3>1 DEF zero
  <2>2. CASE p # Null
    <3>1. f[p.left] \in V /\ f[p.right] \in V
      BY <1>4, <2>2, FullFields DEF Recurs
    <3>2. f[p] = s[p][f[p.left]][f[p.right]]
      BY <1>4, <2>2, Zenon DEF Recurs
    <3>3. f[p] = [a \in Addresses |-> f[p.left][a] + f[p.right][a]
                                          + (IF a = p.addr THEN 1 ELSE 0)]
      BY <1>3, <2>2, <3>1, <3>2, Zenon
    <3> QED BY <2>2, <3>3
  <2> QED BY <2>1, <2>2, Zenon
<1> DEFINE Solves(g) ==
              g = [p \in Full |->
                      [a \in Addresses |->
                          IF p = Null THEN 0
                          ELSE g[p.left][a] + g[p.right][a]
                                   + (IF a = p.addr THEN 1 ELSE 0)]]
<1>6. Solves(f)
  BY <1>4, <1>5, Zenon DEF Recurs
<1>7. Solves(Times)
  <2>1. Times = CHOOSE g : Solves(g)
    BY Zenon DEF Times, Full
  <2> HIDE DEF Solves
  <2> QED BY <1>6, <2>1, Zenon
<1> DEFINE g == Times
<1>8. ASSUME NEW p \in Full
      PROVE  g[p] = [a \in Addresses |->
                        IF p = Null THEN 0
                        ELSE g[p.left][a] + g[p.right][a]
                                 + (IF a = p.addr THEN 1 ELSE 0)]
  BY <1>7, Zenon
<1>9. g = [p \in Full |-> g[p]]
  BY <1>7
<1> HIDE DEF Solves, g
<1>10. \A p \in Full : g[p] \in [Addresses -> Nat]
  <2> DEFINE G == {p \in Full : g[p] \in [Addresses -> Nat]}
  <2>1. Null \in G
    <3>1. g[Null] = [a \in Addresses |-> 0]
      BY <1>8, FullIsTree
    <3> QED BY <3>1, FullIsTree
  <2>2. ASSUME NEW p \in Full, p # Null, p.left \in G, p.right \in G PROVE p \in G
    <3>1. PICK x, y : x = g[p.left] /\ y = g[p.right]
      OBVIOUS
    <3>2. x \in [Addresses -> Nat] /\ y \in [Addresses -> Nat]
      BY <2>2, <3>1
    <3>3. g[p] = [a \in Addresses |-> x[a] + y[a] + (IF a = p.addr THEN 1 ELSE 0)]
      BY <1>8, <2>2, <3>1
    <3>4. \A a \in Addresses : x[a] + y[a] + (IF a = p.addr THEN 1 ELSE 0) \in Nat
      BY <3>2
    <3>5. g[p] \in [Addresses -> Nat]
      BY <3>3, <3>4
    <3> QED BY <3>5
  <2> HIDE DEF G
  <2>3. Full \subseteq G
    BY <2>1, <2>2, FullInduction
  <2> QED BY <2>3 DEF G
<1>11. g \in [Full -> [Addresses -> Nat]]
  BY <1>9, <1>10
<1>12. \A a \in Addresses : g[Null][a] = 0
  <2>1. g[Null] = [a \in Addresses |-> 0]
    BY <1>8, FullIsTree
  <2> QED BY <2>1
<1>13. ASSUME NEW p \in Full, NEW a \in Addresses, p # Null
       PROVE  g[p][a] = g[p.left][a] + g[p.right][a] + (IF a = p.addr THEN 1 ELSE 0)
  <2>1. g[p] = [i \in Addresses |->
                   IF p = Null THEN 0
                   ELSE g[p.left][i] + g[p.right][i] + (IF i = p.addr THEN 1 ELSE 0)]
    BY <1>8, <1>13, Zenon
  <2>2. g[p][a] = IF p = Null THEN 0
                  ELSE g[p.left][a] + g[p.right][a] + (IF a = p.addr THEN 1 ELSE 0)
    BY <2>1, Zenon
  <2> QED BY <1>13, <2>2, Zenon
<1> QED BY <1>11, <1>12, <1>13, Zenon DEF g

LEMMA NodesDef ==
    /\ Nodes[Null] = {}
    /\ \A p \in Full : p # Null => Nodes[p] = {p} \cup Nodes[p.left] \cup Nodes[p.right]
<1> DEFINE V == SUBSET Full
           s == [p \in Full |-> [x \in V |-> [y \in V |->
                    IF p = Null THEN {} ELSE {p} \cup x \cup y]]]
<1>1. {} \in V
  OBVIOUS
<1>2. s \in [Full -> [V -> [V -> V]]]
  <2>1. ASSUME NEW p \in Full, NEW x \in V, NEW y \in V
        PROVE  (IF p = Null THEN {} ELSE {p} \cup x \cup y) \in V
    OBVIOUS
  <2> HIDE DEF V
  <2> QED BY <2>1
<1>3. \A p \in Full, x, y \in V : p # Null => s[p][x][y] = {p} \cup x \cup y
  <2> HIDE DEF V
  <2> QED OBVIOUS
<1> HIDE DEF s, V
<1>4. PICK f : Recurs(f, Full, V, {}, s)
  BY <1>1, <1>2, FullRecursion
<1>5. ASSUME NEW p \in Full
      PROVE  f[p] = IF p = Null THEN {} ELSE {p} \cup f[p.left] \cup f[p.right]
  <2>1. CASE p = Null
    BY <1>4, <2>1, Zenon DEF Recurs
  <2>2. CASE p # Null
    <3>1. f[p.left] \in V /\ f[p.right] \in V
      BY <1>4, <2>2, FullFields DEF Recurs
    <3>2. f[p] = s[p][f[p.left]][f[p.right]]
      BY <1>4, <2>2, Zenon DEF Recurs
    <3>3. f[p] = {p} \cup f[p.left] \cup f[p.right]
      BY <1>3, <2>2, <3>1, <3>2
    <3> QED BY <2>2, <3>3
  <2> QED BY <2>1, <2>2, Zenon
<1> DEFINE Solves(g) ==
              g = [p \in Full |-> IF p = Null THEN {} ELSE {p} \cup g[p.left] \cup g[p.right]]
<1>6. Solves(f)
  BY <1>4, <1>5, Zenon DEF Recurs
<1>7. Solves(Nodes)
  <2>1. Nodes = CHOOSE g : Solves(g)
    BY Zenon DEF Nodes, Full
  <2> HIDE DEF Solves
  <2> QED BY <1>6, <2>1, Zenon
<1> QED BY <1>7, FullIsTree
-----------------------------------------------------------------------------
(* A tree is good when every node of it is ordered and balanced.           *)
Good(p) == p \in Full /\ \A q \in Nodes[p] : Even(q) /\ Ordered(q)

LEMMA GoodNull == Good(Null) /\ Height(Null) = 0
BY FullIsTree, NodesDef DEF Good, Height

LEMMA GoodNode ==
    ASSUME NEW p \in Full, p # Null
    PROVE  Good(p) <=> Even(p) /\ Ordered(p) /\ Good(p.left) /\ Good(p.right)
<1>1. Nodes[p] = {p} \cup Nodes[p.left] \cup Nodes[p.right]
  BY NodesDef
<1>2. p.left \in Full /\ p.right \in Full
  BY FullFields
<1> QED BY <1>1, <1>2, Zenon DEF Good

\* The numbers of a good node.
LEMMA GoodHeights ==
    ASSUME NEW p, Good(p), p # Null
    PROVE  /\ Height(p) \in Nat /\ Height(p.left) \in Nat /\ Height(p.right) \in Nat
           /\ Height(p) > 0
           /\ Height(p) = Higher(Height(p.left), Height(p.right)) + 1
           /\ Height(p.right) - Height(p.left) \in -1..1
<1>1. Even(p) /\ p \in Full
  BY GoodNode DEF Good
<1>2. Height(p) \in Nat /\ Height(p.left) \in Nat /\ Height(p.right) \in Nat
  BY <1>1, FullFields, FullIsTree, HeightType
<1>3. Height(p) = Higher(Height(p.left), Height(p.right)) + 1
  BY <1>1 DEF Even, Height
<1>4. Height(p.right) - Height(p.left) \in -1..1
  BY <1>1 DEF Even, bfactor
<1>5. Height(p) > 0
  <2>1. PICK a \in Nat, b \in Nat : a = Height(p.left) /\ b = Height(p.right)
    BY <1>2
  <2>2. Higher(a, b) \in Nat
    BY HigherProperties
  <2> QED BY <1>3, <2>1, <2>2
<1> QED BY <1>2, <1>3, <1>4, <1>5

\* A good tree is as deep as its height says.
LEMMA GoodDepth ==
    ASSUME NEW p, Good(p)
    PROVE  p \in Trees[Height(p)] /\ Height(p) \in Nat
<1> DEFINE G == {t \in Full : Good(t) => t \in Trees[Height(t)]}
<1>1. Null \in G
  BY FullIsTree, GoodNull, TreesValues
<1>2. ASSUME NEW t \in Full, t # Null, t.left \in G, t.right \in G PROVE t \in G
  <2> SUFFICES ASSUME Good(t) PROVE t \in Trees[Height(t)]
    BY <1>2
  <2>1. PICK a \in Nat, b \in Nat : a = Height(t.left) /\ b = Height(t.right)
    BY <1>2, GoodHeights
  <2>2. t.left \in Trees[a] /\ t.right \in Trees[b]
    BY <1>2, <2>1, GoodNode
  <2>0. Higher(a, b) \in Nat /\ a <= Higher(a, b) /\ b <= Higher(a, b)
    BY HigherProperties
  <2>3. PICK n \in Nat : n = Higher(a, b) /\ a <= n /\ b <= n
    BY <2>0
  <2>4. t.left \in Trees[n] /\ t.right \in Trees[n]
    BY <2>2, <2>3, TreesMonotone
  <2>5. PICK m \in Nat : m + 1 = MaxHeight
    <3>1. MaxHeight # 0
      BY <1>2, TreesValues DEF Full
    <3>2. MaxHeight - 1 \in Nat /\ MaxHeight - 1 + 1 = MaxHeight
      BY <3>1, MaxHeightType
    <3> QED BY <3>2
  <2>6. t \in Trees[m + 1]
    BY <2>5 DEF Full
  <2>7. /\ t = [addr |-> t.addr, height |-> t.height, left |-> t.left, right |-> t.right]
        /\ t.addr \in Addresses /\ t.height \in Nat
    BY <1>2, <2>6, TreeParts
  <2>8. t \in NodesOver(Trees[n])
    BY <2>4, <2>7 DEF NodesOver
  <2>9. t \in Trees[n + 1]
    BY <2>8, TreesValues
  <2>10. Height(t) = n + 1
    BY <1>2, <2>1, <2>3, GoodHeights
  <2> QED BY <2>9, <2>10
<1> HIDE DEF G
<1>3. Full \subseteq G
  BY <1>1, <1>2, FullInduction
<1>4. p \in Full
  BY DEF Good
<1>5. Height(p) \in Nat
  BY <1>4, FullIsTree, HeightType
<1> QED BY <1>3, <1>4, <1>5 DEF G

\* And no higher than a tree can be.
LEMMA GoodBound ==
    ASSUME NEW p, Good(p)
    PROVE  Height(p) <= MaxHeight
<1> DEFINE B == {n \in Nat : n <= MaxHeight =>
                                \A t \in Trees[n] : Good(t) => Height(t) <= n}
<1>1. 0 \in B
  BY TreesValues, GoodNull
<1>2. ASSUME NEW n \in Nat, n \in B PROVE n + 1 \in B
  <2> SUFFICES ASSUME n + 1 <= MaxHeight, NEW t \in Trees[n + 1], Good(t)
               PROVE  Height(t) <= n + 1
    OBVIOUS
  <2>0. n <= MaxHeight
    BY MaxHeightType
  <2>1. CASE t = Null
    BY <2>1, GoodNull
  <2>2. CASE t # Null
    <3>1. t.left \in Trees[n] /\ t.right \in Trees[n]
      BY <2>2, TreeParts
    <3>2. Good(t.left) /\ Good(t.right)
      BY <2>2, GoodNode DEF Good
    <3>3. PICK a \in Nat, b \in Nat : a = Height(t.left) /\ b = Height(t.right)
      BY <2>2, GoodHeights
    <3>4. a <= n /\ b <= n
      BY <1>2, <2>0, <3>1, <3>2, <3>3
    <3>5. Higher(a, b) \in Nat /\ Higher(a, b) <= n
      BY <3>4, HigherProperties
    <3>6. Height(t) = Higher(a, b) + 1
      BY <2>2, <3>3, GoodHeights
    <3> QED BY <3>5, <3>6
  <2> QED BY <2>1, <2>2
<1> HIDE DEF B
<1>3. Nat \subseteq B
  BY <1>1, <1>2, Induction
<1>4. p \in Trees[MaxHeight]
  BY DEF Good, Full
<1> QED BY <1>3, <1>4, MaxHeightType DEF B
-----------------------------------------------------------------------------
(* Where the addresses of a tree lie; and what a node made of l, k and r   *)
(* has.                                                                    *)
Below(p, k) == \A a \in Addresses : Times[p][a] > 0 => a <= k
Above(p, k) == \A a \in Addresses : Times[p][a] > 0 => a >= k
Joins(q, l, k, r) ==
    \A a \in Addresses :
        Times[q][a] = Times[l][a] + Times[r][a] + (IF a = k THEN 1 ELSE 0)

LEMMA TimesType == \A p \in Full, a \in Addresses : Times[p][a] \in Nat
BY TimesDef

LEMMA AddressType == \A a \in Addresses : a \in Nat
BY ConstantsAssumption

LEMMA NullBounds == \A k \in Addresses : Below(Null, k) /\ Above(Null, k)
BY TimesDef DEF Below, Above

LEMMA OrderedBounds ==
    ASSUME NEW p, Good(p), p # Null
    PROVE  /\ p.addr \in Addresses
           /\ Good(p.left) /\ Good(p.right)
           /\ Below(p.left, p.addr) /\ Above(p.right, p.addr)
           /\ Joins(p, p.left, p.addr, p.right)
<1>1. p \in Full
  BY DEF Good
<1>2. Ordered(p) /\ Good(p.left) /\ Good(p.right)
  BY <1>1, GoodNode
<1>3. p.addr \in Addresses
  BY <1>1, FullFields
<1>4. Joins(p, p.left, p.addr, p.right)
  BY <1>1, TimesDef DEF Joins
<1> QED BY <1>2, <1>3, <1>4 DEF Ordered, Below, Above

\* The parts of a tree lie where the tree lies, and a tree where its parts do.
LEMMA PartsBounds ==
    ASSUME NEW q \in Full, NEW l \in Full, NEW r \in Full, NEW k \in Addresses,
           Joins(q, l, k, r), NEW m \in Addresses
    PROVE  /\ Below(q, m) <=> Below(l, m) /\ Below(r, m) /\ k <= m
           /\ Above(q, m) <=> Above(l, m) /\ Above(r, m) /\ k >= m
<1>1. ASSUME NEW a \in Addresses
      PROVE  Times[q][a] > 0 <=> Times[l][a] > 0 \/ Times[r][a] > 0 \/ a = k
  <2>1. PICK x \in Nat, y \in Nat, z \in Nat :
            x = Times[q][a] /\ y = Times[l][a] /\ z = Times[r][a]
    BY TimesType
  <2>2. x = y + z + (IF a = k THEN 1 ELSE 0)
    BY <2>1 DEF Joins
  <2> QED BY <2>1, <2>2
<1> QED BY <1>1, Zenon DEF Below, Above

LEMMA BoundsWeaken ==
    ASSUME NEW p, NEW k \in Addresses, NEW m \in Addresses
    PROVE  /\ Below(p, k) /\ k <= m => Below(p, m)
           /\ Above(p, k) /\ k >= m => Above(p, m)
<1>1. k \in Nat /\ m \in Nat /\ \A a \in Addresses : a \in Nat
  BY AddressType
<1> QED BY <1>1 DEF Below, Above

(* A node made of good trees that fit together is good.                    *)
LEMMA NodeGood ==
    ASSUME NEW k \in Addresses, NEW l, NEW r, Good(l), Good(r), Below(l, k), Above(r, k),
           Height(r) - Height(l) \in -1..1, Height(l) < MaxHeight, Height(r) < MaxHeight
    PROVE  /\ Good(Node(k, l, r)) /\ Node(k, l, r) # Null
           /\ Height(Node(k, l, r)) =
                  (IF Height(l) > Height(r) THEN Height(l) ELSE Height(r)) + 1
           /\ Joins(Node(k, l, r), l, k, r)
<1>1. PICK x \in Nat, y \in Nat :
          x = Height(l) /\ y = Height(r) /\ l \in Trees[x] /\ r \in Trees[y]
  BY GoodDepth
<1>2. PICK n \in Nat : n + 1 = MaxHeight /\ x <= n /\ y <= n
  <2>1. MaxHeight - 1 \in Nat /\ MaxHeight - 1 + 1 = MaxHeight
        /\ x <= MaxHeight - 1 /\ y <= MaxHeight - 1
    BY <1>1, MaxHeightType
  <2> QED BY <2>1
<1>3. l \in Trees[n] /\ r \in Trees[n]
  BY <1>1, <1>2, TreesMonotone
<1>4. PICK q : q = Node(k, l, r)
  OBVIOUS
<1>5. q \in Trees[n + 1] /\ q \in NodesOver(Trees[n])
  BY <1>3, <1>4, NodeInTrees
<1>6. q \in Full /\ q # Null
  <2>1. n \in 0..MaxHeight
    BY <1>2, MaxHeightType
  <2>2. Null \notin NodesOver(Trees[n])
    BY <2>1, NullAssumption
  <2> QED BY <1>2, <1>5, <2>2 DEF Full
<1>7. /\ q.addr = k /\ q.left = l /\ q.right = r
      /\ q.height = Higher(Height(l), Height(r)) + 1
  BY <1>4, NodeFields
<1>8. Joins(q, l, k, r)
  BY <1>6, <1>7, TimesDef DEF Joins
<1>9. Good(q)
  <2>1. Even(q)
    BY <1>7 DEF Even, bfactor
  <2>2. Ordered(q)
    BY <1>7 DEF Ordered, Below, Above
  <2> QED BY <1>6, <1>7, <2>1, <2>2, GoodNode
<1>10. Height(q) = (IF Height(l) > Height(r) THEN Height(l) ELSE Height(r)) + 1
  <2>1. Height(q) = q.height
    BY <1>6 DEF Height
  <2>2. Higher(x, y) = IF x > y THEN x ELSE y
    BY HigherProperties
  <2> QED BY <1>1, <1>7, <2>1, <2>2
<1> QED BY <1>4, <1>6, <1>8, <1>9, <1>10

(* One call of balance is enough: it makes a good tree of good trees that  *)
(* differ by two, and no higher than the node would have been.             *)
Balanced(b, l, k, r) ==
    /\ Good(b) /\ Joins(b, l, k, r)
    /\ LET h == IF Height(l) > Height(r) THEN Height(l) ELSE Height(r)
       IN  /\ Height(b) \in {h, h + 1}
           /\ Height(r) - Height(l) \in -1..1 => Height(b) = h + 1

LEMMA BalanceRight ==
    ASSUME NEW k \in Addresses, NEW l, NEW r, Good(l), Good(r), Below(l, k), Above(r, k),
           Height(r) - Height(l) = 2, Height(r) < MaxHeight
    PROVE  Balanced(balance(k, l, r), l, k, r)
<1>1. PICK x \in Nat, y \in Nat, m \in Nat :
          x = Height(l) /\ y = Height(r) /\ m = MaxHeight /\ y = x + 2 /\ y < m
  BY GoodDepth, MaxHeightType
<1>2. r # Null /\ l \in Tree /\ r \in Tree
  <2>1. Height(r) # 0
    BY <1>1
  <2>2. r # Null
    BY <2>1, GoodNull
  <2> QED BY <2>2, FullIsTree DEF Good
<1>3. PICK u, v, d : u = r.left /\ v = r.right /\ d = r.addr
  OBVIOUS
<1>4. /\ d \in Addresses /\ Good(u) /\ Good(v)
      /\ Below(u, d) /\ Above(v, d) /\ Joins(r, u, d, v)
  BY <1>2, <1>3, OrderedBounds
<1>5. l \in Full /\ r \in Full /\ u \in Full /\ v \in Full
  BY <1>4 DEF Good
<1>6. Above(u, k) /\ Above(v, k) /\ d >= k
  BY <1>4, <1>5, PartsBounds
<1>7. d \in Nat /\ k \in Nat
  BY <1>4, AddressType
<1>8. Below(l, d)
  BY <1>4, <1>6, <1>7, BoundsWeaken
<1>9. PICK a \in Nat, b \in Nat : a = Height(u) /\ b = Height(v)
  BY <1>2, <1>3, GoodHeights
<1>10. y = (IF a > b THEN a ELSE b) + 1 /\ b - a \in -1..1
  <2>1. Height(r) = Higher(a, b) + 1 /\ b - a \in -1..1
    BY <1>2, <1>3, <1>9, GoodHeights
  <2> QED BY <1>1, <2>1, HigherProperties
<1>11. CASE ~(bfactor(r) < 0)
  <2>1. a <= b
    BY <1>3, <1>9, <1>11 DEF bfactor
  <2>2. PICK p : p = Node(k, l, u)
    OBVIOUS
  <2>3. Height(u) - Height(l) \in -1..1 /\ Height(l) < MaxHeight /\ Height(u) < MaxHeight
    BY <1>1, <1>9, <1>10, <2>1
  <2>4. /\ Good(p) /\ Joins(p, l, k, u)
        /\ Height(p) = (IF Height(l) > Height(u) THEN Height(l) ELSE Height(u)) + 1
    BY <1>4, <1>6, <2>2, <2>3, NodeGood
  <2>5. PICK c \in Nat : c = Height(p)
    BY <2>4, GoodDepth
  <2>6. c = (IF x > a THEN x ELSE a) + 1
    BY <1>1, <1>9, <2>4, <2>5
  <2>7. p \in Full
    BY <2>4 DEF Good
  <2>8. Below(p, d)
    BY <1>4, <1>5, <1>6, <1>7, <1>8, <2>4, <2>7, PartsBounds
  <2>9. PICK q : q = Node(d, p, v)
    OBVIOUS
  <2>10. Height(v) - Height(p) \in -1..1 /\ Height(p) < MaxHeight /\ Height(v) < MaxHeight
    BY <1>1, <1>9, <1>10, <2>1, <2>5, <2>6
  <2>11. /\ Good(q) /\ Joins(q, p, d, v)
         /\ Height(q) = (IF Height(p) > Height(v) THEN Height(p) ELSE Height(v)) + 1
    BY <1>4, <2>4, <2>8, <2>9, <2>10, NodeGood
  <2>12. Height(q) \in {y, y + 1}
    <3>1. b = x + 1 /\ c \in {x + 1, x + 2}
      BY <1>1, <1>10, <2>1, <2>6
    <3>2. Height(q) = c + 1
      BY <1>9, <2>5, <2>11, <3>1
    <3> QED BY <1>1, <3>1, <3>2
  <2>13. q \in Full
    BY <2>11 DEF Good
  <2>14. Joins(q, l, k, r)
    <3> SUFFICES ASSUME NEW i \in Addresses
                 PROVE  Times[q][i] = Times[l][i] + Times[r][i] + (IF i = k THEN 1 ELSE 0)
      BY DEF Joins
    <3>1. /\ Times[q][i] = Times[p][i] + Times[v][i] + (IF i = d THEN 1 ELSE 0)
          /\ Times[p][i] = Times[l][i] + Times[u][i] + (IF i = k THEN 1 ELSE 0)
          /\ Times[r][i] = Times[u][i] + Times[v][i] + (IF i = d THEN 1 ELSE 0)
      BY <1>4, <2>4, <2>11 DEF Joins
    <3>2. /\ Times[l][i] \in Nat /\ Times[u][i] \in Nat /\ Times[v][i] \in Nat
          /\ Times[p][i] \in Nat /\ Times[q][i] \in Nat /\ Times[r][i] \in Nat
      BY <1>5, <2>7, <2>13, TimesType
    <3> QED BY <3>1, <3>2
  <2>15. balance(k, l, r) = q
    BY <1>2, <1>3, <1>11, <2>2, <2>9, BalanceCases
  <2>16. Balanced(q, l, k, r)
    BY <1>1, <2>11, <2>12, <2>14 DEF Balanced
  <2> QED BY <2>15, <2>16
<1>12. CASE bfactor(r) < 0
  <2>1. a > b
    BY <1>3, <1>9, <1>12 DEF bfactor
  <2>2. u # Null
    BY <1>9, <2>1, GoodNull
  <2>3. PICK s, t, e : s = u.left /\ t = u.right /\ e = u.addr
    OBVIOUS
  <2>4. /\ e \in Addresses /\ Good(s) /\ Good(t)
        /\ Below(s, e) /\ Above(t, e) /\ Joins(u, s, e, t)
    BY <1>4, <2>2, <2>3, OrderedBounds
  <2>5. s \in Full /\ t \in Full
    BY <2>4 DEF Good
  <2>6. Above(s, k) /\ e >= k /\ Below(t, d) /\ e <= d
    BY <1>4, <1>5, <1>6, <2>4, <2>5, PartsBounds
  <2>7. Below(l, e) /\ Above(v, e)
    <3>1. e \in Nat
      BY <2>4, AddressType
    <3> QED BY <1>4, <1>7, <2>4, <2>6, <3>1, BoundsWeaken
  <2>8. PICK f \in Nat, g \in Nat : f = Height(s) /\ g = Height(t)
    BY <1>4, <2>2, <2>3, GoodHeights
  <2>9. a = (IF f > g THEN f ELSE g) + 1 /\ g - f \in -1..1
    <3>1. Height(u) = Higher(f, g) + 1 /\ g - f \in -1..1
      BY <1>4, <2>2, <2>3, <2>8, GoodHeights
    <3> QED BY <1>9, <3>1, HigherProperties
  <2>10. PICK p, q : p = Node(k, l, s) /\ q = Node(d, t, v)
    OBVIOUS
  <2>11. /\ Height(s) - Height(l) \in -1..1 /\ Height(v) - Height(t) \in -1..1
         /\ Height(l) < MaxHeight /\ Height(s) < MaxHeight
         /\ Height(v) < MaxHeight /\ Height(t) < MaxHeight
    BY <1>1, <1>9, <1>10, <2>1, <2>8, <2>9
  <2>12. /\ Good(p) /\ Joins(p, l, k, s)
         /\ Height(p) = (IF Height(l) > Height(s) THEN Height(l) ELSE Height(s)) + 1
    BY <2>4, <2>6, <2>10, <2>11, NodeGood
  <2>13. /\ Good(q) /\ Joins(q, t, d, v)
         /\ Height(q) = (IF Height(t) > Height(v) THEN Height(t) ELSE Height(v)) + 1
    BY <1>4, <2>4, <2>6, <2>10, <2>11, NodeGood
  <2>14. Height(p) = x + 1 /\ Height(q) = x + 1
    BY <1>1, <1>9, <1>10, <2>1, <2>8, <2>9, <2>12, <2>13
  <2>15. p \in Full /\ q \in Full
    BY <2>12, <2>13 DEF Good
  <2>16. Below(p, e) /\ Above(q, e)
    BY <1>4, <1>5, <2>4, <2>5, <2>6, <2>7, <2>12, <2>13, <2>15, PartsBounds
  <2>17. PICK z : z = Node(e, p, q)
    OBVIOUS
  <2>18. Height(q) - Height(p) \in -1..1 /\ Height(p) < MaxHeight /\ Height(q) < MaxHeight
    BY <1>1, <2>14
  <2>19. /\ Good(z) /\ Joins(z, p, e, q)
         /\ Height(z) = (IF Height(p) > Height(q) THEN Height(p) ELSE Height(q)) + 1
    BY <2>4, <2>12, <2>13, <2>16, <2>17, <2>18, NodeGood
  <2>20. Height(z) = y
    BY <1>1, <2>14, <2>19
  <2>21. z \in Full
    BY <2>19 DEF Good
  <2>22. Joins(z, l, k, r)
    <3> SUFFICES ASSUME NEW i \in Addresses
                 PROVE  Times[z][i] = Times[l][i] + Times[r][i] + (IF i = k THEN 1 ELSE 0)
      BY DEF Joins
    <3>1. /\ Times[z][i] = Times[p][i] + Times[q][i] + (IF i = e THEN 1 ELSE 0)
          /\ Times[p][i] = Times[l][i] + Times[s][i] + (IF i = k THEN 1 ELSE 0)
          /\ Times[q][i] = Times[t][i] + Times[v][i] + (IF i = d THEN 1 ELSE 0)
      BY <2>12, <2>13, <2>19 DEF Joins
    <3>2. /\ Times[u][i] = Times[s][i] + Times[t][i] + (IF i = e THEN 1 ELSE 0)
          /\ Times[r][i] = Times[u][i] + Times[v][i] + (IF i = d THEN 1 ELSE 0)
      BY <1>4, <2>4 DEF Joins
    <3>3. /\ Times[l][i] \in Nat /\ Times[u][i] \in Nat /\ Times[v][i] \in Nat
          /\ Times[p][i] \in Nat /\ Times[q][i] \in Nat /\ Times[r][i] \in Nat
          /\ Times[s][i] \in Nat /\ Times[t][i] \in Nat /\ Times[z][i] \in Nat
      BY <1>5, <2>5, <2>15, <2>21, TimesType
    <3> QED BY <3>1, <3>2, <3>3
  <2>23. balance(k, l, r) = z
    BY <1>2, <1>3, <1>12, <2>3, <2>10, <2>17, BalanceCases
  <2>24. Balanced(z, l, k, r)
    BY <1>1, <2>19, <2>20, <2>22 DEF Balanced
  <2> QED BY <2>23, <2>24
<1> QED BY <1>11, <1>12

LEMMA BalanceLeft ==
    ASSUME NEW k \in Addresses, NEW l, NEW r, Good(l), Good(r), Below(l, k), Above(r, k),
           Height(r) - Height(l) = -2, Height(l) < MaxHeight
    PROVE  Balanced(balance(k, l, r), l, k, r)
<1>1. PICK x \in Nat, y \in Nat, m \in Nat :
          x = Height(r) /\ y = Height(l) /\ m = MaxHeight /\ y = x + 2 /\ y < m
  BY GoodDepth, MaxHeightType
<1>2. l # Null /\ l \in Tree /\ r \in Tree
  <2>1. Height(l) # 0
    BY <1>1
  <2>2. l # Null
    BY <2>1, GoodNull
  <2> QED BY <2>2, FullIsTree DEF Good
<1>3. PICK u, v, d : u = l.right /\ v = l.left /\ d = l.addr
  OBVIOUS
<1>4. /\ d \in Addresses /\ Good(u) /\ Good(v)
      /\ Above(u, d) /\ Below(v, d) /\ Joins(l, v, d, u)
  BY <1>2, <1>3, OrderedBounds
<1>5. l \in Full /\ r \in Full /\ u \in Full /\ v \in Full
  BY <1>4 DEF Good
<1>6. Below(u, k) /\ Below(v, k) /\ d <= k
  BY <1>4, <1>5, PartsBounds
<1>7. d \in Nat /\ k \in Nat
  BY <1>4, AddressType
<1>8. Above(r, d)
  BY <1>4, <1>6, <1>7, BoundsWeaken
<1>9. PICK a \in Nat, b \in Nat : a = Height(u) /\ b = Height(v)
  BY <1>2, <1>3, GoodHeights
<1>10. y = (IF b > a THEN b ELSE a) + 1 /\ b - a \in -1..1
  <2>1. Height(l) = Higher(b, a) + 1 /\ b - a \in -1..1
    BY <1>2, <1>3, <1>9, GoodHeights
  <2> QED BY <1>1, <2>1, HigherProperties
<1>11. CASE ~(bfactor(l) > 0)
  <2>1. a <= b
    BY <1>3, <1>9, <1>11 DEF bfactor
  <2>2. PICK p : p = Node(k, u, r)
    OBVIOUS
  <2>3. Height(r) - Height(u) \in -1..1 /\ Height(r) < MaxHeight /\ Height(u) < MaxHeight
    BY <1>1, <1>9, <1>10, <2>1
  <2>4. /\ Good(p) /\ Joins(p, u, k, r)
        /\ Height(p) = (IF Height(u) > Height(r) THEN Height(u) ELSE Height(r)) + 1
    BY <1>4, <1>6, <2>2, <2>3, NodeGood
  <2>5. PICK c \in Nat : c = Height(p)
    BY <2>4, GoodDepth
  <2>6. c = (IF x > a THEN x ELSE a) + 1
    BY <1>1, <1>9, <2>4, <2>5
  <2>7. p \in Full
    BY <2>4 DEF Good
  <2>8. Above(p, d)
    BY <1>4, <1>5, <1>6, <1>7, <1>8, <2>4, <2>7, PartsBounds
  <2>9. PICK q : q = Node(d, v, p)
    OBVIOUS
  <2>10. Height(p) - Height(v) \in -1..1 /\ Height(p) < MaxHeight /\ Height(v) < MaxHeight
    BY <1>1, <1>9, <1>10, <2>1, <2>5, <2>6
  <2>11. /\ Good(q) /\ Joins(q, v, d, p)
         /\ Height(q) = (IF Height(v) > Height(p) THEN Height(v) ELSE Height(p)) + 1
    BY <1>4, <2>4, <2>8, <2>9, <2>10, NodeGood
  <2>12. Height(q) \in {y, y + 1}
    <3>1. b = x + 1 /\ c \in {x + 1, x + 2}
      BY <1>1, <1>10, <2>1, <2>6
    <3>2. Height(q) = c + 1
      BY <1>9, <2>5, <2>11, <3>1
    <3> QED BY <1>1, <3>1, <3>2
  <2>13. q \in Full
    BY <2>11 DEF Good
  <2>14. Joins(q, l, k, r)
    <3> SUFFICES ASSUME NEW i \in Addresses
                 PROVE  Times[q][i] = Times[l][i] + Times[r][i] + (IF i = k THEN 1 ELSE 0)
      BY DEF Joins
    <3>1. /\ Times[q][i] = Times[v][i] + Times[p][i] + (IF i = d THEN 1 ELSE 0)
          /\ Times[p][i] = Times[u][i] + Times[r][i] + (IF i = k THEN 1 ELSE 0)
          /\ Times[l][i] = Times[v][i] + Times[u][i] + (IF i = d THEN 1 ELSE 0)
      BY <1>4, <2>4, <2>11 DEF Joins
    <3>2. /\ Times[l][i] \in Nat /\ Times[u][i] \in Nat /\ Times[v][i] \in Nat
          /\ Times[p][i] \in Nat /\ Times[q][i] \in Nat /\ Times[r][i] \in Nat
      BY <1>5, <2>7, <2>13, TimesType
    <3> QED BY <3>1, <3>2
  <2>15. balance(k, l, r) = q
    BY <1>2, <1>3, <1>11, <2>2, <2>9, BalanceCases
  <2>16. Balanced(q, l, k, r)
    BY <1>1, <2>11, <2>12, <2>14 DEF Balanced
  <2> QED BY <2>15, <2>16
<1>12. CASE bfactor(l) > 0
  <2>1. a > b
    BY <1>3, <1>9, <1>12 DEF bfactor
  <2>2. u # Null
    BY <1>9, <2>1, GoodNull
  <2>3. PICK s, t, e : s = u.right /\ t = u.left /\ e = u.addr
    OBVIOUS
  <2>4. /\ e \in Addresses /\ Good(s) /\ Good(t)
        /\ Above(s, e) /\ Below(t, e) /\ Joins(u, t, e, s)
    BY <1>4, <2>2, <2>3, OrderedBounds
  <2>5. s \in Full /\ t \in Full
    BY <2>4 DEF Good
  <2>6. Below(s, k) /\ e <= k /\ Above(t, d) /\ e >= d
    BY <1>4, <1>5, <1>6, <2>4, <2>5, PartsBounds
  <2>7. Above(r, e) /\ Below(v, e)
    <3>1. e \in Nat
      BY <2>4, AddressType
    <3> QED BY <1>4, <1>7, <2>4, <2>6, <3>1, BoundsWeaken
  <2>8. PICK f \in Nat, g \in Nat : f = Height(s) /\ g = Height(t)
    BY <1>4, <2>2, <2>3, GoodHeights
  <2>9. a = (IF g > f THEN g ELSE f) + 1 /\ g - f \in -1..1
    <3>1. Height(u) = Higher(g, f) + 1 /\ g - f \in -1..1
      BY <1>4, <2>2, <2>3, <2>8, GoodHeights
    <3> QED BY <1>9, <3>1, HigherProperties
  <2>10. PICK p, q : p = Node(k, s, r) /\ q = Node(d, v, t)
    OBVIOUS
  <2>11. /\ Height(r) - Height(s) \in -1..1 /\ Height(t) - Height(v) \in -1..1
         /\ Height(r) < MaxHeight /\ Height(s) < MaxHeight
         /\ Height(v) < MaxHeight /\ Height(t) < MaxHeight
    BY <1>1, <1>9, <1>10, <2>1, <2>8, <2>9
  <2>12. /\ Good(p) /\ Joins(p, s, k, r)
         /\ Height(p) = (IF Height(s) > Height(r) THEN Height(s) ELSE Height(r)) + 1
    BY <2>4, <2>6, <2>10, <2>11, NodeGood
  <2>13. /\ Good(q) /\ Joins(q, v, d, t)
         /\ Height(q) = (IF Height(v) > Height(t) THEN Height(v) ELSE Height(t)) + 1
    BY <1>4, <2>4, <2>6, <2>10, <2>11, NodeGood
  <2>14. Height(p) = x + 1 /\ Height(q) = x + 1
    BY <1>1, <1>9, <1>10, <2>1, <2>8, <2>9, <2>12, <2>13
  <2>15. p \in Full /\ q \in Full
    BY <2>12, <2>13 DEF Good
  <2>16. Above(p, e) /\ Below(q, e)
    BY <1>4, <1>5, <2>4, <2>5, <2>6, <2>7, <2>12, <2>13, <2>15, PartsBounds
  <2>17. PICK z : z = Node(e, q, p)
    OBVIOUS
  <2>18. Height(p) - Height(q) \in -1..1 /\ Height(p) < MaxHeight /\ Height(q) < MaxHeight
    BY <1>1, <2>14
  <2>19. /\ Good(z) /\ Joins(z, q, e, p)
         /\ Height(z) = (IF Height(q) > Height(p) THEN Height(q) ELSE Height(p)) + 1
    BY <2>4, <2>12, <2>13, <2>16, <2>17, <2>18, NodeGood
  <2>20. Height(z) = y
    BY <1>1, <2>14, <2>19
  <2>21. z \in Full
    BY <2>19 DEF Good
  <2>22. Joins(z, l, k, r)
    <3> SUFFICES ASSUME NEW i \in Addresses
                 PROVE  Times[z][i] = Times[l][i] + Times[r][i] + (IF i = k THEN 1 ELSE 0)
      BY DEF Joins
    <3>1. /\ Times[z][i] = Times[q][i] + Times[p][i] + (IF i = e THEN 1 ELSE 0)
          /\ Times[p][i] = Times[s][i] + Times[r][i] + (IF i = k THEN 1 ELSE 0)
          /\ Times[q][i] = Times[v][i] + Times[t][i] + (IF i = d THEN 1 ELSE 0)
      BY <2>12, <2>13, <2>19 DEF Joins
    <3>2. /\ Times[u][i] = Times[t][i] + Times[s][i] + (IF i = e THEN 1 ELSE 0)
          /\ Times[l][i] = Times[v][i] + Times[u][i] + (IF i = d THEN 1 ELSE 0)
      BY <1>4, <2>4 DEF Joins
    <3>3. /\ Times[l][i] \in Nat /\ Times[u][i] \in Nat /\ Times[v][i] \in Nat
          /\ Times[p][i] \in Nat /\ Times[q][i] \in Nat /\ Times[r][i] \in Nat
          /\ Times[s][i] \in Nat /\ Times[t][i] \in Nat /\ Times[z][i] \in Nat
      BY <1>5, <2>5, <2>15, <2>21, TimesType
    <3> QED BY <3>1, <3>2, <3>3
  <2>23. balance(k, l, r) = z
    BY <1>2, <1>3, <1>12, <2>3, <2>10, <2>17, BalanceCases
  <2>24. Balanced(z, l, k, r)
    BY <1>1, <2>19, <2>20, <2>22 DEF Balanced
  <2> QED BY <2>23, <2>24
<1> QED BY <1>11, <1>12

LEMMA BalanceGood ==
    ASSUME NEW k \in Addresses, NEW l, NEW r, Good(l), Good(r), Below(l, k), Above(r, k),
           Height(r) - Height(l) \in -2..2, Height(l) < MaxHeight, Height(r) < MaxHeight
    PROVE  Balanced(balance(k, l, r), l, k, r)
<1>1. PICK x \in Nat, y \in Nat : x = Height(l) /\ y = Height(r)
  BY GoodDepth
<1>2. CASE y - x \in -1..1
  <2>1. l \in Tree /\ r \in Tree
    BY FullIsTree DEF Good
  <2>2. Height(r) - Height(l) \notin {2, -2} /\ Height(r) - Height(l) \in -1..1
    BY <1>1, <1>2
  <2>3. balance(k, l, r) = Node(k, l, r)
    BY <2>1, <2>2, BalanceCases
  <2>4. Balanced(Node(k, l, r), l, k, r)
    BY <2>2, NodeGood DEF Balanced
  <2> QED BY <2>3, <2>4
<1>3. CASE y - x = 2
  BY <1>1, <1>3, BalanceRight
<1>4. CASE y - x = -2
  BY <1>1, <1>4, BalanceLeft
<1> QED BY <1>1, <1>2, <1>3, <1>4
-----------------------------------------------------------------------------
(* insert gives a good tree that has k once more and is at most one higher. *)
Inserted(q, p, k) ==
    /\ Good(q)
    /\ Height(q) \in {Height(p), Height(p) + 1}
    /\ \A a \in Addresses : Times[q][a] = Times[p][a] + (IF a = k THEN 1 ELSE 0)

LEMMA InsertedBounds ==
    ASSUME NEW k \in Addresses, NEW p \in Full, NEW q \in Full, NEW d \in Addresses,
           Inserted(q, p, k)
    PROVE  /\ Below(p, d) /\ k <= d => Below(q, d)
           /\ Above(p, d) /\ k >= d => Above(q, d)
<1>1. ASSUME NEW a \in Addresses PROVE Times[q][a] > 0 => Times[p][a] > 0 \/ a = k
  <2>1. Times[q][a] = Times[p][a] + (IF a = k THEN 1 ELSE 0)
    BY DEF Inserted
  <2> QED BY <2>1, TimesType
<1> QED BY <1>1, Zenon DEF Below, Above

LEMMA InsertGood ==
    ASSUME NEW k \in Addresses, NEW t, Good(t), Height(t) < MaxHeight
    PROVE  Inserted(insert(k)[t], t, k)
<1> DEFINE G == {p \in Full : Good(p) /\ Height(p) < MaxHeight
                                  => Inserted(insert(k)[p], p, k)}
<1>1. Null \in G
  <2> SUFFICES ASSUME Height(Null) < MaxHeight PROVE Inserted(insert(k)[Null], Null, k)
    BY FullIsTree
  <2>1. insert(k)[Null] = Node(k, Null, Null)
    BY InsertDef, FullIsTree
  <2>2. PICK q : q = Node(k, Null, Null)
    OBVIOUS
  <2>3. /\ Good(q) /\ Joins(q, Null, k, Null)
        /\ Height(q) = (IF Height(Null) > Height(Null) THEN Height(Null) ELSE Height(Null)) + 1
    <3>1. Height(Null) - Height(Null) \in -1..1
      BY GoodNull
    <3>2. Below(Null, k) /\ Above(Null, k)
      BY NullBounds
    <3> QED BY <2>2, <3>1, <3>2, GoodNull, NodeGood
  <2>4. Height(q) = Height(Null) + 1
    BY <2>3, GoodNull
  <2>5. ASSUME NEW a \in Addresses
        PROVE  Times[q][a] = Times[Null][a] + (IF a = k THEN 1 ELSE 0)
    <3>1. Times[q][a] = Times[Null][a] + Times[Null][a] + (IF a = k THEN 1 ELSE 0)
      BY <2>3 DEF Joins
    <3>2. Times[Null][a] = 0
      BY TimesDef
    <3> QED BY <3>1, <3>2
  <2>6. Inserted(q, Null, k)
    BY <2>3, <2>4, <2>5 DEF Inserted
  <2> QED BY <2>1, <2>2, <2>6
<1>2. ASSUME NEW p \in Full, p # Null, p.left \in G, p.right \in G PROVE p \in G
  <2> SUFFICES ASSUME Good(p), Height(p) < MaxHeight
               PROVE  Inserted(insert(k)[p], p, k)
    BY <1>2
  <2>1. PICK l, r, d : l = p.left /\ r = p.right /\ d = p.addr
    OBVIOUS
  <2>2. /\ d \in Addresses /\ Good(l) /\ Good(r)
        /\ Below(l, d) /\ Above(r, d) /\ Joins(p, l, d, r)
    BY <1>2, <2>1, OrderedBounds
  <2>3. PICK x \in Nat, y \in Nat, h \in Nat, m \in Nat :
            x = Height(l) /\ y = Height(r) /\ h = Height(p) /\ m = MaxHeight
    BY <1>2, <2>1, GoodHeights, MaxHeightType
  <2>4. h = (IF x > y THEN x ELSE y) + 1 /\ y - x \in -1..1 /\ h < m
    <3>1. Height(p) = Higher(x, y) + 1 /\ y - x \in -1..1
      BY <1>2, <2>1, <2>3, GoodHeights
    <3> QED BY <2>3, <3>1, HigherProperties
  <2>5. Inserted(insert(k)[l], l, k) /\ Inserted(insert(k)[r], r, k)
    BY <1>2, <2>1, <2>2, <2>3, <2>4
  <2>6. l \in Full /\ r \in Full
    BY <2>2 DEF Good
  <2>7. d \in Nat /\ k \in Nat
    BY <2>2, AddressType
  <2>8. CASE k < d
    <3>1. PICK q, b : q = insert(k)[l] /\ b = balance(d, insert(k)[l], r)
      OBVIOUS
    <3>2. insert(k)[p] = b
      BY <1>2, <2>1, <2>8, <3>1, InsertDef
    <3>3. Inserted(q, l, k) /\ Good(q) /\ q \in Full
      BY <2>5, <3>1 DEF Inserted, Good
    <3>4. PICK c \in Nat : c = Height(q)
      BY <3>3, GoodDepth
    <3>5. c \in {x, x + 1}
      BY <2>3, <3>3, <3>4 DEF Inserted
    <3>6. Below(q, d)
      BY <2>2, <2>6, <2>7, <2>8, <3>3, InsertedBounds
    <3>7. Balanced(b, q, d, r)
      <4>1. Height(r) - Height(q) \in -2..2 /\ Height(q) < MaxHeight /\ Height(r) < MaxHeight
        BY <2>3, <2>4, <3>4, <3>5
      <4> QED BY <2>2, <3>1, <3>3, <3>6, <4>1, BalanceGood
    <3>8. Height(b) \in {h, h + 1}
      <4>1. PICK e \in Nat : e = Height(b)
        BY <3>7, GoodDepth DEF Balanced
      <4>2. LET g == IF c > y THEN c ELSE y
            IN  e \in {g, g + 1} /\ (y - c \in -1..1 => e = g + 1)
        BY <2>3, <3>4, <3>7, <4>1 DEF Balanced
      <4>3. e \in {h, h + 1}
        BY <2>4, <3>5, <4>2
      <4> QED BY <4>1, <4>3
    <3>9. ASSUME NEW a \in Addresses
          PROVE  Times[b][a] = Times[p][a] + (IF a = k THEN 1 ELSE 0)
      <4>1. Times[b][a] = Times[q][a] + Times[r][a] + (IF a = d THEN 1 ELSE 0)
        BY <3>7 DEF Balanced, Joins
      <4>2. Times[p][a] = Times[l][a] + Times[r][a] + (IF a = d THEN 1 ELSE 0)
        BY <2>2 DEF Joins
      <4>3. Times[q][a] = Times[l][a] + (IF a = k THEN 1 ELSE 0)
        BY <3>3 DEF Inserted
      <4>4. Times[l][a] \in Nat /\ Times[r][a] \in Nat
        BY <2>6, TimesType
      <4> QED BY <4>1, <4>2, <4>3, <4>4
    <3>10. Inserted(b, p, k)
      BY <2>3, <3>7, <3>8, <3>9 DEF Inserted, Balanced
    <3> QED BY <3>2, <3>10
  <2>9. CASE ~(k < d)
    <3>1. PICK q, b : q = insert(k)[r] /\ b = balance(d, l, insert(k)[r])
      OBVIOUS
    <3>2. insert(k)[p] = b
      BY <1>2, <2>1, <2>9, <3>1, InsertDef
    <3>3. Inserted(q, r, k) /\ Good(q) /\ q \in Full
      BY <2>5, <3>1 DEF Inserted, Good
    <3>4. PICK c \in Nat : c = Height(q)
      BY <3>3, GoodDepth
    <3>5. c \in {y, y + 1}
      BY <2>3, <3>3, <3>4 DEF Inserted
    <3>6. Above(q, d)
      BY <2>2, <2>6, <2>7, <2>9, <3>3, InsertedBounds
    <3>7. Balanced(b, l, d, q)
      <4>1. Height(q) - Height(l) \in -2..2 /\ Height(q) < MaxHeight /\ Height(l) < MaxHeight
        BY <2>3, <2>4, <3>4, <3>5
      <4> QED BY <2>2, <3>1, <3>3, <3>6, <4>1, BalanceGood
    <3>8. Height(b) \in {h, h + 1}
      <4>1. PICK e \in Nat : e = Height(b)
        BY <3>7, GoodDepth DEF Balanced
      <4>2. LET g == IF x > c THEN x ELSE c
            IN  e \in {g, g + 1} /\ (c - x \in -1..1 => e = g + 1)
        BY <2>3, <3>4, <3>7, <4>1 DEF Balanced
      <4>3. e \in {h, h + 1}
        BY <2>4, <3>5, <4>2
      <4> QED BY <4>1, <4>3
    <3>9. ASSUME NEW a \in Addresses
          PROVE  Times[b][a] = Times[p][a] + (IF a = k THEN 1 ELSE 0)
      <4>1. Times[b][a] = Times[l][a] + Times[q][a] + (IF a = d THEN 1 ELSE 0)
        BY <3>7 DEF Balanced, Joins
      <4>2. Times[p][a] = Times[l][a] + Times[r][a] + (IF a = d THEN 1 ELSE 0)
        BY <2>2 DEF Joins
      <4>3. Times[q][a] = Times[r][a] + (IF a = k THEN 1 ELSE 0)
        BY <3>3 DEF Inserted
      <4>4. Times[l][a] \in Nat /\ Times[r][a] \in Nat
        BY <2>6, TimesType
      <4> QED BY <4>1, <4>2, <4>3, <4>4
    <3>10. Inserted(b, p, k)
      BY <2>3, <3>7, <3>8, <3>9 DEF Inserted, Balanced
    <3> QED BY <3>2, <3>10
  <2> QED BY <2>8, <2>9
<1> HIDE DEF G
<1>3. Full \subseteq G
  BY <1>1, <1>2, FullInduction
<1>4. t \in Full
  BY DEF Good
<1> QED BY <1>3, <1>4 DEF G
-----------------------------------------------------------------------------
(* removemin takes the minimum, once.                                      *)
MinTaken(q, m, p) ==
    /\ Good(q) /\ m \in Addresses
    /\ Height(q) \in {Height(p) - 1, Height(p)}
    /\ \A a \in Addresses : Times[p][a] = Times[q][a] + (IF a = m THEN 1 ELSE 0)
    /\ Above(p, m)

\* A part of a tree lies where the tree does.
LEMMA FewerBounds ==
    ASSUME NEW q \in Full, NEW p \in Full, NEW d \in Addresses,
           \A a \in Addresses : Times[q][a] > 0 => Times[p][a] > 0
    PROVE  (Below(p, d) => Below(q, d)) /\ (Above(p, d) => Above(q, d))
BY DEF Below, Above

LEMMA MinTakenFewer ==
    ASSUME NEW q \in Full, NEW p \in Full, NEW m, MinTaken(q, m, p)
    PROVE  /\ Times[p][m] > 0
           /\ \A a \in Addresses : Times[q][a] > 0 => Times[p][a] > 0
<1>1. ASSUME NEW a \in Addresses
      PROVE  (Times[q][a] > 0 \/ a = m) => Times[p][a] > 0
  <2>1. Times[p][a] = Times[q][a] + (IF a = m THEN 1 ELSE 0)
    BY DEF MinTaken
  <2>2. Times[q][a] \in Nat
    BY TimesType
  <2> QED BY <2>1, <2>2
<1>2. m \in Addresses
  BY DEF MinTaken
<1> QED BY <1>1, <1>2

LEMMA RemoveminGood ==
    ASSUME NEW t, Good(t), t # Null
    PROVE  MinTaken(removemin[t], findmin[t].addr, t)
<1> DEFINE G == {p \in Full : Good(p) /\ p # Null
                                  => MinTaken(removemin[p], findmin[p].addr, p)}
<1>1. Null \in G
  BY FullIsTree
<1>2. ASSUME NEW p \in Full, p # Null, p.left \in G, p.right \in G PROVE p \in G
  <2> SUFFICES ASSUME Good(p) PROVE MinTaken(removemin[p], findmin[p].addr, p)
    BY <1>2
  <2>1. PICK l, r, d : l = p.left /\ r = p.right /\ d = p.addr
    OBVIOUS
  <2>2. /\ d \in Addresses /\ Good(l) /\ Good(r)
        /\ Below(l, d) /\ Above(r, d) /\ Joins(p, l, d, r)
    BY <1>2, <2>1, OrderedBounds
  <2>3. PICK x \in Nat, y \in Nat, h \in Nat, m \in Nat :
            x = Height(l) /\ y = Height(r) /\ h = Height(p) /\ m = MaxHeight
    BY <1>2, <2>1, GoodHeights, MaxHeightType
  <2>4. h = (IF x > y THEN x ELSE y) + 1 /\ y - x \in -1..1 /\ h <= m
    <3>1. Height(p) = Higher(x, y) + 1 /\ y - x \in -1..1 /\ Height(p) <= MaxHeight
      BY <1>2, <2>1, <2>3, GoodHeights, GoodBound
    <3> QED BY <2>3, <3>1, HigherProperties
  <2>5. l \in Full /\ r \in Full
    BY <2>2 DEF Good
  <2>6. d \in Nat
    BY <2>2, AddressType
  <2>7. CASE l = Null
    <3>1. findmin[p] = p /\ removemin[p] = r
      BY <1>2, <2>1, <2>7, FindminDef, RemoveminDef
    <3>2. Height(r) \in {Height(p) - 1, Height(p)}
      <4>1. x = 0
        BY <2>3, <2>7, GoodNull
      <4> QED BY <2>3, <2>4, <4>1
    <3>3. ASSUME NEW a \in Addresses
          PROVE  Times[p][a] = Times[r][a] + (IF a = d THEN 1 ELSE 0)
      <4>1. Times[p][a] = Times[l][a] + Times[r][a] + (IF a = d THEN 1 ELSE 0)
        BY <2>2 DEF Joins
      <4>2. Times[l][a] = 0 /\ Times[r][a] \in Nat
        BY <2>5, <2>7, TimesDef, TimesType
      <4> QED BY <4>1, <4>2
    <3>4. Above(p, d)
      <4>1. Above(l, d) /\ d >= d
        BY <2>2, <2>6, <2>7, NullBounds
      <4> QED BY <2>2, <2>5, <4>1, PartsBounds
    <3>5. MinTaken(r, d, p)
      BY <2>2, <3>2, <3>3, <3>4 DEF MinTaken
    <3> QED BY <2>1, <3>1, <3>5
  <2>8. CASE l # Null
    <3>1. PICK q, b, k : q = removemin[l] /\ b = balance(d, q, r) /\ k = findmin[l].addr
      OBVIOUS
    <3>2. findmin[p].addr = k /\ removemin[p] = b
      BY <1>2, <2>1, <2>8, <3>1, FindminDef, RemoveminDef
    <3>3. MinTaken(q, k, l) /\ Good(q) /\ q \in Full /\ k \in Addresses
      <4>1. MinTaken(q, k, l)
        BY <1>2, <2>1, <2>2, <2>8, <3>1
      <4> QED BY <4>1 DEF MinTaken, Good
    <3>4. PICK c \in Nat : c = Height(q)
      BY <3>3, GoodDepth
    <3>5. c \in {x - 1, x}
      BY <2>3, <3>3, <3>4 DEF MinTaken
    <3>6. Below(q, d)
      BY <2>2, <2>5, <3>3, MinTakenFewer, FewerBounds
    <3>7. Balanced(b, q, d, r)
      <4>1. Height(r) - Height(q) \in -2..2 /\ Height(q) < MaxHeight /\ Height(r) < MaxHeight
        BY <2>3, <2>4, <3>4, <3>5
      <4> QED BY <2>2, <3>1, <3>3, <3>6, <4>1, BalanceGood
    <3>8. Height(b) \in {h - 1, h}
      <4>1. PICK e \in Nat : e = Height(b)
        BY <3>7, GoodDepth DEF Balanced
      <4>2. LET g == IF c > y THEN c ELSE y
            IN  e \in {g, g + 1} /\ (y - c \in -1..1 => e = g + 1)
        BY <2>3, <3>4, <3>7, <4>1 DEF Balanced
      <4>3. e \in {h - 1, h}
        BY <2>4, <3>5, <4>2
      <4> QED BY <4>1, <4>3
    <3>9. ASSUME NEW a \in Addresses
          PROVE  Times[p][a] = Times[b][a] + (IF a = k THEN 1 ELSE 0)
      <4>1. Times[b][a] = Times[q][a] + Times[r][a] + (IF a = d THEN 1 ELSE 0)
        BY <3>7 DEF Balanced, Joins
      <4>2. Times[p][a] = Times[l][a] + Times[r][a] + (IF a = d THEN 1 ELSE 0)
        BY <2>2 DEF Joins
      <4>3. Times[l][a] = Times[q][a] + (IF a = k THEN 1 ELSE 0)
        BY <3>3 DEF MinTaken
      <4>4. Times[q][a] \in Nat /\ Times[r][a] \in Nat
        BY <2>5, <3>3, TimesType
      <4> QED BY <4>1, <4>2, <4>3, <4>4
    <3>10. Above(p, k)
      <4>1. Above(l, k)
        BY <3>3 DEF MinTaken
      <4>2. k <= d /\ k \in Nat
        BY <2>2, <2>5, <3>3, MinTakenFewer, AddressType DEF Below
      <4>3. Above(r, k) /\ d >= k
        BY <2>2, <2>6, <3>3, <4>2, BoundsWeaken
      <4> QED BY <2>2, <2>5, <3>3, <4>1, <4>3, PartsBounds
    <3>11. MinTaken(b, k, p)
      BY <2>3, <3>3, <3>7, <3>8, <3>9, <3>10 DEF MinTaken, Balanced
    <3> QED BY <3>2, <3>11
  <2> QED BY <2>7, <2>8
<1> HIDE DEF G
<1>3. Full \subseteq G
  BY <1>1, <1>2, FullInduction
<1>4. t \in Full
  BY DEF Good
<1> QED BY <1>3, <1>4 DEF G

(* What takes the place of a removed node has what its children have.      *)
LEMMA JoinedGood ==
    ASSUME NEW k \in Addresses, NEW l, NEW r, Good(l), Good(r), Below(l, k), Above(r, k),
           Height(r) - Height(l) \in -1..1, Height(l) < MaxHeight, Height(r) < MaxHeight
    PROVE  /\ Good(Joined(l, r))
           /\ LET h == IF Height(l) > Height(r) THEN Height(l) ELSE Height(r)
              IN  Height(Joined(l, r)) \in {h, h + 1}
           /\ \A a \in Addresses : Times[Joined(l, r)][a] = Times[l][a] + Times[r][a]
<1>1. PICK x \in Nat, y \in Nat, m \in Nat :
          x = Height(l) /\ y = Height(r) /\ m = MaxHeight /\ y - x \in -1..1 /\ x < m /\ y < m
  BY GoodDepth, MaxHeightType
<1>2. l \in Full /\ r \in Full
  BY DEF Good
<1>3. PICK j : j = Joined(l, r)
  OBVIOUS
<1>4. CASE r = Null
  <2>1. j = l
    BY <1>3, <1>4 DEF Joined
  <2>2. y = 0
    BY <1>1, <1>4, GoodNull
  <2>3. LET h == IF x > y THEN x ELSE y IN x \in {h, h + 1}
    BY <2>2
  <2>4. \A a \in Addresses : Times[l][a] = Times[l][a] + Times[r][a]
    <3>1. \A a \in Addresses : Times[r][a] = 0 /\ Times[l][a] \in Nat
      BY <1>2, <1>4, TimesDef, TimesType
    <3> QED BY <3>1
  <2>5. l = Joined(l, r)
    BY <1>3, <2>1
  <2> QED BY <1>1, <2>3, <2>4, <2>5
<1>5. CASE r # Null
  <2>1. PICK q, d : q = removemin[r] /\ d = findmin[r].addr
    OBVIOUS
  <2>2. j = balance(d, l, q)
    BY <1>3, <1>5, <2>1 DEF Joined
  <2>3. MinTaken(q, d, r) /\ Good(q) /\ q \in Full /\ d \in Addresses /\ Above(r, d)
    <3>1. MinTaken(q, d, r)
      BY <1>5, <2>1, RemoveminGood
    <3> QED BY <3>1 DEF MinTaken, Good
  <2>4. PICK c \in Nat : c = Height(q)
    BY <2>3, GoodDepth
  <2>5. c \in {y - 1, y}
    BY <1>1, <2>3, <2>4 DEF MinTaken
  <2>6. Times[r][d] > 0 /\ \A a \in Addresses : Times[q][a] > 0 => Times[r][a] > 0
    BY <1>2, <2>3, MinTakenFewer
  <2>7. k <= d /\ k \in Nat /\ d \in Nat
    BY <2>3, <2>6, AddressType DEF Above
  <2>8. Below(l, d)
    BY <2>3, <2>7, BoundsWeaken
  <2>9. Above(q, d)
    BY <1>2, <2>3, <2>6, FewerBounds
  <2>10. Balanced(j, l, d, q)
    <3>1. Height(q) - Height(l) \in -2..2 /\ Height(q) < MaxHeight /\ Height(l) < MaxHeight
      BY <1>1, <2>4, <2>5
    <3> QED BY <2>2, <2>3, <2>8, <2>9, <3>1, BalanceGood
  <2>11. PICK e \in Nat : e = Height(j)
    BY <2>10, GoodDepth DEF Balanced
  <2>12. LET g == IF x > c THEN x ELSE c
         IN  e \in {g, g + 1} /\ (c - x \in -1..1 => e = g + 1)
    BY <1>1, <2>4, <2>10, <2>11 DEF Balanced
  <2>13. LET h == IF x > y THEN x ELSE y IN e \in {h, h + 1}
    BY <1>1, <2>5, <2>12
  <2>14. ASSUME NEW a \in Addresses PROVE Times[j][a] = Times[l][a] + Times[r][a]
    <3>1. Times[j][a] = Times[l][a] + Times[q][a] + (IF a = d THEN 1 ELSE 0)
      BY <2>10 DEF Balanced, Joins
    <3>2. Times[r][a] = Times[q][a] + (IF a = d THEN 1 ELSE 0)
      BY <2>3 DEF MinTaken
    <3>3. Times[l][a] \in Nat /\ Times[q][a] \in Nat
      BY <1>2, <2>3, TimesType
    <3> QED BY <3>1, <3>2, <3>3
  <2>15. Good(j)
    BY <2>10 DEF Balanced
  <2> QED BY <1>1, <1>3, <2>11, <2>13, <2>14, <2>15
<1> QED BY <1>4, <1>5

(* remove gives a good tree that has k once less, if it had k, and is at   *)
(* most one lower.                                                         *)
Removed(q, p, k) ==
    /\ Good(q)
    /\ Height(q) \in {Height(p) - 1, Height(p)}
    /\ \A a \in Addresses :
           Times[q][a] = IF a = k /\ Times[p][a] > 0 THEN Times[p][a] - 1 ELSE Times[p][a]

LEMMA RemovedFewer ==
    ASSUME NEW k, NEW p \in Full, NEW q \in Full, Removed(q, p, k)
    PROVE  \A a \in Addresses : Times[q][a] > 0 => Times[p][a] > 0
<1> SUFFICES ASSUME NEW a \in Addresses PROVE Times[q][a] > 0 => Times[p][a] > 0
  OBVIOUS
<1>1. Times[q][a] = IF a = k /\ Times[p][a] > 0 THEN Times[p][a] - 1 ELSE Times[p][a]
  BY DEF Removed
<1>2. Times[p][a] \in Nat /\ Times[q][a] \in Nat
  BY TimesType
<1> QED BY <1>1, <1>2

LEMMA RemoveGood ==
    ASSUME NEW k \in Addresses, NEW t, Good(t)
    PROVE  Removed(remove(k)[t], t, k)
<1> DEFINE G == {p \in Full : Good(p) => Removed(remove(k)[p], p, k)}
<1>1. Null \in G
  <2>1. remove(k)[Null] = Null
    BY RemoveDef, FullIsTree
  <2>2. Height(Null) \in {Height(Null) - 1, Height(Null)}
    OBVIOUS
  <2>3. \A a \in Addresses : Times[Null][a] = 0
    BY TimesDef
  <2>4. Removed(Null, Null, k)
    BY <2>2, <2>3, GoodNull DEF Removed
  <2>5. Removed(remove(k)[Null], Null, k)
    BY <2>1, <2>4
  <2> QED BY <2>5, FullIsTree
<1>2. ASSUME NEW p \in Full, p # Null, p.left \in G, p.right \in G PROVE p \in G
  <2> SUFFICES ASSUME Good(p) PROVE Removed(remove(k)[p], p, k)
    BY <1>2
  <2>1. PICK l, r, d : l = p.left /\ r = p.right /\ d = p.addr
    OBVIOUS
  <2>2. /\ d \in Addresses /\ Good(l) /\ Good(r)
        /\ Below(l, d) /\ Above(r, d) /\ Joins(p, l, d, r)
    BY <1>2, <2>1, OrderedBounds
  <2>3. PICK x \in Nat, y \in Nat, h \in Nat, m \in Nat :
            x = Height(l) /\ y = Height(r) /\ h = Height(p) /\ m = MaxHeight
    BY <1>2, <2>1, GoodHeights, MaxHeightType
  <2>4. h = (IF x > y THEN x ELSE y) + 1 /\ y - x \in -1..1 /\ h <= m
    <3>1. Height(p) = Higher(x, y) + 1 /\ y - x \in -1..1 /\ Height(p) <= MaxHeight
      BY <1>2, <2>1, <2>3, GoodHeights, GoodBound
    <3> QED BY <2>3, <3>1, HigherProperties
  <2>5. Removed(remove(k)[l], l, k) /\ Removed(remove(k)[r], r, k)
    BY <1>2, <2>1, <2>2
  <2>6. l \in Full /\ r \in Full
    BY <2>2 DEF Good
  <2>7. d \in Nat /\ k \in Nat
    BY <2>2, AddressType
  <2>8. \A a \in Addresses :
            Times[p][a] = Times[l][a] + Times[r][a] + (IF a = d THEN 1 ELSE 0)
    BY <2>2 DEF Joins
  <2>9. \A a \in Addresses : Times[l][a] \in Nat /\ Times[r][a] \in Nat
    BY <2>6, TimesType
  <2>10. CASE k < d
    <3>1. PICK q, b : q = remove(k)[l] /\ b = balance(d, remove(k)[l], r)
      OBVIOUS
    <3>2. remove(k)[p] = b
      BY <1>2, <2>1, <2>7, <2>10, <3>1, RemoveDef
    <3>3. Removed(q, l, k) /\ Good(q) /\ q \in Full
      BY <2>5, <3>1 DEF Removed, Good
    <3>4. PICK c \in Nat : c = Height(q)
      BY <3>3, GoodDepth
    <3>5. c \in {x - 1, x}
      BY <2>3, <3>3, <3>4 DEF Removed
    <3>6. Below(q, d)
      BY <2>2, <2>6, <3>3, RemovedFewer, FewerBounds
    <3>7. Balanced(b, q, d, r)
      <4>1. Height(r) - Height(q) \in -2..2 /\ Height(q) < MaxHeight /\ Height(r) < MaxHeight
        BY <2>3, <2>4, <3>4, <3>5
      <4> QED BY <2>2, <3>1, <3>3, <3>6, <4>1, BalanceGood
    <3>8. Height(b) \in {h - 1, h}
      <4>1. PICK e \in Nat : e = Height(b)
        BY <3>7, GoodDepth DEF Balanced
      <4>2. LET g == IF c > y THEN c ELSE y
            IN  e \in {g, g + 1} /\ (y - c \in -1..1 => e = g + 1)
        BY <2>3, <3>4, <3>7, <4>1 DEF Balanced
      <4>3. e \in {h - 1, h}
        BY <2>4, <3>5, <4>2
      <4> QED BY <4>1, <4>3
    <3>9. ASSUME NEW a \in Addresses
          PROVE  Times[b][a] = IF a = k /\ Times[p][a] > 0 THEN Times[p][a] - 1
                               ELSE Times[p][a]
      <4>1. Times[b][a] = Times[q][a] + Times[r][a] + (IF a = d THEN 1 ELSE 0)
        BY <3>7 DEF Balanced, Joins
      <4>2. Times[q][a] = IF a = k /\ Times[l][a] > 0 THEN Times[l][a] - 1
                          ELSE Times[l][a]
        BY <3>3 DEF Removed
      <4>3. a = k => Times[r][a] = 0 /\ a # d
        BY <2>2, <2>7, <2>9, <2>10 DEF Below, Above
      <4>4. /\ Times[p][a] = Times[l][a] + Times[r][a] + (IF a = d THEN 1 ELSE 0)
            /\ Times[l][a] \in Nat /\ Times[r][a] \in Nat
        BY <2>8, <2>9
      <4>5. CASE a = k
        <5>1. Times[p][a] = Times[l][a] /\ Times[b][a] = Times[q][a]
          <6>1. Times[q][a] \in Nat
            BY <3>3, TimesType
          <6> QED BY <4>1, <4>3, <4>4, <4>5, <6>1
        <5> QED BY <4>2, <4>5, <5>1
      <4>6. CASE a # k
        BY <4>1, <4>2, <4>4, <4>6
      <4> QED BY <4>5, <4>6
    <3>10. Removed(b, p, k)
      BY <2>3, <3>7, <3>8, <3>9 DEF Removed, Balanced
    <3> QED BY <3>2, <3>10
  <2>11. CASE k > d
    <3>1. PICK q, b : q = remove(k)[r] /\ b = balance(d, l, remove(k)[r])
      OBVIOUS
    <3>2. remove(k)[p] = b
      BY <1>2, <2>1, <2>7, <2>11, <3>1, RemoveDef
    <3>3. Removed(q, r, k) /\ Good(q) /\ q \in Full
      BY <2>5, <3>1 DEF Removed, Good
    <3>4. PICK c \in Nat : c = Height(q)
      BY <3>3, GoodDepth
    <3>5. c \in {y - 1, y}
      BY <2>3, <3>3, <3>4 DEF Removed
    <3>6. Above(q, d)
      BY <2>2, <2>6, <3>3, RemovedFewer, FewerBounds
    <3>7. Balanced(b, l, d, q)
      <4>1. Height(q) - Height(l) \in -2..2 /\ Height(q) < MaxHeight /\ Height(l) < MaxHeight
        BY <2>3, <2>4, <3>4, <3>5
      <4> QED BY <2>2, <3>1, <3>3, <3>6, <4>1, BalanceGood
    <3>8. Height(b) \in {h - 1, h}
      <4>1. PICK e \in Nat : e = Height(b)
        BY <3>7, GoodDepth DEF Balanced
      <4>2. LET g == IF x > c THEN x ELSE c
            IN  e \in {g, g + 1} /\ (c - x \in -1..1 => e = g + 1)
        BY <2>3, <3>4, <3>7, <4>1 DEF Balanced
      <4>3. e \in {h - 1, h}
        BY <2>4, <3>5, <4>2
      <4> QED BY <4>1, <4>3
    <3>9. ASSUME NEW a \in Addresses
          PROVE  Times[b][a] = IF a = k /\ Times[p][a] > 0 THEN Times[p][a] - 1
                               ELSE Times[p][a]
      <4>1. Times[b][a] = Times[l][a] + Times[q][a] + (IF a = d THEN 1 ELSE 0)
        BY <3>7 DEF Balanced, Joins
      <4>2. Times[q][a] = IF a = k /\ Times[r][a] > 0 THEN Times[r][a] - 1
                          ELSE Times[r][a]
        BY <3>3 DEF Removed
      <4>3. a = k => Times[l][a] = 0 /\ a # d
        BY <2>2, <2>7, <2>9, <2>11 DEF Below, Above
      <4>4. /\ Times[p][a] = Times[l][a] + Times[r][a] + (IF a = d THEN 1 ELSE 0)
            /\ Times[l][a] \in Nat /\ Times[r][a] \in Nat
        BY <2>8, <2>9
      <4>5. CASE a = k
        <5>1. Times[p][a] = Times[r][a] /\ Times[b][a] = Times[q][a]
          <6>1. Times[q][a] \in Nat
            BY <3>3, TimesType
          <6> QED BY <4>1, <4>3, <4>4, <4>5, <6>1
        <5> QED BY <4>2, <4>5, <5>1
      <4>6. CASE a # k
        BY <4>1, <4>2, <4>4, <4>6
      <4> QED BY <4>5, <4>6
    <3>10. Removed(b, p, k)
      BY <2>3, <3>7, <3>8, <3>9 DEF Removed, Balanced
    <3> QED BY <3>2, <3>10
  <2>12. CASE k = d
    <3>1. PICK j : j = Joined(l, r)
      OBVIOUS
    <3>2. remove(k)[p] = j
      <4>1. ~(k < d) /\ ~(k > d)
        BY <2>7, <2>12
      <4> QED BY <1>2, <2>1, <3>1, <4>1, RemoveDef
    <3>3. /\ Good(j)
          /\ LET g == IF Height(l) > Height(r) THEN Height(l) ELSE Height(r)
             IN  Height(j) \in {g, g + 1}
          /\ \A a \in Addresses : Times[j][a] = Times[l][a] + Times[r][a]
      <4>1. Height(r) - Height(l) \in -1..1 /\ Height(l) < MaxHeight /\ Height(r) < MaxHeight
        BY <2>3, <2>4
      <4> QED BY <2>2, <3>1, <4>1, JoinedGood
    <3>4. Height(j) \in {h - 1, h}
      <4>1. LET g == IF x > y THEN x ELSE y IN Height(j) \in {g, g + 1}
        BY <2>3, <3>3
      <4> QED BY <2>4, <4>1
    <3>5. ASSUME NEW a \in Addresses
          PROVE  Times[j][a] = IF a = k /\ Times[p][a] > 0 THEN Times[p][a] - 1
                               ELSE Times[p][a]
      <4>1. Times[j][a] = Times[l][a] + Times[r][a]
        BY <3>3
      <4> QED BY <2>8, <2>9, <2>12, <4>1
    <3>6. Removed(j, p, k)
      BY <2>3, <3>3, <3>4, <3>5 DEF Removed
    <3> QED BY <3>2, <3>6
  <2> QED BY <2>7, <2>10, <2>11, <2>12
<1> HIDE DEF G
<1>3. Full \subseteq G
  BY <1>1, <1>2, FullInduction
<1>4. t \in Full
  BY DEF Good
<1> QED BY <1>3, <1>4 DEF G
-----------------------------------------------------------------------------
(* The inductive invariant: every node of the tree is ordered and balanced *)
(* (balance needs both), and the tree has what is registered.              *)
IInv ==
    /\ Good(fake_roots)
    /\ registered \in [Addresses -> Nat]
    /\ \A a \in Addresses : Times[fake_roots][a] = registered[a]

LEMMA InitIInv == Init => IInv
BY GoodNull, TimesDef DEF Init, IInv

LEMMA RegisterIInv ==
    ASSUME IInv, NEW k \in Addresses, register_object(k)
    PROVE  IInv'
<1>1. PICK p : p = fake_roots
  OBVIOUS
<1>2. PICK q : q = insert(k)[p]
  OBVIOUS
<1>3. fake_roots' = q /\ registered' = [registered EXCEPT ![k] = registered[k] + 1]
  BY <1>1, <1>2 DEF register_object
<1>4. Inserted(q, p, k)
  BY <1>1, <1>2, InsertGood DEF IInv, register_object
<1>5. registered' \in [Addresses -> Nat]
  BY <1>3 DEF IInv
<1>6. ASSUME NEW a \in Addresses PROVE Times[q][a] = registered'[a]
  <2>1. Times[q][a] = Times[p][a] + (IF a = k THEN 1 ELSE 0)
    BY <1>4 DEF Inserted
  <2>2. Times[p][a] = registered[a] /\ registered[a] \in Nat
    BY <1>1 DEF IInv
  <2>3. registered'[a] = registered[a] + (IF a = k THEN 1 ELSE 0)
    BY <1>3, <2>2 DEF IInv
  <2> QED BY <2>1, <2>2, <2>3
<1>7. Good(q)
  BY <1>4 DEF Inserted
<1> QED BY <1>3, <1>5, <1>6, <1>7 DEF IInv

LEMMA UnregisterIInv ==
    ASSUME IInv, NEW k \in Addresses, unregister_object(k)
    PROVE  IInv'
<1>1. PICK p : p = fake_roots
  OBVIOUS
<1>2. PICK q : q = remove(k)[p]
  OBVIOUS
<1>3. /\ fake_roots' = q
      /\ registered' = [registered EXCEPT ![k] = IF registered[k] = 0 THEN 0
                                                  ELSE registered[k] - 1]
  BY <1>1, <1>2 DEF unregister_object
<1>4. Removed(q, p, k)
  BY <1>1, <1>2, RemoveGood DEF IInv
<1>5. registered' \in [Addresses -> Nat]
  BY <1>3 DEF IInv
<1>6. ASSUME NEW a \in Addresses PROVE Times[q][a] = registered'[a]
  <2>1. Times[q][a] = IF a = k /\ Times[p][a] > 0 THEN Times[p][a] - 1 ELSE Times[p][a]
    BY <1>4 DEF Removed
  <2>2. Times[p][a] = registered[a] /\ registered[a] \in Nat
    BY <1>1 DEF IInv
  <2>3. registered'[a] = IF a = k /\ registered[a] > 0 THEN registered[a] - 1
                         ELSE registered[a]
    BY <1>3, <2>2 DEF IInv
  <2> QED BY <2>1, <2>2, <2>3
<1>7. Good(q)
  BY <1>4 DEF Removed
<1> QED BY <1>3, <1>5, <1>6, <1>7 DEF IInv

LEMMA NextIInv == IInv /\ [Next]_vars => IInv'
<1> SUFFICES ASSUME IInv, [Next]_vars PROVE IInv'
  OBVIOUS
<1>1. ASSUME NEW k \in Addresses, register_object(k) PROVE IInv'
  BY <1>1, RegisterIInv
<1>2. ASSUME NEW k \in Addresses, unregister_object(k) PROVE IInv'
  BY <1>2, UnregisterIInv
<1>3. CASE UNCHANGED vars
  BY <1>3 DEF IInv, vars
<1> QED BY <1>1, <1>2, <1>3 DEF Next

(* At every moment the tree is ordered and balanced in every node and has  *)
(* what is registered (fake_roots.h:26-144): it is this whole statement    *)
(* that register_object and unregister_object preserve.                    *)
THEOREM TreeInvariant == Spec => []IInv
<1>1. IInv /\ [Next]_vars => IInv'
  BY NextIInv
<1> QED BY InitIInv, <1>1, PTL DEF Spec

\* What the invariant says of the two properties.
LEMMA ExactOfIInv == IInv => TreeExact
<1> SUFFICES ASSUME IInv PROVE TreeExact
  OBVIOUS
<1>1. Times[fake_roots] \in [Addresses -> Nat]
  BY TimesDef DEF IInv, Good
<1>2. Times[fake_roots] = registered
  BY <1>1 DEF IInv
<1> QED BY <1>2 DEF IInv, Good, TreeExact

(* mark_fake_roots walks exactly the registered addresses, in order,       *)
(* whatever is registered and unregistered (fake_roots.h:146-169).         *)
THEOREM TreeIsExact == Spec => []TreeExact
BY TreeInvariant, ExactOfIInv, PTL

LEMMA BalancedOfIInv == IInv => TreeBalanced
BY DEF IInv, Good, TreeBalanced

(* The tree stays an AVL tree with the right heights: one call of balance  *)
(* in each node on the way up is enough (fake_roots.h:76-92, 118-144).     *)
THEOREM TreeIsBalanced == Spec => []TreeBalanced
BY TreeInvariant, BalancedOfIInv, PTL

(* What insert makes of a tree is at most one higher, and what remove      *)
(* makes of it at most one lower: the height, an unsigned char, changes by *)
(* one per call (fake_roots.h:18, 94-103, 118-138).                        *)
THEOREM HeightStep ==
    Spec => [][Height(fake_roots') - Height(fake_roots) \in -1..1]_vars
<1>1. ASSUME IInv, Next PROVE Height(fake_roots') - Height(fake_roots) \in -1..1
  <2>1. PICK p, q : p = fake_roots /\ q = fake_roots'
    OBVIOUS
  <2>2. PICK x \in Nat : x = Height(p)
    BY <1>1, <2>1, GoodDepth DEF IInv
  <2>3. ASSUME NEW k \in Addresses, register_object(k) PROVE Height(q) \in {x, x + 1}
    <3>1. Inserted(q, p, k)
      BY <1>1, <2>1, <2>3, InsertGood DEF IInv, register_object
    <3> QED BY <2>2, <3>1 DEF Inserted
  <2>4. ASSUME NEW k \in Addresses, unregister_object(k) PROVE Height(q) \in {x - 1, x}
    <3>1. Removed(q, p, k)
      BY <1>1, <2>1, <2>4, RemoveGood DEF IInv, unregister_object
    <3> QED BY <2>2, <3>1 DEF Removed
  <2>5. Height(q) \in {x - 1, x, x + 1}
    BY <1>1, <2>3, <2>4 DEF Next
  <2>6. Height(q) - Height(p) \in -1..1
    BY <2>2, <2>5
  <2> QED BY <2>1, <2>6
<1> QED BY <1>1, TreeInvariant, PTL DEF Spec
=============================================================================
