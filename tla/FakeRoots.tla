------------------------------ MODULE FakeRoots ------------------------------
(***************************************************************************)
(* The AVL tree that holds the fake roots (sources/fake_roots.h): the      *)
(* addresses of gc_ptrs in unmanaged memory, which the program registers   *)
(* and unregisters.  An address may be registered more than once.          *)
(*                                                                         *)
(* A node is a record, a tree a node or Null.  What is recursive in the    *)
(* source is a recursive function on trees.  One thread uses the tree: the *)
(* code has no lock.                                                       *)
(***************************************************************************)
EXTENDS Integers, Folds, Functions

CONSTANTS Addresses,  \* a set of numbers
          MaxNodes,   \* bound: registrations at a time
          MaxHeight,  \* bound: the height of the tree, an unsigned char
          Null

ASSUME ConstantsAssumption ==
    /\ Addresses \subseteq Nat
    /\ MaxNodes \in Nat
    /\ MaxHeight \in 0..255

VARIABLES
    fake_roots,  \* the root of the tree
    registered   \* history: how often the program has registered an address

vars == <<fake_roots, registered>>

\* Trees[n]: the trees that are no deeper than n.
NodesOver(S) == [addr : Addresses, height : Nat, left : S, right : S]
Trees[n \in Nat] == IF n = 0 THEN {Null} ELSE {Null} \cup NodesOver(Trees[n - 1])

ASSUME NullAssumption == \A n \in 0..MaxHeight : Null \notin NodesOver(Trees[n])

Height(p) == IF p = Null THEN 0 ELSE p.height
bfactor(p) == Height(p.right) - Height(p.left)

\* A node with the height that its children give it: fixheight.
Higher(a, b) == IF a > b THEN a ELSE b
Node(k, l, r) ==
    [addr |-> k, height |-> Higher(Height(l), Height(r)) + 1, left |-> l, right |-> r]

rotateright(p) ==
    Node(p.left.addr, p.left.left, Node(p.addr, p.left.right, p.right))
rotateleft(q) ==
    Node(q.right.addr, Node(q.addr, q.left, q.right.left), q.right.right)

\* balance of a node whose children are l and r.
\* Variant, for the sensitivity of TreeBalanced: the child is never rotated first.
balance_single(k, l, r) ==
    LET p == Node(k, l, r)
    IN  CASE bfactor(p) = 2  -> rotateleft(p)
          [] bfactor(p) = -2 -> rotateright(p)
          [] OTHER           -> p
balance(k, l, r) ==
    LET p == Node(k, l, r)
    IN  CASE bfactor(p) = 2 ->
                 rotateleft(IF bfactor(r) < 0 THEN Node(k, l, rotateright(r)) ELSE p)
          [] bfactor(p) = -2 ->
                 rotateright(IF bfactor(l) > 0 THEN Node(k, rotateleft(l), r) ELSE p)
          [] OTHER -> p

insert(k) ==
    LET ins[p \in Trees[MaxHeight]] ==
            IF p = Null THEN Node(k, Null, Null)
            ELSE IF k < p.addr THEN balance(p.addr, ins[p.left], p.right)
            ELSE balance(p.addr, p.left, ins[p.right])
    IN  ins

findmin ==
    LET min[p \in Trees[MaxHeight] \ {Null}] ==
            IF p.left # Null THEN min[p.left] ELSE p
    IN  min

removemin ==
    LET rem[p \in Trees[MaxHeight] \ {Null}] ==
            IF p.left = Null THEN p.right
            ELSE balance(p.addr, rem[p.left], p.right)
    IN  rem

\* What takes the place of a removed node with children q and r.
\* Variant, for the sensitivity of TreeExact: the subtree keeps the minimum.
Joined_twice(q, r) == IF r = Null THEN q ELSE balance(findmin[r].addr, q, r)
Joined(q, r) == IF r = Null THEN q ELSE balance(findmin[r].addr, q, removemin[r])

remove(k) ==
    LET rem[p \in Trees[MaxHeight]] ==
            IF p = Null THEN Null
            ELSE IF k < p.addr THEN balance(p.addr, rem[p.left], p.right)
            ELSE IF k > p.addr THEN balance(p.addr, p.left, rem[p.right])
            ELSE Joined(p.left, p.right)
    IN  rem
-----------------------------------------------------------------------------
Init ==
    /\ fake_roots = Null
    /\ registered = [a \in Addresses |-> 0]

register_object(k) ==
    /\ FoldFunction(LAMBDA m, n : m + n, 0, registered) < MaxNodes
    /\ Height(fake_roots) < MaxHeight
    /\ fake_roots' = insert(k)[fake_roots]
    /\ registered' = [registered EXCEPT ![k] = @ + 1]

\* Also of an address that is not registered, which has no effect.
unregister_object(k) ==
    /\ fake_roots' = remove(k)[fake_roots]
    /\ registered' = [registered EXCEPT ![k] = IF @ = 0 THEN 0 ELSE @ - 1]

Next == \E k \in Addresses : register_object(k) \/ unregister_object(k)

Spec == Init /\ [][Next]_vars
-----------------------------------------------------------------------------
\* How often a tree has an address; and its nodes.
Times ==
    LET times[p \in Trees[MaxHeight]] ==
            [a \in Addresses |->
                IF p = Null THEN 0
                ELSE times[p.left][a] + times[p.right][a] + (IF a = p.addr THEN 1 ELSE 0)]
    IN  times

Nodes ==
    LET nodes[p \in Trees[MaxHeight]] ==
            IF p = Null THEN {} ELSE {p} \cup nodes[p.left] \cup nodes[p.right]
    IN  nodes

Ordered(p) ==
    \A a \in Addresses :
        /\ Times[p.left][a] > 0 => a <= p.addr
        /\ Times[p.right][a] > 0 => a >= p.addr

Even(p) ==
    /\ bfactor(p) \in -1..1
    /\ p.height = Higher(Height(p.left), Height(p.right)) + 1

(* The tree that mark_fake_roots walks has the registered addresses, each  *)
(* as often as it is registered, in order, whatever rotations have done    *)
(* and also with equal addresses on both sides of a node: no root is lost  *)
(* and no address of freed memory is left (fake_roots.h:146-169).          *)
TreeExact ==
    /\ Times[fake_roots] = registered
    /\ \A p \in Nodes[fake_roots] : Ordered(p)

(* It stays an AVL tree with the right heights: one call of balance on the *)
(* way up is enough, after an insertion and after the removal of a minimum *)
(* (fake_roots.h:76-92, 118-144).                                          *)
TreeBalanced == \A p \in Nodes[fake_roots] : Even(p)
=============================================================================
