-------------------------- MODULE DerefRootsProofs --------------------------
(***************************************************************************)
(* Plain pointers stay valid, and the handles are accounted for, for any   *)
(* number of threads, objects, addresses and handles.                      *)
(***************************************************************************)
EXTENDS DerefRoots, FiniteSetTheorems, TLAPS

Places == {"run", "safepoint", "register", "gc", "reset", "test", "load",
           "halve", "killed"}

Typed ==
    /\ pc \in [Threads -> Places]
    /\ loaded \in [Threads -> Addresses \cup {Null}]
    /\ plain \in [Threads -> Addresses \cup {Null}]
    /\ address \in [Objects -> Addresses]
    /\ roots \in [Addresses -> Nat]
    /\ target \in [Threads -> Objects \cup {Null}]
    /\ leads \in [Threads -> Objects \cup {Null}]

\* A thread that is about to register has something to register.
Loads ==
    \A t \in Threads : pc[t] \in {"safepoint", "register"} =>
        loaded[t] \in Addresses /\ target[t] \in Objects

\* A valid plain pointer has a handle.  The collector keeps that handle,
\* because the pointer is on the stack, and moves nothing that has a handle.
Handled ==
    \A t \in Threads : leads[t] # Null =>
        /\ plain[t] \in Addresses
        /\ address[leads[t]] = plain[t]
        /\ roots[plain[t]] > 0

PointerInv == Typed /\ Loads /\ Handled
-----------------------------------------------------------------------------
LEMMA PointerInit ==
    ASSUME Init
    PROVE  PointerInv
<1>1. Typed
  BY DEF Init, Typed, Places, Injection, IsInjective
<1>2. Loads /\ Handled
  BY DEF Init, Loads, Handled
<1> QED BY <1>1, <1>2 DEF PointerInv

(* The handle that register adds is one for the new plain pointer, and it  *)
(* takes none away.                                                        *)
LEMMA RegisterKeeps ==
    ASSUME PointerInv, NEW t \in Threads, register(t)
    PROVE  PointerInv'
<1> USE DEF PointerInv
<1>1. loaded[t] \in Addresses /\ target[t] \in Objects
  BY DEF Loads, register
<1>2. \A u \in Threads \ {t} :
          /\ plain'[u] = plain[u]
          /\ loaded'[u] = loaded[u]
          /\ leads'[u] = leads[u]
          /\ target'[u] = target[u]
          /\ pc'[u] = pc[u]
  BY DEF register, Goto, Typed
<1>3. plain'[t] = loaded[t] /\ pc'[t] \in {"gc", "run"}
  BY DEF register, Goto, Typed
<1>4. \A a \in Addresses : roots'[a] >= roots[a]
  BY <1>1 DEF register, Typed
<1>5. roots'[loaded[t]] > 0
  BY <1>1 DEF register, Typed
<1>6. Typed'
  BY <1>1 DEF Typed, register, Goto, Places
<1>7. Loads'
  BY <1>2, <1>3 DEF Loads
<1>8. leads'[t] # Null => address[leads'[t]] = loaded[t]
  BY DEF register, Typed
<1>9. address' = address
  BY DEF register
<1>10. Handled'
  <2> SUFFICES ASSUME NEW u \in Threads, leads'[u] # Null
               PROVE  /\ plain'[u] \in Addresses
                      /\ address'[leads'[u]] = plain'[u]
                      /\ roots'[plain'[u]] > 0
    BY DEF Handled
  <2>1. CASE u = t
    BY <2>1, <1>1, <1>3, <1>5, <1>8, <1>9
  <2>2. CASE u # t
    <3>1. plain[u] \in Addresses /\ address[leads[u]] = plain[u] /\ roots[plain[u]] > 0
      BY <2>2, <1>2 DEF Handled
    <3>2. roots[plain[u]] \in Nat /\ roots'[plain[u]] \in Nat
      BY <3>1, <1>6 DEF Typed
    <3> QED BY <3>1, <3>2, <2>2, <1>2, <1>4, <1>9
  <2> QED BY <2>1, <2>2
<1> QED BY <1>6, <1>7, <1>10

(* A collection leaves a handle for every plain pointer that has one, and  *)
(* moves no object with a handle.                                          *)
LEMMA CollectKeeps ==
    ASSUME PointerInv, NEW t \in Threads, NEW full \in BOOLEAN, Collect(t, full)
    PROVE  PointerInv'
<1> USE DEF PointerInv
<1>1. UNCHANGED plainVars
  BY DEF Collect
<1>2. roots' = [a \in Addresses |-> IF a \in Kept(full) THEN 1 ELSE 0]
  BY DEF Collect
<1>3. /\ address' \in [Objects -> Addresses]
      /\ \A o \in Objects : address[o] \in Kept(full) => address'[o] = address[o]
  <2>1. CASE full
    BY <2>1 DEF Collect, Injection, Typed
  <2>2. CASE ~full
    BY <2>2 DEF Collect, Typed
  <2> QED BY <2>1, <2>2
<1>4. pc' = [u \in Threads |-> IF pc[u] = "gc" THEN "reset" ELSE pc[u]]
  BY DEF Collect
<1>5. Typed'
  <2>1. roots' \in [Addresses -> Nat]
    BY <1>2
  <2>2. pc' \in [Threads -> Places]
    BY <1>4 DEF Typed, Places
  <2> QED BY <2>1, <2>2, <1>1, <1>3 DEF Typed, plainVars
<1>6. Loads'
  BY <1>1, <1>4 DEF Loads, plainVars, Typed, Places
<1>7. Handled'
  <2> SUFFICES ASSUME NEW u \in Threads, leads[u] # Null
               PROVE  /\ plain[u] \in Addresses
                      /\ address'[leads[u]] = plain[u]
                      /\ roots'[plain[u]] > 0
    BY <1>1 DEF Handled, plainVars
  <2>1. plain[u] \in Addresses /\ address[leads[u]] = plain[u] /\ roots[plain[u]] > 0
    BY DEF Handled
  <2>2. plain[u] \in Mentioned(full)
    BY <2>1, ConstantsAssumption DEF Mentioned, Range, Typed
  <2>3. plain[u] \in Kept(full)
    BY <2>1, <2>2 DEF Kept
  <2>4. leads[u] \in Objects
    BY DEF Typed
  <2> QED BY <2>1, <2>3, <2>4, <1>2, <1>3
<1> QED BY <1>5, <1>6, <1>7

LEMMA PointerStep ==
    ASSUME PointerInv, [Next]_vars
    PROVE  PointerInv'
<1> USE DEF PointerInv
<1>1. ASSUME NEW t \in Threads, NEW o \in Objects, Dereference(t, o)
      PROVE  PointerInv'
  <2>1. Typed'
    BY <1>1 DEF Typed, Dereference, Goto, heapVars, Places
  <2>2. Loads'
    BY <1>1 DEF Typed, Loads, Dereference, Goto, heapVars
  <2>3. Handled'
    BY <1>1 DEF Handled, Dereference, heapVars
  <2> QED BY <2>1, <2>2, <2>3
<1>2. ASSUME NEW t \in Threads,
             \/ safepoint(t) \/ Reset(t) \/ Test(t) \/ Load(t) \/ Halve(t)
             \/ gc_refused(t) \/ divide_by_zero(t)
      PROVE  PointerInv'
  <2>1. UNCHANGED <<plainVars, heapVars>>
    BY <1>2 DEF safepoint, Reset, Test, Load, Halve, gc_refused, divide_by_zero
  <2>2. /\ pc' \in [Threads -> Places]
        /\ \A u \in Threads : pc'[u] \in {"safepoint", "register"} =>
               pc[u] \in {"safepoint", "register"}
    BY <1>2 DEF safepoint, Reset, Test, Load, Halve, gc_refused, divide_by_zero,
                Goto, Typed, Places
  <2>3. Typed' /\ Handled'
    BY <2>1, <2>2 DEF Typed, Handled, plainVars, heapVars
  <2>4. Loads'
    BY <2>1, <2>2 DEF Loads, plainVars
  <2> QED BY <2>3, <2>4
<1>3. ASSUME NEW t \in Threads, register(t)
      PROVE  PointerInv'
  BY <1>3, RegisterKeeps
<1>4. ASSUME NEW t \in Threads, Collect(t, TRUE) \/ Collect(t, FALSE)
      PROVE  PointerInv'
  BY <1>4, CollectKeeps
<1>5. ASSUME NEW t \in Threads, Forget(t)
      PROVE  PointerInv'
  <2>1. Typed'
    BY <1>5 DEF Typed, Forget, heapVars
  <2>2. Loads'
    BY <1>5 DEF Loads, Forget
  <2>3. Handled'
    BY <1>5 DEF Handled, Forget, heapVars, Typed
  <2> QED BY <2>1, <2>2, <2>3
<1>6. CASE UNCHANGED vars
  BY <1>6 DEF vars, plainVars, heapVars, Typed, Loads, Handled
<1> QED BY <1>1, <1>2, <1>3, <1>4, <1>5, <1>6 DEF Next

(* A plain pointer that led to its object when it was registered does so   *)
(* as long as it is used, however many collections there are meanwhile     *)
(* (deref_roots.cpp:65-84).                                                *)
THEOREM PointersStayValid == Spec => []PlainValid
<1>1. PointerInv => PlainValid
  BY DEF PointerInv, Handled, PlainValid
<1> QED BY <1>1, PointerInit, PointerStep, PTL DEF Spec
-----------------------------------------------------------------------------
(* What the counters say of the table.                                     *)
CountInv ==
    /\ IsFiniteSet(Table)
    /\ count = Cardinality(Table)
    /\ free_handles \in Nat
    /\ total_count \in Nat
    /\ count + free_handles = total_count

LEMMA InTable ==
    ASSUME NEW h
    PROVE  h \in Table <=> \E a \in Addresses : \E i \in 1..roots[a] : h = <<a, i>>
BY DEF Table

(* A handle more.                                                          *)
LEMMA CountRegister ==
    ASSUME PointerInv, CountInv, NEW t \in Threads, register(t)
    PROVE  CountInv'
<1> DEFINE a == loaded[t]
           n == roots[a] + 1
<1>1. a \in Addresses /\ roots \in [Addresses -> Nat]
  BY DEF PointerInv, Loads, Typed, register
<1>2. /\ roots' = [roots EXCEPT ![a] = n] /\ count' = count + 1
      /\ free_handles' = free_handles + Mapped - 1
      /\ total_count' = total_count + Mapped
      /\ Mapped = IF free_handles = 0 THEN mmap_count ELSE 0
  BY DEF register, Mapped
<1>3. n \in Nat /\ n > roots[a]
  BY <1>1
<1> HIDE DEF a, n
<1>4. Table' = Table \cup {<<a, n>>}
  <2>1. \A b \in Addresses : roots'[b] = IF b = a THEN n ELSE roots[b]
    BY <1>1, <1>2
  <2>2. \A i : i \in 1..n <=> i \in 1..roots[a] \/ i = n
    BY <1>1, <1>3 DEF n
  <2>3. \A b \in Addresses : \A i : i \in 1..roots'[b] <=> i \in 1..roots[b] \/ (b = a /\ i = n)
    BY <2>1, <2>2
  <2>4. ASSUME NEW h
        PROVE  h \in Table' <=> h \in Table \/ h = <<a, n>>
    <3>1. h \in Table' <=> \E b \in Addresses : \E i \in 1..roots'[b] : h = <<b, i>>
      BY DEF Table
    <3>2. h \in Table <=> \E b \in Addresses : \E i \in 1..roots[b] : h = <<b, i>>
      BY InTable
    <3> QED BY <3>1, <3>2, <2>3, <1>1
  <2> QED BY <2>4
<1>5. <<a, n>> \notin Table
  <2>1. ~(n \in 1..roots[a])
    BY <1>1, <1>3
  <2> QED BY <2>1, InTable
<1>6. IsFiniteSet(Table') /\ Cardinality(Table') = Cardinality(Table) + 1
  BY <1>4, <1>5, FS_AddElement DEF CountInv
<1>7. mmap_count \in Nat \ {0} /\ count \in Nat
  BY ConstantsAssumption, FS_CardinalityType DEF CountInv
<1> QED BY <1>2, <1>6, <1>7 DEF CountInv

(* Of each address that is kept, one handle is left.                       *)
LEMMA CountCollect ==
    ASSUME PointerInv, CountInv, NEW t \in Threads, NEW full \in BOOLEAN, Collect(t, full)
    PROVE  CountInv'
<1> DEFINE K == Kept(full)
           one == [a \in K |-> <<a, 1>>]
<1>1. roots \in [Addresses -> Nat]
  BY ConstantsAssumption DEF PointerInv, Typed
<1>2. /\ roots' = [a \in Addresses |-> IF a \in K THEN 1 ELSE 0]
      /\ count' = Cardinality(K)
      /\ free_handles' = free_handles + Cardinality(Table) - Cardinality(K)
      /\ total_count' = total_count
  BY DEF Collect, Counted
<1>3. K \subseteq Addresses /\ \A a \in K : roots[a] > 0
  BY <1>1, ConstantsAssumption DEF Kept, Mentioned, Range, PointerInv, Typed
<1> HIDE DEF K
<1>4. Table' = {one[a] : a \in K}
  <2>1. \A a \in Addresses : \A i : i \in 1..roots'[a] <=> a \in K /\ i = 1
    BY <1>2
  <2>2. ASSUME NEW h
        PROVE  h \in Table' <=> \E a \in K : h = <<a, 1>>
    <3>1. h \in Table' <=> \E b \in Addresses : \E i \in 1..roots'[b] : h = <<b, i>>
      BY DEF Table
    <3> QED BY <3>1, <2>1, <1>3
  <2> QED BY <2>2
<1>5. Table' \subseteq Table
  <2>1. ASSUME NEW a \in K
        PROVE  one[a] \in Table
    <3>1. a \in Addresses /\ 1 \in 1..roots[a]
      BY <1>1, <1>3
    <3> QED BY <3>1, InTable
  <2> QED BY <1>4, <2>1
<1>6. IsFiniteSet(Table') /\ Cardinality(Table') <= Cardinality(Table)
  BY <1>5, FS_Subset DEF CountInv
<1> DEFINE back == [h \in Table' |-> h[1]]
<1>7. back \in Bijection(Table', K)
  <2>1. \A h \in Table' : h = <<h[1], 1>> /\ h[1] \in K
    BY <1>4
  <2>2. \A a \in K : <<a, 1>> \in Table' /\ <<a, 1>>[1] = a
    BY <1>4
  <2>3. back \in [Table' -> K] /\ \A h \in Table' : back[h] = h[1]
    BY <2>1
  <2>4. \A g, h \in Table' : back[g] = back[h] => g = h
    BY <2>1, <2>3
  <2>5. \A a \in K : \E h \in Table' : back[h] = a
    BY <2>2, <2>3
  <2> QED BY <2>3, <2>4, <2>5 DEF Bijection, Injection, Surjection, IsInjective
<1>8. IsFiniteSet(K) /\ Cardinality(K) = Cardinality(Table')
  <2>1. ExistsBijection(Table', K)
    BY <1>7 DEF ExistsBijection
  <2> QED BY <1>6, <2>1, FS_Bijection
<1>9. Cardinality(Table) \in Nat /\ Cardinality(Table') \in Nat
  BY <1>6, FS_CardinalityType DEF CountInv
<1> QED BY <1>2, <1>6, <1>8, <1>9 DEF CountInv

LEMMA CountInit ==
    ASSUME Init
    PROVE  CountInv
<1>1. \A h : h \notin Table
  BY InTable DEF Init
<1>2. Table = {}
  BY <1>1
<1> QED BY <1>2, FS_EmptySet DEF Init, CountInv

LEMMA CountStep ==
    ASSUME PointerInv, CountInv, [Next]_vars
    PROVE  CountInv'
<1>1. ASSUME UNCHANGED <<roots, count, free_handles, total_count>>
      PROVE  CountInv'
  BY <1>1 DEF CountInv, Table
<1>2. ASSUME NEW t \in Threads, register(t)
      PROVE  CountInv'
  BY <1>2, CountRegister
<1>3. ASSUME NEW t \in Threads, Collect(t, TRUE) \/ Collect(t, FALSE)
      PROVE  CountInv'
  BY <1>3, CountCollect
<1>4. ASSUME NEW t \in Threads,
             \/ \E o \in Objects : Dereference(t, o)
             \/ safepoint(t) \/ divide_by_zero(t)
             \/ Reset(t) \/ Test(t) \/ Load(t) \/ Halve(t)
             \/ gc_refused(t) \/ Forget(t)
      PROVE  CountInv'
  BY <1>1, <1>4 DEF Dereference, safepoint, divide_by_zero, Reset, Test, Load,
                    Halve, gc_refused, Forget, heapVars
<1>5. CASE UNCHANGED vars
  BY <1>1, <1>5 DEF vars, heapVars
<1> QED BY <1>2, <1>3, <1>4, <1>5 DEF Next

(* Whatever is registered and swept, count is what the table holds and the *)
(* other handles are free (deref_roots.cpp:45-55, 86-110).                 *)
THEOREM HandlesAccountedFor == Spec => []CountExact
<1>1. CountInv => CountExact
  BY DEF CountInv, CountExact
<1>2. Init => PointerInv /\ CountInv
  BY PointerInit, CountInit
<1>3. PointerInv /\ CountInv /\ [Next]_vars => (PointerInv /\ CountInv)'
  BY PointerStep, CountStep
<1> QED BY <1>1, <1>2, <1>3, PTL DEF Spec
=============================================================================
