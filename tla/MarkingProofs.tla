--------------------------- MODULE MarkingProofs ---------------------------
(***************************************************************************)
(* What the mark phase guarantees for every object graph, all sets of      *)
(* roots, any number of threads and of steps that they take during the     *)
(* walk, and every size of the mark stack.                                 *)
(***************************************************************************)
EXTENDS Marking, SequenceTheorems, TLAPS

\* An object that go() has marked or will mark.
Seen == marked \cup OnStack

\* The fake roots come after the last thread.
Position == part = "fake" <=> handler = HandlerCount + 1

(* How far the walk has come: the threads that it has reached stand still. *)
Walk ==
    /\ part \in {"words", "stack_map"} => handler \notin running
    /\ \A h \in Threads : h < handler => h \notin running
    /\ part = "words" => todo \subseteq words[handler]
    /\ part = "stack_map" => full /\ todo \subseteq stack_map[handler]
    /\ part = "fake" => todo \subseteq IF full THEN fake_roots ELSE {}
    /\ ~full => stack = <<>> /\ v = Null /\ marked = {}
    /\ stack_overflow => lost

(* The marks of the table, and the pins that go with them.                 *)
AllWords == UNION {words[h] : h \in Threads \ running}
HandleMarks ==
    phase # "done" =>
        /\ \A h \in Threads : plain[h] \subseteq words[h] \cap roots
        /\ deref_marked \subseteq AllWords
        /\ \A h \in Threads : h < handler => plain[h] \subseteq deref_marked
        /\ part = "words" => plain[handler] \ todo \subseteq deref_marked
        /\ part = "stack_map" => plain[handler] \subseteq deref_marked
        /\ pinned = IF full THEN deref_marked ELSE {}

(* The roots already walked have been seen.                                *)
RootsSeen ==
    full => /\ deref_marked \subseteq Seen
            /\ \A h \in Threads : h < handler => stack_map[h] \subseteq Seen
            /\ part = "stack_map" => stack_map[handler] \ todo \subseteq Seen
            /\ part = "fake" => fake_roots \ todo \subseteq Seen

(* Nothing that the program or the walk comes by was unreachable when the  *)
(* collection began.                                                       *)
SeenSound ==
    ~lost => /\ Seen \cup ({v} \ {Null}) \subseteq began
             /\ Roots \subseteq began
             /\ \A h \in Threads : words[h] \cap roots \subseteq began
             /\ \A o \in began, i \in 1..FieldCount :
                    field[o][i] \in began \cup {Null}
-----------------------------------------------------------------------------
(* What the three operations on the mark stack do to its contents.         *)
LEMMA PopFacts ==
    ASSUME TypeOK, Pop
    PROVE  /\ stack' \in Seq(Objects)
           /\ Len(stack') <= max_stack_size
           /\ v' \in Objects
           /\ OnStack = OnStack' \cup {v'}
<1> DEFINE n == Len(stack)
<1>1. stack \in Seq(Objects) /\ stack # <<>> /\ n <= max_stack_size
  BY DEF TypeOK, Pop
<1>2. n \in Nat \ {0} /\ stack \in [1..n -> Objects]
  BY <1>1, EmptySeq, LenProperties
<1>3. \A i \in 1..n - 1 : stack[i] \in Objects
  BY <1>2
<1>4. /\ SubSeq(stack, 1, n - 1) \in Seq(Objects)
      /\ Len(SubSeq(stack, 1, n - 1)) = n - 1
      /\ \A i \in 1..n - 1 : SubSeq(stack, 1, n - 1)[i] = stack[i]
  <2>1. 1 \in Int /\ n - 1 \in Int
    BY <1>2
  <2>2. /\ SubSeq(stack, 1, n - 1) \in Seq(Objects)
        /\ Len(SubSeq(stack, 1, n - 1)) = IF 1 <= n - 1 THEN n - 1 - 1 + 1 ELSE 0
        /\ \A i \in 1..n - 1 - 1 + 1 : SubSeq(stack, 1, n - 1)[i] = stack[1 + i - 1]
    BY <1>3, <2>1, SubSeqProperties
  <2> QED
    BY <1>2, <2>2
<1>5. stack' = SubSeq(stack, 1, n - 1) /\ v' = stack[n]
  BY DEF Pop
<1>6. OnStack' = {stack[i] : i \in 1..n - 1}
  BY <1>2, <1>4, <1>5 DEF OnStack
<1>7. OnStack = {stack[i] : i \in 1..n - 1} \cup {stack[n]}
  BY <1>2 DEF OnStack
<1>8. max_stack_size \in Nat
  BY ConstantsAssumption
<1> QED
  BY <1>1, <1>2, <1>4, <1>5, <1>6, <1>7, <1>8

LEMMA PushFacts ==
    ASSUME TypeOK, NEW p \in Objects, push(p)
    PROVE  /\ stack' \in Seq(Objects)
           /\ Len(stack') <= max_stack_size
           /\ OnStack \subseteq OnStack'
           /\ OnStack' \subseteq OnStack \cup {p}
           /\ lost' \in BOOLEAN /\ stack_overflow' \in BOOLEAN
           /\ ~lost' => ~lost /\ p \in OnStack'
<1> DEFINE n == Len(stack)
<1>1. stack \in Seq(Objects) /\ n \in Nat /\ n <= max_stack_size
  BY LenProperties DEF TypeOK
<1>2. max_stack_size \in Nat
  BY ConstantsAssumption
<1>3. CASE n < max_stack_size
  <2>1. stack' = Append(stack, p) /\ UNCHANGED <<stack_overflow, lost>>
    BY <1>1, <1>2, <1>3 DEF push, IsFull
  <2>2. /\ stack' \in Seq(Objects)
        /\ Len(stack') = n + 1
        /\ \A i \in 1..n : stack'[i] = stack[i]
        /\ stack'[n + 1] = p
    BY <1>1, <2>1, AppendProperties
  <2>3. OnStack' = OnStack \cup {p}
    BY <1>1, <2>2 DEF OnStack
  <2>4. lost' = lost /\ stack_overflow' = stack_overflow
    BY <2>1
  <2>5. lost' \in BOOLEAN /\ stack_overflow' \in BOOLEAN
    BY <2>4 DEF TypeOK
  <2> QED
    BY <1>1, <1>2, <1>3, <2>2, <2>3, <2>4, <2>5
<1>4. CASE ~(n < max_stack_size)
  <2>1. stack' = stack /\ lost' = TRUE
        /\ stack_overflow' = (stack_overflow \/ part = "stack_map")
    BY <1>1, <1>2, <1>4 DEF push, IsFull
  <2>2. stack_overflow' \in BOOLEAN
    BY <2>1
  <2>3. OnStack' = OnStack
    BY <2>1 DEF OnStack
  <2> QED
    BY <1>1, <2>1, <2>2, <2>3
<1> QED
  BY <1>3, <1>4

LEMMA GoFacts ==
    ASSUME TypeOK, ~InGo, NEW p \in Objects, go(p)
    PROVE  /\ stack' \in Seq(Objects)
           /\ Len(stack') = 1
           /\ OnStack = {} /\ OnStack' = {p}
           /\ v' = v /\ j' = j /\ v = Null
<1>1. stack = <<>> /\ stack' = <<p>> /\ v' = v /\ j' = j /\ v = Null
  BY DEF go, InGo
<1>2. Len(stack) = 0 /\ Len(stack') = 1 /\ stack'[1] = p
  BY <1>1
<1>3. OnStack = {} /\ OnStack' = {p}
  BY <1>2 DEF OnStack
<1> QED
  BY <1>1, <1>2, <1>3
-----------------------------------------------------------------------------
(* What a running thread changes: its own roots, the fake roots, the       *)
(* fields, and the table, in which it marks nothing.                       *)
LEMMA ProgramTypes ==
    ASSUME TypeOK, NEW t \in Threads, Mutate(t) \/ Park(t)
    PROVE  /\ running' \in SUBSET Threads /\ steps' \in 0..MaxSteps
           /\ field' \in [Objects -> [1..FieldCount -> Objects \cup {Null}]]
           /\ words' \in [Threads -> SUBSET Objects]
           /\ plain' \in [Threads -> SUBSET Objects]
           /\ stack_map' \in [Threads -> SUBSET Objects]
           /\ fake_roots' \subseteq Objects
           /\ roots' \subseteq Objects /\ roots \subseteq roots'
           /\ fresh' \subseteq deref_marked
           /\ raced' \in BOOLEAN
<1> USE ConstantsAssumption
<1>1. Held(t) \subseteq Objects
  <2>1. \A o \in plain[t] : field[o] \in [1..FieldCount -> Objects \cup {Null}]
    BY DEF TypeOK
  <2>2. Within(t) \subseteq Objects
    BY <2>1 DEF Within
  <2> QED
    BY <2>2 DEF Held, TypeOK
<1>2. ASSUME Runs(t) PROVE steps' \in 0..MaxSteps /\ running' = running
  BY <1>2 DEF Runs, TypeOK
<1>3. CASE SetRoot(t)
  BY <1>1, <1>2, <1>3 DEF SetRoot, TypeOK, tableVars
<1>4. CASE SetFakeRoot(t)
  BY <1>1, <1>2, <1>4 DEF SetFakeRoot, TypeOK, tableVars
<1>5. CASE Store(t)
  <2>1. PICK o \in plain[t], i \in 1..FieldCount, p \in Held(t) \cup {Null} :
            /\ field' = [field EXCEPT ![o][i] = p]
            /\ raced' = (raced \/ (/\ Scanned(o, i)
                                   /\ p \notin marked \cup OnStack \cup {Null}))
    BY <1>5 DEF Store
  <2>2. o \in Objects /\ p \in Objects \cup {Null}
    BY <1>1 DEF TypeOK
  <2>3. field' \in [Objects -> [1..FieldCount -> Objects \cup {Null}]]
    BY <2>1, <2>2 DEF TypeOK
  <2>4. raced' \in BOOLEAN
    BY <2>1
  <2>5. /\ UNCHANGED <<plain, words, stack_map, fake_roots>>
        /\ roots' = roots /\ fresh' = fresh /\ steps' \in 0..MaxSteps
        /\ running' = running
    BY <1>2, <1>5 DEF Store, tableVars
  <2> QED
    BY <2>3, <2>4, <2>5 DEF TypeOK
<1>6. CASE Dereference(t)
  BY <1>1, <1>2, <1>6 DEF Dereference, TypeOK
<1>7. CASE Forget(t)
  BY <1>2, <1>7 DEF Forget, TypeOK, tableVars
<1>8. CASE Park(t)
  BY <1>8 DEF Park, TypeOK, graphVars, tableVars
<1> QED
  BY <1>3, <1>4, <1>5, <1>6, <1>7, <1>8 DEF Mutate

LEMMA ProgramFacts ==
    ASSUME TypeOK, NEW t \in Threads, Mutate(t) \/ Park(t)
    PROVE  /\ t \in running /\ phase = "mark" /\ phase' = "mark"
           /\ UNCHANGED <<full, began, handler, part, todo, stack_overflow,
                          stack, v, j, deref_marked, marked, pinned, lost>>
           /\ running' \subseteq running
           /\ \A h \in Threads \ {t} : /\ words'[h] = words[h]
                                       /\ plain'[h] = plain[h]
                                       /\ stack_map'[h] = stack_map[h]
<1>1. ASSUME Runs(t)
      PROVE  /\ t \in running /\ phase = "mark" /\ phase' = "mark"
             /\ UNCHANGED <<full, began, handler, part, todo, stack_overflow,
                            stack, v, j, deref_marked, marked, pinned, lost>>
             /\ running' \subseteq running
  BY <1>1 DEF Runs, walkVars, goVars, flagVars
<1>2. CASE SetRoot(t)
  BY <1>1, <1>2 DEF SetRoot, TypeOK
<1>3. CASE SetFakeRoot(t)
  BY <1>1, <1>3 DEF SetFakeRoot
<1>4. CASE Store(t)
  BY <1>1, <1>4 DEF Store
<1>5. CASE Dereference(t)
  BY <1>1, <1>5 DEF Dereference, TypeOK
<1>6. CASE Forget(t)
  BY <1>1, <1>6 DEF Forget, TypeOK
<1>7. CASE Park(t)
  BY <1>7 DEF Park, graphVars, tableVars, walkVars, goVars, flagVars
<1> QED
  BY <1>2, <1>3, <1>4, <1>5, <1>6, <1>7 DEF Mutate

(* A plain pointer of a running thread has a word and a handle.            *)
LEMMA ProgramPlain ==
    ASSUME TypeOK, NEW t \in Threads, Mutate(t) \/ Park(t),
           \A h \in Threads : plain[h] \subseteq words[h] \cap roots
    PROVE  \A h \in Threads : plain'[h] \subseteq words'[h] \cap roots'
<1>1. CASE SetRoot(t) \/ SetFakeRoot(t) \/ Store(t) \/ Park(t)
  BY <1>1 DEF SetRoot, SetFakeRoot, Store, Park, graphVars, tableVars
<1>2. CASE Dereference(t)
  BY <1>2 DEF Dereference, TypeOK
<1>3. CASE Forget(t)
  <2>1. PICK p \in plain[t] :
            /\ plain' = [plain EXCEPT ![t] = @ \ {p}]
            /\ words' \in {words, [words EXCEPT ![t] = @ \ {p}]}
    BY <1>3 DEF Forget
  <2>2. roots' = roots
    BY <1>3 DEF Forget, tableVars
  <2>3. /\ plain'[t] = plain[t] \ {p} /\ words[t] \ {p} \subseteq words'[t]
        /\ \A h \in Threads \ {t} : plain'[h] = plain[h] /\ words'[h] = words[h]
    BY <2>1 DEF TypeOK
  <2> QED
    BY <2>2, <2>3
<1> QED
  BY <1>1, <1>2, <1>3 DEF Mutate
-----------------------------------------------------------------------------
LEMMA TypeInit == Init => TypeOK /\ Position
<1> SUFFICES ASSUME Init PROVE TypeOK /\ Position
  OBVIOUS
<1>1. stack \in Seq(Objects) /\ Len(stack) = 0
  BY EmptySeq DEF Init
<1>2. /\ words \in [Threads -> SUBSET Objects] /\ stack_map \in [Threads -> SUBSET Objects]
      /\ fake_roots \subseteq Objects /\ roots \subseteq Objects
      /\ field \in [Objects -> [1..FieldCount -> Objects \cup {Null}]]
      /\ running \in SUBSET Threads
  BY ConstantsAssumption DEF Init
<1>3. plain \in [Threads -> SUBSET Objects]
  BY <1>2 DEF Init
<1>4. /\ 1 \in Threads /\ 1 \in 1..HandlerCount + 1 /\ 1 \in 1..FieldCount
      /\ 0 <= max_stack_size /\ 0 \in 0..MaxSteps
  BY ConstantsAssumption DEF Threads
<1>5. full \in BOOLEAN
  BY DEF Init
<1>6. began \subseteq Objects
  BY DEF Init, Reachable
<1>7. Position
  BY ConstantsAssumption DEF Init, Position
<1> QED
  BY <1>1, <1>2, <1>3, <1>4, <1>5, <1>6, <1>7 DEF Init, TypeOK

LEMMA TypeStep == TypeOK /\ Position /\ [Next]_vars => TypeOK' /\ Position'
<1> SUFFICES ASSUME TypeOK, Position, [Next]_vars PROVE TypeOK' /\ Position'
  OBVIOUS
<1> USE ConstantsAssumption DEF inputVars, graphVars, threadVars, tableVars
<1>1. ASSUME NEW p \in Objects, mark_dereferenced_root(p) PROVE TypeOK' /\ Position'
  <2>1. CASE Selects(p) /\ full
    <3>1. go(p) /\ pinned' = pinned \cup {p} /\ deref_marked' = deref_marked \cup {p}
      BY <1>1, <2>1 DEF mark_dereferenced_root
    <3>2. ~InGo
      BY <1>1 DEF mark_dereferenced_root, Walking
    <3>3. stack' \in Seq(Objects) /\ Len(stack') = 1 /\ v' = v /\ j' = j
      BY <3>1, <3>2, GoFacts
    <3>4. p \in roots /\ fresh' \subseteq deref_marked'
      BY <1>1, <2>1, <3>1 DEF mark_dereferenced_root, Selects, TypeOK
    <3> QED
      BY <1>1, <3>1, <3>3, <3>4 DEF TypeOK, Position, mark_dereferenced_root
  <2>2. CASE ~(Selects(p) /\ full)
    <3>1. UNCHANGED <<goVars, pinned>>
      BY <1>1, <2>2 DEF mark_dereferenced_root
    <3>2. \/ deref_marked' = deref_marked /\ fresh' = fresh
          \/ /\ p \in roots
             /\ deref_marked' = deref_marked \cup {p} /\ fresh' = fresh \ {p}
      BY <1>1, <2>2 DEF mark_dereferenced_root, Selects, TypeOK
    <3> QED
      BY <1>1, <3>1, <3>2 DEF TypeOK, Position, mark_dereferenced_root, goVars
  <2> QED
    BY <2>1, <2>2
<1>2. ASSUME NEW p \in Objects, mark_root(p) PROVE TypeOK' /\ Position'
  <2>1. go(p) /\ ~InGo
    BY <1>2 DEF mark_root, Walking
  <2>2. stack' \in Seq(Objects) /\ Len(stack') = 1 /\ v' = v /\ j' = j
    BY <2>1, GoFacts
  <2> QED
    BY <1>2, <2>2 DEF TypeOK, Position, mark_root, flagVars
<1>3. ASSUME Pop PROVE TypeOK' /\ Position'
  BY <1>3, PopFacts DEF TypeOK, Position, Pop, walkVars
<1>4. ASSUME ScanField PROVE TypeOK' /\ Position'
  <2>1. v \in Objects /\ j \in 1..FieldCount /\ field[v][j] \in Objects \cup {Null}
    BY <1>4 DEF TypeOK, ScanField
  <2>2. v' \in Objects \cup {Null} /\ j' \in 1..FieldCount
    BY <1>4, <2>1 DEF TypeOK, ScanField, NextField
  <2>3. stack' \in Seq(Objects) /\ Len(stack') <= max_stack_size
        /\ lost' \in BOOLEAN /\ stack_overflow' \in BOOLEAN
    <3>1. CASE ToVisit(field[v][j])
      <4>1. push(field[v][j]) /\ field[v][j] \in Objects
        BY <1>4, <2>1, <3>1 DEF ScanField, ToVisit
      <4> QED
        BY <4>1, PushFacts
    <3>2. CASE ~ToVisit(field[v][j])
      <4>1. stack' = stack /\ lost' = lost /\ stack_overflow' = stack_overflow
        BY <1>4, <3>2 DEF ScanField
      <4>2. lost \in BOOLEAN /\ stack_overflow \in BOOLEAN /\ stack \in Seq(Objects)
            /\ Len(stack) <= max_stack_size
        BY DEF TypeOK
      <4>3. lost' \in BOOLEAN
        BY <4>1, <4>2
      <4>4. stack_overflow' \in BOOLEAN
        BY <4>1, <4>2
      <4> QED
        BY <4>1, <4>2, <4>3, <4>4
    <3> QED
      BY <3>1, <3>2
  <2> QED
    BY <1>4, <2>2, <2>3 DEF TypeOK, Position, ScanField, walkVars
<1>5. ASSUME Arrive PROVE TypeOK' /\ Position'
  <2>1. handler \in Threads
    BY <1>5 DEF TypeOK, Position, Arrive, Walking, Threads
  <2> QED
    BY <1>5, <2>1 DEF TypeOK, Position, Arrive, Walking, goVars, flagVars
<1>6. ASSUME WordsDone \/ StackMapDone PROVE TypeOK' /\ Position'
  <2>1. handler \in Threads
    BY <1>6 DEF TypeOK, Position, WordsDone, StackMapDone, Walking, Threads
  <2>2. todo' \subseteq Objects
    BY <1>6, <2>1 DEF TypeOK, WordsDone, StackMapDone, NextHandler, Threads
  <2>3. handler' \in 1..HandlerCount + 1 /\ part' \in {"wait", "stack_map", "fake"}
    BY <1>6, <2>1 DEF WordsDone, StackMapDone, NextHandler, Threads
  <2>4. Position'
    BY <1>6, <2>1 DEF Position, WordsDone, StackMapDone, NextHandler, Walking, Threads
  <2>5. stack_overflow' \in BOOLEAN
    BY <1>6 DEF WordsDone, StackMapDone, TypeOK
  <2> QED
    BY <1>6, <2>2, <2>3, <2>4, <2>5 DEF TypeOK, WordsDone, StackMapDone, goVars, flagVars
<1>7. ASSUME mark_after_overflow PROVE TypeOK' /\ Position'
  <2>1. /\ field' \in [Objects -> [1..FieldCount -> Objects \cup {Null}]]
        /\ steps' \in 0..MaxSteps
    <3>1. CASE Damage
      BY <3>1 DEF Damage, TypeOK
    <3>2. CASE UNCHANGED <<field, steps>>
      BY <3>2 DEF TypeOK
    <3> QED
      BY <1>7, <3>1, <3>2 DEF mark_after_overflow
  <2>2. marked' \subseteq Objects /\ stack_overflow' \in BOOLEAN
        /\ phase' \in {"mark", "crashed"}
    <3>1. phase = "mark" /\ stack_overflow
      BY <1>7 DEF mark_after_overflow, Walking
    <3> QED
      BY <1>7, <3>1 DEF mark_after_overflow, TypeOK
  <2> QED
    BY <1>7, <2>1, <2>2 DEF TypeOK, Position, mark_after_overflow, goVars, walkVars
<1>8. ASSUME sweep_dereferenced_roots PROVE TypeOK' /\ Position'
  BY <1>8 DEF TypeOK, Position, sweep_dereferenced_roots, goVars, flagVars, walkVars, Kept
<1>9. ASSUME UNCHANGED vars PROVE TypeOK' /\ Position'
  BY <1>9 DEF TypeOK, Position, vars, goVars, flagVars, walkVars
<1>10. ASSUME NEW t \in Threads, Mutate(t) \/ Park(t) PROVE TypeOK' /\ Position'
  <2>1. /\ UNCHANGED <<full, began, handler, part, todo, stack_overflow, stack,
                       v, j, deref_marked, marked, pinned, lost>>
        /\ phase' = "mark"
    BY <1>10, ProgramFacts
  <2>2. Position'
    BY <2>1 DEF Position
  <2>3. lost' \in BOOLEAN /\ full' \in BOOLEAN /\ stack_overflow' \in BOOLEAN
    BY <2>1, Zenon DEF TypeOK
  <2>4. TypeOK'
    BY <1>10, <2>1, <2>3, ProgramTypes DEF TypeOK
  <2> QED
    BY <2>2, <2>4
<1> QED
  BY <1>1, <1>2, <1>3, <1>4, <1>5, <1>6, <1>7, <1>8, <1>9, <1>10 DEF Next, Collect

(* The variables keep their types, and the mark stack its bound.           *)
THEOREM TypeCorrect == Spec => []TypeOK
<1>1. Spec => [](TypeOK /\ Position)
  BY TypeInit, TypeStep, PTL DEF Spec
<1> QED
  BY <1>1, PTL
-----------------------------------------------------------------------------
\* The contents of the mark stack after a scan step, in the form in which the
\* invariants need them.
LEMMA ScanFacts ==
    ASSUME TypeOK, ScanField
    PROVE  /\ OnStack \subseteq OnStack'
           /\ OnStack' \subseteq OnStack \cup ({field[v][j]} \ {Null})
           /\ ~lost' => ~lost /\ field[v][j] \in marked \cup OnStack' \cup {Null}
<1>1. v \in Objects /\ j \in 1..FieldCount /\ field[v][j] \in Objects \cup {Null}
  <2>1. v \in Objects /\ j \in 1..FieldCount
    BY DEF TypeOK, ScanField
  <2>2. field[v] \in [1..FieldCount -> Objects \cup {Null}]
    BY <2>1 DEF TypeOK
  <2> QED BY <2>1, <2>2
<1>2. CASE ToVisit(field[v][j])
  <2>1. push(field[v][j]) /\ field[v][j] \in Objects /\ field[v][j] # Null
    BY <1>1, <1>2 DEF ScanField, ToVisit
  <2> QED
    BY <2>1, PushFacts
<1>3. CASE ~ToVisit(field[v][j])
  <2>1. stack' = stack /\ lost' = lost
    BY <1>3 DEF ScanField
  <2> QED
    BY <1>3, <2>1 DEF OnStack, ToVisit
<1> QED
  BY <1>2, <1>3

\* go() is started with an empty mark stack, or not at all.
LEMMA HandleStart ==
    ASSUME TypeOK, NEW p \in Objects, mark_dereferenced_root(p)
    PROVE  /\ v = Null /\ v' = Null /\ OnStack = {}
           /\ \/ /\ full /\ p \in roots
                 /\ OnStack' = {p}
                 /\ deref_marked' = deref_marked \cup {p}
                 /\ pinned' = pinned \cup {p}
              \/ /\ ~full
                 /\ stack' = stack /\ OnStack' = {}
                 /\ deref_marked' = deref_marked \cup ({p} \cap roots)
                 /\ pinned' = pinned
              \/ /\ p \notin roots \ deref_marked
                 /\ stack' = stack /\ OnStack' = {}
                 /\ deref_marked' = deref_marked
                 /\ pinned' = pinned
<1>1. ~InGo
  BY DEF mark_dereferenced_root, Walking
<1>2. stack = <<>> /\ v = Null /\ OnStack = {}
  BY <1>1 DEF InGo, OnStack
<1>3. CASE Selects(p) /\ full
  <2>1. go(p)
    BY <1>3 DEF mark_dereferenced_root
  <2>2. v' = v /\ OnStack' = {p}
    BY <1>1, <2>1, GoFacts
  <2> QED
    BY <1>2, <1>3, <2>2 DEF mark_dereferenced_root, Selects, TypeOK
<1>4. CASE Selects(p) /\ ~full
  <2>1. stack' = stack /\ v' = v /\ p \in roots
        /\ deref_marked' = deref_marked \cup {p} /\ pinned' = pinned
    BY <1>4 DEF mark_dereferenced_root, Selects, goVars, TypeOK
  <2> QED
    BY <1>2, <1>4, <2>1 DEF OnStack
<1>5. CASE ~Selects(p)
  <2>1. stack' = stack /\ v' = v /\ deref_marked' = deref_marked /\ pinned' = pinned
    BY <1>5 DEF mark_dereferenced_root, goVars
  <2> QED
    BY <1>2, <1>5, <2>1 DEF OnStack, Selects
<1> QED
  BY <1>3, <1>4, <1>5

LEMMA RootStart ==
    ASSUME TypeOK, NEW p \in Objects, mark_root(p)
    PROVE  v = Null /\ v' = Null /\ OnStack = {} /\ OnStack' = {p}
<1>1. ~InGo /\ go(p)
  BY DEF mark_root, Walking
<1> QED
  BY <1>1, GoFacts
-----------------------------------------------------------------------------
LEMMA TriColourStep ==
    ASSUME TypeOK, Walk, TriColour, [Next]_vars
    PROVE  TriColour'
<1> USE DEF Scanned, inputVars, graphVars, threadVars
<1>1. ASSUME NEW p \in Objects, mark_dereferenced_root(p) PROVE TriColour'
  <2>1. v = Null /\ v' = Null /\ OnStack = {} /\ OnStack \subseteq OnStack'
    BY <1>1, HandleStart
  <2>2. marked' = marked /\ field' = field /\ lost' = lost /\ raced' = raced
    BY <1>1 DEF mark_dereferenced_root
  <2>3. Null \notin marked
    BY ConstantsAssumption DEF TypeOK
  <2> QED
    BY <2>1, <2>2, <2>3 DEF TriColour
<1>2. ASSUME NEW p \in Objects, mark_root(p) PROVE TriColour'
  <2>1. v = Null /\ v' = Null /\ OnStack = {} /\ OnStack \subseteq OnStack'
    BY <1>2, RootStart
  <2>2. marked' = marked /\ field' = field /\ lost' = lost /\ raced' = raced
    BY <1>2 DEF mark_root, flagVars
  <2>3. Null \notin marked
    BY ConstantsAssumption DEF TypeOK
  <2> QED
    BY <2>1, <2>2, <2>3 DEF TriColour
<1>3. ASSUME Pop PROVE TriColour'
  <2>1. OnStack = OnStack' \cup {v'}
    BY <1>3, PopFacts
  <2>2. v = Null /\ j' = 1 /\ marked' = marked \cup {v'} /\ field' = field /\ lost' = lost /\ raced' = raced
    BY <1>3 DEF Pop
  <2>3. Null \notin marked
    BY ConstantsAssumption DEF TypeOK
  <2> QED
    BY <2>1, <2>2, <2>3 DEF TriColour
<1>4. ASSUME ScanField PROVE TriColour'
  <2> SUFFICES ASSUME ~lost', ~raced', NEW o \in Objects, NEW i \in 1..FieldCount,
                      Scanned(o, i)'
               PROVE  field'[o][i] \in marked' \cup OnStack' \cup {Null}
    BY DEF TriColour
  <2>1. marked' = marked /\ field' = field /\ raced' = raced /\ o \in marked
    BY <1>4 DEF ScanField
  <2>2. ~lost /\ OnStack \subseteq OnStack'
        /\ field[v][j] \in marked \cup OnStack' \cup {Null}
    BY <1>4, ScanFacts
  <2>3. j \in 1..FieldCount /\ FieldCount \in Nat
    BY ConstantsAssumption DEF TypeOK
  <2>4. CASE o = v /\ i = j
    BY <2>1, <2>2, <2>4
  <2>5. CASE o = v /\ i # j
    <3>1. i < j
      BY <1>4, <2>3, <2>5 DEF ScanField, NextField
    <3> QED
      BY <2>1, <2>2, <2>5, <3>1 DEF TriColour
  <2>6. CASE o # v
    BY <2>1, <2>2, <2>6 DEF TriColour
  <2> QED
    BY <2>4, <2>5, <2>6
<1>5. ASSUME mark_after_overflow PROVE TriColour'
  <2>1. lost'
    BY <1>5 DEF mark_after_overflow, Walk
  <2> QED
    BY <2>1 DEF TriColour
<1>6. CASE Arrive \/ WordsDone \/ StackMapDone \/ sweep_dereferenced_roots
           \/ UNCHANGED vars
  <2>1. stack' = stack /\ v' = v /\ j' = j /\ marked' = marked /\ field' = field
        /\ lost' = lost /\ raced' = raced
    BY <1>6 DEF Arrive, WordsDone, StackMapDone, sweep_dereferenced_roots, vars,
                goVars, flagVars
  <2> QED
    BY <2>1 DEF TriColour, OnStack
<1>7. ASSUME NEW t \in Threads, Mutate(t) \/ Park(t) PROVE TriColour'
  <2>1. /\ UNCHANGED <<stack, v, j, marked, lost>>
        /\ OnStack' = OnStack
    BY <1>7, ProgramFacts DEF OnStack
  <2>2. CASE Store(t)
    <3>1. PICK o \in plain[t], i \in 1..FieldCount, p \in Held(t) \cup {Null} :
              /\ field' = [field EXCEPT ![o][i] = p]
              /\ raced' = (raced \/ (/\ Scanned(o, i)
                                     /\ p \notin marked \cup OnStack \cup {Null}))
      BY <2>2 DEF Store
    <3> SUFFICES ASSUME ~lost, ~raced', NEW q \in Objects, NEW k \in 1..FieldCount,
                        Scanned(q, k)
                 PROVE  field'[q][k] \in marked \cup OnStack \cup {Null}
      BY <2>1 DEF TriColour
    <3>2. ~raced /\ field[q][k] \in marked \cup OnStack \cup {Null}
      BY <3>1 DEF TriColour
    <3>3. CASE q = o /\ k = i
      BY <3>1, <3>3 DEF TypeOK
    <3>4. CASE ~(q = o /\ k = i)
      BY <3>1, <3>2, <3>4 DEF TypeOK
    <3> QED
      BY <3>3, <3>4
  <2>3. CASE ~Store(t)
    <3>1. field' = field /\ raced' = raced
      BY <1>7, <2>3 DEF Mutate, SetRoot, SetFakeRoot, Dereference, Forget, Park
    <3> QED
      BY <2>1, <3>1 DEF TriColour
  <2> QED
    BY <2>2, <2>3
<1> QED
  BY <1>1, <1>2, <1>3, <1>4, <1>5, <1>6, <1>7 DEF Next, Collect
-----------------------------------------------------------------------------
LEMMA WalkStep ==
    ASSUME TypeOK, Position, Walk, [Next]_vars
    PROVE  Walk'
<1> USE DEF inputVars, graphVars, threadVars
<1>1. ASSUME NEW p \in Objects, mark_dereferenced_root(p) PROVE Walk'
  <2>1. ~full => stack' = stack
    BY <1>1, HandleStart DEF mark_dereferenced_root, goVars
  <2>2. v = Null /\ v' = Null
    BY <1>1, HandleStart
  <2> QED
    BY <1>1, <2>1, <2>2 DEF Walk, mark_dereferenced_root, Walking
<1>2. ASSUME NEW p \in Objects, mark_root(p) PROVE Walk'
  <2>1. full
    BY <1>2 DEF Walk, mark_root, Walking
  <2> QED
    BY <1>2, <2>1 DEF Walk, mark_root, Walking, flagVars
<1>3. ASSUME Pop PROVE Walk'
  BY <1>3 DEF Walk, Pop, walkVars
<1>4. ASSUME ScanField PROVE Walk'
  <2>1. full /\ stack_overflow \in BOOLEAN
    BY <1>4 DEF Walk, ScanField, TypeOK
  <2>2. stack_overflow' => lost'
    BY <1>4, <2>1 DEF Walk, ScanField, push
  <2> QED
    BY <1>4, <2>1, <2>2 DEF Walk, ScanField, walkVars
<1>5. ASSUME Arrive PROVE Walk'
  BY <1>5 DEF Walk, Arrive, Walking, goVars, flagVars, thread_in_safepoint
<1>6. ASSUME WordsDone \/ StackMapDone PROVE Walk'
  <2>1. handler \in Threads /\ handler \in Nat /\ handler \notin running
    BY <1>6, ConstantsAssumption DEF Walk, WordsDone, StackMapDone, Walking, TypeOK,
       Position, Threads
  <2>2. handler' \in {handler, handler + 1}
    BY <1>6 DEF WordsDone, StackMapDone, NextHandler
  <2>3. \A h \in Threads : h < handler' => h < handler \/ h = handler
    BY <2>1, <2>2 DEF Threads
  <2> QED
    BY <1>6, <2>1, <2>3 DEF Walk, WordsDone, StackMapDone, NextHandler, Walking,
       goVars, flagVars
<1>7. ASSUME mark_after_overflow PROVE Walk'
  <2>1. full /\ lost' /\ part = "stack_map"
    BY <1>7 DEF Walk, mark_after_overflow, Walking
  <2> QED
    BY <1>7, <2>1 DEF Walk, mark_after_overflow, goVars, walkVars
<1>8. ASSUME sweep_dereferenced_roots PROVE Walk'
  BY <1>8 DEF Walk, sweep_dereferenced_roots, Walking, goVars, flagVars, walkVars
<1>9. ASSUME UNCHANGED vars PROVE Walk'
  BY <1>9 DEF Walk, vars, goVars, flagVars, walkVars
<1>10. ASSUME NEW t \in Threads, Mutate(t) \/ Park(t) PROVE Walk'
  <2>1. /\ t \in running
        /\ UNCHANGED <<full, handler, part, todo, stack_overflow, stack, v, marked,
                       lost>>
        /\ running' \subseteq running
        /\ \A h \in Threads \ {t} : /\ words'[h] = words[h]
                                    /\ stack_map'[h] = stack_map[h]
    BY <1>10, ProgramFacts
  <2>2. part \in {"words", "stack_map"} => handler \in Threads \ {t}
    BY <2>1, ConstantsAssumption DEF Walk, TypeOK, Position, Threads
  <2>3. part # "fake"
    BY <2>1, ConstantsAssumption DEF Walk, Position, Threads
  <2> QED
    BY <2>1, <2>2, <2>3 DEF Walk
<1> QED
  BY <1>1, <1>2, <1>3, <1>4, <1>5, <1>6, <1>7, <1>8, <1>9, <1>10 DEF Next, Collect

LEMMA HandleMarksStep ==
    ASSUME TypeOK, Position, Walk, HandleMarks, [Next]_vars
    PROVE  HandleMarks'
<1> USE DEF inputVars, graphVars, threadVars
<1>1. ASSUME NEW p \in Objects, mark_dereferenced_root(p) PROVE HandleMarks'
  <2>1. /\ phase = "mark" /\ phase' = "mark" /\ part = "words" /\ part' = "words"
        /\ UNCHANGED <<handler, words, plain, roots, full, running>>
        /\ p \in todo /\ todo' = todo \ {p}
    BY <1>1 DEF mark_dereferenced_root, Walking
  <2>2. handler \in Threads /\ handler \notin running
    BY <2>1, ConstantsAssumption DEF TypeOK, Walk, Position, Threads
  <2>3. p \in AllWords /\ AllWords' = AllWords
    BY <2>1, <2>2 DEF Walk, AllWords
  <2>4. \/ /\ p \in roots /\ deref_marked' = deref_marked \cup {p}
           /\ pinned' = IF full THEN pinned \cup {p} ELSE pinned
        \/ /\ ~full /\ deref_marked' = deref_marked \cup ({p} \cap roots)
           /\ pinned' = pinned
        \/ /\ p \notin roots \ deref_marked
           /\ deref_marked' = deref_marked /\ pinned' = pinned
    BY <1>1, HandleStart
  <2>5. \A h \in Threads : plain[h] \subseteq words[h] \cap roots
    BY <2>1 DEF HandleMarks
  <2>6. plain[handler] \subseteq roots
    BY <2>2, <2>5
  <2> QED
    BY <2>1, <2>3, <2>4, <2>5, <2>6 DEF HandleMarks
<1>2. ASSUME NEW p \in Objects, mark_root(p) PROVE HandleMarks'
  <2>1. part # "words"
    BY <1>2 DEF mark_root, Walking
  <2> QED
    BY <1>2, <2>1 DEF HandleMarks, AllWords, mark_root, Walking, tableVars, flagVars
<1>3. ASSUME Arrive PROVE HandleMarks'
  <2>1. handler \in Threads /\ phase = "mark"
    BY <1>3, ConstantsAssumption DEF Arrive, Walking, TypeOK, Position, Threads
  <2>2. plain[handler] \subseteq words[handler]
    BY <2>1 DEF HandleMarks
  <2>3. part' = "words" /\ todo' = words[handler] /\ handler' = handler
    BY <1>3 DEF Arrive
  <2>4. /\ UNCHANGED <<full, words, plain, roots, deref_marked, pinned, phase>>
        /\ AllWords' = AllWords
    BY <1>3 DEF Arrive, tableVars, flagVars, AllWords
  <2> QED
    BY <2>1, <2>2, <2>3, <2>4 DEF HandleMarks
<1>4. ASSUME WordsDone \/ StackMapDone PROVE HandleMarks'
  <2>1. handler \in Threads /\ handler \in Nat /\ phase = "mark"
    BY <1>4, ConstantsAssumption DEF WordsDone, StackMapDone, Walking, TypeOK,
       Position, Threads
  <2>2. plain[handler] \subseteq deref_marked
    BY <1>4 DEF WordsDone, StackMapDone, Walking, HandleMarks
  <2>3. /\ UNCHANGED <<full, words, plain, roots, deref_marked, pinned, phase>>
        /\ AllWords' = AllWords
    BY <1>4 DEF WordsDone, StackMapDone, tableVars, flagVars, AllWords
  <2>4. handler' \in {handler, handler + 1} /\ part' # "words"
        /\ (part' = "stack_map" => handler' = handler)
    BY <1>4 DEF WordsDone, StackMapDone, NextHandler
  <2>5. \A h \in Threads : h < handler' => h < handler \/ h = handler
    BY <2>1, <2>4 DEF Threads
  <2> QED
    BY <2>1, <2>2, <2>3, <2>4, <2>5 DEF HandleMarks
<1>5. ASSUME sweep_dereferenced_roots PROVE HandleMarks'
  BY <1>5 DEF sweep_dereferenced_roots, HandleMarks
<1>6. ASSUME Pop \/ ScanField \/ mark_after_overflow \/ UNCHANGED vars
      PROVE  HandleMarks'
  <2>1. /\ UNCHANGED <<full, running, words, plain, roots, handler, part, todo,
                       deref_marked, pinned>>
        /\ (phase' # "done" => phase # "done")
        /\ AllWords' = AllWords
    BY <1>6 DEF Pop, ScanField, mark_after_overflow, Walking, vars, walkVars,
                flagVars, tableVars, AllWords
  <2> QED
    BY <2>1 DEF HandleMarks
<1>7. ASSUME NEW t \in Threads, Mutate(t) \/ Park(t) PROVE HandleMarks'
  <2>1. /\ t \in running /\ phase = "mark" /\ running' \subseteq running
        /\ UNCHANGED <<full, handler, part, todo, deref_marked, pinned>>
        /\ \A h \in Threads \ {t} : words'[h] = words[h] /\ plain'[h] = plain[h]
    BY <1>7, ProgramFacts
  <2>2. \A h \in Threads : plain'[h] \subseteq words'[h] \cap roots'
    BY <1>7, <2>1, ProgramPlain DEF HandleMarks
  <2>3. AllWords \subseteq AllWords'
    BY <2>1 DEF AllWords
  <2>4. part \in {"words", "stack_map"} => handler \in Threads \ {t}
    BY <2>1, ConstantsAssumption DEF Walk, TypeOK, Position, Threads
  <2>5. \A h \in Threads : h < handler => h # t
    BY <2>1 DEF Walk
  <2> QED
    BY <2>1, <2>2, <2>3, <2>4, <2>5 DEF HandleMarks
<1> QED
  BY <1>1, <1>2, <1>3, <1>4, <1>5, <1>6, <1>7 DEF Next, Collect

\* At the end of the walk every thread stands still, and the words of all
\* have been looked up.
LEMMA AllLookedUp ==
    ASSUME Position, TypeOK, Walk, HandleMarks, phase # "done", part = "fake"
    PROVE  /\ \A h \in Threads : h \notin running /\ plain[h] \subseteq deref_marked
           /\ InUse \subseteq deref_marked
           /\ deref_marked \subseteq Mentioned
<1>1. \A h \in Threads : h < handler
  BY ConstantsAssumption DEF Position, Threads
<1>2. \A h \in Threads : h \notin running /\ plain[h] \subseteq deref_marked
  BY <1>1 DEF HandleMarks, Walk
<1>3. deref_marked \subseteq UNION {words[h] : h \in Threads} /\ deref_marked \subseteq roots
  BY DEF HandleMarks, AllWords, TypeOK
<1> QED
  BY <1>2, <1>3 DEF InUse, Mentioned

HandleInv == TypeOK /\ Position /\ Walk /\ HandleMarks

LEMMA HandleInvariant == Spec => []HandleInv
<1>1. Init => HandleInv
  <2>1. ASSUME Init PROVE Walk /\ HandleMarks
    <3>1. \A h \in Threads : ~(h < 1)
      BY DEF Threads
    <3> QED
      BY <2>1, <3>1 DEF Init, Walk, HandleMarks
  <2> QED
    BY <2>1, TypeInit DEF HandleInv
<1>2. HandleInv /\ [Next]_vars => HandleInv'
  BY TypeStep, WalkStep, HandleMarksStep DEF HandleInv
<1> QED
  BY <1>1, <1>2, PTL DEF Spec

(* The invariant of go(): until a push has failed or a running thread has  *)
(* stored an object behind the walk, no gc_ptr already read of a marked    *)
(* object leads to an object that will be missed (go.cpp:100-153).         *)
THEOREM TriColourKept == Spec => []TriColour
<1>1. Init => TriColour
  BY ConstantsAssumption DEF Init, TriColour, Scanned
<1>2. HandleInv /\ TriColour /\ [Next]_vars => TriColour'
  BY TriColourStep DEF HandleInv
<1> QED
  BY <1>1, <1>2, HandleInvariant, PTL DEF Spec

(* The objects behind the plain pointers in use are pinned, and besides    *)
(* these only objects with a handle and a word on a thread's stack, in     *)
(* whatever order the threads are walked, whatever has marked the objects  *)
(* before and whatever other threads do meanwhile (go.cpp:108-110).        *)
THEOREM PinsCorrect == Spec => []PinExact
<1>1. HandleInv => PinExact
  <2> SUFFICES ASSUME HandleInv PROVE PinExact
    OBVIOUS
  <2>1. ~full => marked = {}
    BY DEF HandleInv, Walk
  <2>2. AtSweep => InUse \subseteq deref_marked /\ deref_marked \subseteq Mentioned
    BY AllLookedUp DEF HandleInv, AtSweep, Walking
  <2>3. AtSweep => pinned = IF full THEN deref_marked ELSE {}
    BY DEF HandleInv, HandleMarks, AtSweep, Walking
  <2> QED
    BY <2>1, <2>2, <2>3 DEF PinExact
<1> QED
  BY <1>1, HandleInvariant, PTL

(* No handle that some thread may still use is lost, none that no stack    *)
(* mentions is kept, and the next collection finds the mark bits reset     *)
(* (deref_roots.cpp:87-110).                                               *)
THEOREM HandlesCorrect == Spec => HandlesExact
<1>1. HandleInv /\ [Next]_vars =>
        [phase' = "done" =>
             /\ InUse \subseteq roots'
             /\ roots' \subseteq Mentioned
             /\ deref_marked' = {}]_vars
  <2> SUFFICES ASSUME HandleInv, Next, phase' = "done", vars' # vars
               PROVE  /\ InUse \subseteq roots'
                      /\ roots' \subseteq Mentioned
                      /\ deref_marked' = {}
    OBVIOUS
  <2>1. \A t \in Threads : ~(Mutate(t) \/ Park(t))
    BY ProgramFacts DEF HandleInv
  <2>2. Collect
    BY <2>1 DEF Next
  <2>3. sweep_dereferenced_roots
    BY <2>2 DEF Collect, mark_dereferenced_root, mark_root, Pop, ScanField, Arrive,
           WordsDone, StackMapDone, mark_after_overflow, Walking
  <2>4. roots' = {p \in roots : p \in deref_marked} /\ deref_marked' = {}
        /\ phase = "mark" /\ part = "fake"
    BY <2>3 DEF sweep_dereferenced_roots, Walking, Kept
  <2>5. InUse \subseteq deref_marked /\ deref_marked \subseteq Mentioned
        /\ deref_marked \subseteq roots
    BY <2>4, AllLookedUp DEF HandleInv, TypeOK
  <2> QED
    BY <2>4, <2>5
<1> QED
  BY <1>1, HandleInvariant, PTL DEF Spec, HandlesExact
-----------------------------------------------------------------------------
\* What is seen stays seen.
LEMMA SeenGrows ==
    ASSUME TypeOK, [Next]_vars
    PROVE  Seen \subseteq Seen'
<1>1. ASSUME NEW p \in Objects, mark_dereferenced_root(p) PROVE Seen \subseteq Seen'
  <2>1. OnStack = {} /\ marked' = marked
    BY <1>1, HandleStart DEF mark_dereferenced_root
  <2> QED
    BY <2>1 DEF Seen
<1>2. ASSUME NEW p \in Objects, mark_root(p) PROVE Seen \subseteq Seen'
  <2>1. OnStack = {} /\ marked' = marked
    BY <1>2, RootStart DEF mark_root, flagVars
  <2> QED
    BY <2>1 DEF Seen
<1>3. ASSUME Pop PROVE Seen \subseteq Seen'
  <2>1. OnStack = OnStack' \cup {v'} /\ marked' = marked \cup {v'}
    BY <1>3, PopFacts DEF Pop
  <2> QED
    BY <2>1 DEF Seen
<1>4. ASSUME ScanField PROVE Seen \subseteq Seen'
  <2>1. OnStack \subseteq OnStack' /\ marked' = marked
    BY <1>4, ScanFacts DEF ScanField
  <2> QED
    BY <2>1 DEF Seen
<1>5. CASE mark_after_overflow
  <2>1. stack' = stack /\ marked \subseteq marked'
    BY <1>5 DEF mark_after_overflow, goVars
  <2> QED
    BY <2>1 DEF Seen, OnStack
<1>6. CASE Arrive \/ WordsDone \/ StackMapDone \/ sweep_dereferenced_roots
           \/ UNCHANGED vars
  <2>1. stack' = stack /\ marked' = marked
    BY <1>6 DEF Arrive, WordsDone, StackMapDone, sweep_dereferenced_roots, vars,
                goVars, flagVars
  <2> QED
    BY <2>1 DEF Seen, OnStack
<1>7. ASSUME NEW t \in Threads, Mutate(t) \/ Park(t) PROVE Seen \subseteq Seen'
  <2>1. stack' = stack /\ marked' = marked
    BY <1>7, ProgramFacts
  <2> QED
    BY <2>1 DEF Seen, OnStack
<1> QED
  BY <1>1, <1>2, <1>3, <1>4, <1>5, <1>6, <1>7 DEF Next, Collect

LEMMA RootsSeenStep ==
    ASSUME HandleInv, RootsSeen, [Next]_vars
    PROVE  RootsSeen'
<1> USE DEF HandleInv, inputVars, graphVars
<1>0. Seen \subseteq Seen'
  BY SeenGrows
<1>1. ASSUME NEW p \in Objects, mark_dereferenced_root(p) PROVE RootsSeen'
  <2>1. /\ phase' = "mark" /\ part = "words" /\ part' = "words"
        /\ UNCHANGED <<handler, full, stack_map, fake_roots>>
    BY <1>1 DEF mark_dereferenced_root, Walking
  <2>2. full => \/ deref_marked' = deref_marked
                \/ deref_marked' = deref_marked \cup {p} /\ OnStack' = {p}
    <3>1. TypeOK
      OBVIOUS
    <3> QED
      BY <1>1, <3>1, HandleStart
  <2>3. OnStack' \subseteq Seen'
    BY DEF Seen
  <2> QED
    BY <1>0, <2>1, <2>2, <2>3 DEF RootsSeen
<1>2. ASSUME NEW p \in Objects, mark_root(p) PROVE RootsSeen'
  <2>1. /\ phase' = "mark" /\ part' = part /\ todo' = todo \ {p}
        /\ UNCHANGED <<handler, full, stack_map, fake_roots, deref_marked>>
    BY <1>2 DEF mark_root, Walking
  <2>2. p \in Seen'
    BY <1>2, RootStart DEF Seen
  <2> QED
    BY <1>0, <2>1, <2>2 DEF RootsSeen
<1>3. ASSUME WordsDone PROVE RootsSeen'
  <2>1. CASE full
    <3>1. /\ part' = "stack_map" /\ todo' = stack_map[handler]
          /\ UNCHANGED <<handler, full, stack_map, fake_roots, deref_marked>>
      BY <1>3, <2>1 DEF WordsDone
    <3> QED
      BY <1>0, <3>1 DEF RootsSeen
  <2>2. CASE ~full
    BY <1>3, <2>2 DEF RootsSeen, WordsDone
  <2> QED
    BY <2>1, <2>2
<1>4. ASSUME StackMapDone PROVE RootsSeen'
  <2>1. handler \in Nat /\ full /\ stack_map[handler] \subseteq Seen
    BY <1>4 DEF StackMapDone, Walking, RootsSeen, Walk, TypeOK
  <2>2. /\ handler' = handler + 1 /\ part' # "stack_map"
        /\ part' = "fake" => todo' = fake_roots
        /\ UNCHANGED <<full, stack_map, fake_roots, deref_marked>>
    BY <1>4, <2>1 DEF StackMapDone, NextHandler
  <2>3. \A h \in Threads : h < handler' => h < handler \/ h = handler
    BY <2>1, <2>2 DEF Threads
  <2> QED
    BY <1>0, <2>1, <2>2, <2>3 DEF RootsSeen
<1>5. ASSUME sweep_dereferenced_roots PROVE RootsSeen'
  <2>1. /\ deref_marked' = {}
        /\ UNCHANGED <<full, handler, part, todo, stack_map, fake_roots>>
    BY <1>5 DEF sweep_dereferenced_roots, walkVars
  <2> QED
    BY <1>0, <2>1 DEF RootsSeen
<1>6. ASSUME Arrive PROVE RootsSeen'
  <2>1. /\ part' = "words"
        /\ UNCHANGED <<full, handler, deref_marked, stack_map, fake_roots>>
    BY <1>6 DEF Arrive
  <2> QED
    BY <1>0, <2>1 DEF RootsSeen
<1>7. ASSUME Pop \/ ScanField \/ mark_after_overflow \/ UNCHANGED vars
      PROVE  RootsSeen'
  <2>1. UNCHANGED <<full, handler, part, todo, deref_marked, stack_map, fake_roots>>
    BY <1>7 DEF Pop, ScanField, mark_after_overflow, vars, walkVars, flagVars
  <2> QED
    BY <1>0, <2>1 DEF RootsSeen
<1>8. ASSUME NEW t \in Threads, Mutate(t) \/ Park(t) PROVE RootsSeen'
  <2>1. /\ t \in running
        /\ UNCHANGED <<full, handler, part, todo, deref_marked>>
        /\ \A h \in Threads \ {t} : stack_map'[h] = stack_map[h]
    BY <1>8, ProgramFacts
  <2>2. part = "stack_map" => handler \in Threads \ {t}
    BY <2>1, ConstantsAssumption DEF Walk, TypeOK, Position, Threads
  <2>3. part # "fake"
    BY <2>1, ConstantsAssumption DEF Walk, Position, Threads
  <2>4. \A h \in Threads : h < handler => h # t
    BY <2>1 DEF Walk
  <2> QED
    BY <1>0, <2>1, <2>2, <2>3, <2>4 DEF RootsSeen
<1> QED
  BY <1>1, <1>2, <1>3, <1>4, <1>5, <1>6, <1>7, <1>8 DEF Next, Collect

\* Reachable holds the roots, is closed, and lies in every closed set.
LEMMA ReachableFacts ==
    ASSUME TypeOK
    PROVE  /\ Roots \subseteq Reachable
           /\ \A o \in Reachable, i \in 1..FieldCount :
                  field[o][i] \in Reachable \cup {Null}
           /\ \A S \in SUBSET Objects : Closed(S) => Reachable \subseteq S
<1>1. Roots \subseteq Objects
  BY DEF Roots, TypeOK
<1>2. Roots \subseteq Reachable
  BY <1>1 DEF Reachable, Closed
<1>3. ASSUME NEW o \in Reachable, NEW i \in 1..FieldCount, field[o][i] # Null
      PROVE  field[o][i] \in Reachable
  <2>1. o \in Objects
    BY DEF Reachable
  <2>2. field[o] \in [1..FieldCount -> Objects \cup {Null}]
    BY <2>1 DEF TypeOK
  <2>3. field[o][i] \in Objects
    BY <1>3, <2>2
  <2>4. ASSUME NEW S \in SUBSET Objects, Closed(S) PROVE field[o][i] \in S
    <3>1. o \in S
      BY <2>4 DEF Reachable
    <3> QED
      BY <1>3, <2>4, <3>1 DEF Closed
  <2> QED
    BY <2>3, <2>4 DEF Reachable
<1>4. \A S \in SUBSET Objects : Closed(S) => Reachable \subseteq S
  BY DEF Reachable
<1> QED
  BY <1>2, <1>3, <1>4

(* A running thread comes by nothing but what it could reach before.       *)
LEMMA ProgramSound ==
    ASSUME HandleInv, SeenSound, ~lost, NEW t \in Threads, Mutate(t) \/ Park(t)
    PROVE  /\ Roots' \subseteq began
           /\ \A h \in Threads : words'[h] \cap roots' \subseteq began
           /\ \A o \in began, i \in 1..FieldCount :
                  field'[o][i] \in began \cup {Null}
<1> USE DEF HandleInv
<1>1. /\ Roots \subseteq began
      /\ \A h \in Threads : words[h] \cap roots \subseteq began
      /\ \A o \in began, i \in 1..FieldCount : field[o][i] \in began \cup {Null}
  BY DEF SeenSound
<1>2. Held(t) \subseteq began
  <2>1. plain[t] \subseteq began /\ stack_map[t] \subseteq began
        /\ fake_roots \subseteq began
    BY <1>1 DEF Roots
  <2>2. Within(t) \subseteq began
    BY <1>1, <2>1 DEF Within
  <2> QED
    BY <2>1, <2>2 DEF Held
<1>3. /\ \A h \in Threads : plain[h] \subseteq began /\ stack_map[h] \subseteq began
      /\ fake_roots \subseteq began
  BY <1>1 DEF Roots
<1>4. ASSUME /\ \A h \in Threads : plain'[h] \subseteq began
                                   /\ stack_map'[h] \subseteq began
             /\ fake_roots' \subseteq began
      PROVE  Roots' \subseteq began
  BY <1>4 DEF Roots
<1>5. CASE SetRoot(t)
  <2>1. UNCHANGED <<field, plain, words, fake_roots, roots>>
    BY <1>5 DEF SetRoot, tableVars
  <2>2. \A h \in Threads : stack_map'[h] \subseteq began
    BY <1>2, <1>3, <1>5 DEF SetRoot, TypeOK
  <2> QED
    BY <1>1, <1>3, <1>4, <2>1, <2>2
<1>6. CASE SetFakeRoot(t)
  <2>1. UNCHANGED <<field, plain, words, stack_map, roots>>
        /\ fake_roots' \subseteq began
    BY <1>2, <1>3, <1>6 DEF SetFakeRoot, tableVars
  <2> QED
    BY <1>1, <1>3, <1>4, <2>1
<1>7. CASE Store(t)
  <2>1. PICK o \in plain[t], i \in 1..FieldCount, p \in Held(t) \cup {Null} :
            field' = [field EXCEPT ![o][i] = p]
    BY <1>7 DEF Store
  <2>2. \A q \in began, k \in 1..FieldCount : field'[q][k] \in began \cup {Null}
    <3> SUFFICES ASSUME NEW q \in began, NEW k \in 1..FieldCount
                 PROVE  field'[q][k] \in began \cup {Null}
      OBVIOUS
    <3>1. q \in Objects
      BY DEF TypeOK
    <3>2. field'[q][k] = p \/ field'[q][k] = field[q][k]
      BY <2>1, <3>1 DEF TypeOK
    <3> QED
      BY <1>1, <1>2, <3>2
  <2>3. UNCHANGED <<plain, words, stack_map, fake_roots, roots>>
    BY <1>7 DEF Store, tableVars
  <2> QED
    BY <1>1, <1>3, <1>4, <2>2, <2>3
<1>8. CASE Dereference(t)
  <2>1. UNCHANGED <<field, stack_map, fake_roots>>
    BY <1>8 DEF Dereference
  <2>2. PICK p \in Held(t) : /\ plain' = [plain EXCEPT ![t] = @ \cup {p}]
                             /\ words' = [words EXCEPT ![t] = @ \cup {p}]
                             /\ roots' = roots \cup {p}
    BY <1>8 DEF Dereference
  <2>3. \A h \in Threads : /\ plain'[h] \subseteq plain[h] \cup {p}
                           /\ words'[h] \subseteq words[h] \cup {p}
    BY <2>2 DEF TypeOK
  <2>4. \A h \in Threads : plain'[h] \subseteq began /\ words'[h] \cap roots' \subseteq began
    BY <1>1, <1>2, <1>3, <2>2, <2>3
  <2> QED
    BY <1>1, <1>3, <1>4, <2>1, <2>4
<1>9. CASE Forget(t)
  <2>1. UNCHANGED <<field, stack_map, fake_roots, roots>>
    BY <1>9 DEF Forget, tableVars
  <2>2. \A h \in Threads : plain'[h] \subseteq plain[h] /\ words'[h] \subseteq words[h]
    BY <1>9 DEF Forget, TypeOK
  <2> QED
    BY <1>1, <1>3, <1>4, <2>1, <2>2
<1>10. CASE Park(t)
  <2>1. UNCHANGED <<field, plain, words, stack_map, fake_roots, roots>>
    BY <1>10 DEF Park, graphVars, tableVars
  <2> QED
    BY <1>1, <2>1 DEF Roots
<1> QED
  BY <1>5, <1>6, <1>7, <1>8, <1>9, <1>10 DEF Mutate

\* A step of the collector that leaves the program and the table alone.
LEMMA InputsSound ==
    ASSUME SeenSound, ~lost, UNCHANGED <<graphVars, roots, began>>
    PROVE  /\ Roots' \subseteq began'
           /\ \A h \in Threads : words'[h] \cap roots' \subseteq began'
           /\ \A o \in began', i \in 1..FieldCount :
                  field'[o][i] \in began' \cup {Null}
BY DEF SeenSound, Roots, graphVars

LEMMA SeenSoundStep ==
    ASSUME HandleInv, SeenSound, [Next]_vars
    PROVE  SeenSound'
<1> USE DEF HandleInv, inputVars
<1> SUFFICES ASSUME ~lost' PROVE SeenSound'
  BY DEF SeenSound
<1>1. ASSUME NEW p \in Objects, mark_dereferenced_root(p) PROVE SeenSound'
  <2>1. ~lost /\ UNCHANGED <<graphVars, roots, began>> /\ marked' = marked
    BY <1>1 DEF mark_dereferenced_root
  <2>2. handler \in Threads /\ p \in words[handler]
    BY <1>1, ConstantsAssumption DEF mark_dereferenced_root, Walking, Walk, TypeOK,
       Position, Threads
  <2>3. p \in roots => p \in began
    BY <2>1, <2>2 DEF SeenSound
  <2>4. v' = Null /\ OnStack' \subseteq {p} \cap roots
    BY <1>1, HandleStart
  <2> QED
    BY <2>1, <2>3, <2>4, InputsSound DEF SeenSound, Seen
<1>2. ASSUME NEW p \in Objects, mark_root(p) PROVE SeenSound'
  <2>1. ~lost /\ UNCHANGED <<graphVars, roots, began>> /\ marked' = marked
    BY <1>2 DEF mark_root, flagVars, tableVars
  <2>2. p \in todo /\ (part = "stack_map" \/ part = "fake")
    BY <1>2 DEF mark_root, Walking
  <2>3. part # "fake" => handler \in Threads
    BY ConstantsAssumption DEF TypeOK, Position, Threads
  <2>4. p \in Roots
    BY <2>2, <2>3 DEF Walk, Roots
  <2>5. v' = Null /\ OnStack' = {p}
    BY <1>2, RootStart
  <2> QED
    BY <2>1, <2>4, <2>5, InputsSound DEF SeenSound, Seen
<1>3. ASSUME Pop PROVE SeenSound'
  <2>1. ~lost /\ UNCHANGED <<graphVars, roots, began>> /\ marked' = marked \cup {v'}
    BY <1>3 DEF Pop, tableVars
  <2>2. OnStack = OnStack' \cup {v'}
    BY <1>3, PopFacts
  <2> QED
    BY <2>1, <2>2, InputsSound DEF SeenSound, Seen
<1>4. ASSUME ScanField PROVE SeenSound'
  <2>1. /\ ~lost /\ OnStack' \subseteq OnStack \cup ({field[v][j]} \ {Null})
        /\ UNCHANGED <<graphVars, roots, began>> /\ marked' = marked
    BY <1>4, ScanFacts DEF ScanField, tableVars
  <2>2. v # Null /\ v \in began /\ j \in 1..FieldCount /\ (v' = v \/ v' = Null)
    BY <1>4, <2>1 DEF ScanField, NextField, SeenSound, TypeOK
  <2>3. field[v][j] \in began \cup {Null}
    BY <2>1, <2>2 DEF SeenSound
  <2> QED
    BY <2>1, <2>2, <2>3, InputsSound DEF SeenSound, Seen
<1>5. ASSUME mark_after_overflow PROVE SeenSound'
  <2>1. lost'
    BY <1>5 DEF mark_after_overflow, Walk
  <2> QED
    BY <2>1
<1>6. ASSUME Arrive \/ WordsDone \/ StackMapDone \/ UNCHANGED vars PROVE SeenSound'
  <2>1. ~lost /\ UNCHANGED <<graphVars, roots, began>>
    BY <1>6 DEF Arrive, WordsDone, StackMapDone, vars, flagVars, tableVars
  <2>2. stack' = stack /\ v' = v /\ marked' = marked
    BY <1>6 DEF Arrive, WordsDone, StackMapDone, vars, goVars, flagVars
  <2> QED
    BY <2>1, <2>2, InputsSound DEF SeenSound, Seen, OnStack
<1>7. ASSUME sweep_dereferenced_roots PROVE SeenSound'
  <2>1. ~lost /\ UNCHANGED <<graphVars, began, stack, v, marked>>
        /\ roots' \subseteq roots
    BY <1>7 DEF sweep_dereferenced_roots, flagVars, goVars
  <2> QED
    BY <2>1 DEF SeenSound, Seen, OnStack, Roots, graphVars
<1>8. ASSUME NEW t \in Threads, Mutate(t) \/ Park(t) PROVE SeenSound'
  <2>1. ~lost /\ UNCHANGED <<began, stack, v, marked>>
    BY <1>8, ProgramFacts
  <2> QED
    BY <1>8, <2>1, ProgramSound DEF SeenSound, Seen, OnStack
<1> QED
  BY <1>1, <1>2, <1>3, <1>4, <1>5, <1>6, <1>7, <1>8 DEF Next, Collect

MarkInv == HandleInv /\ TriColour /\ RootsSeen /\ SeenSound

LEMMA MarkInvariant == Spec => []MarkInv
<1>1. Init => MarkInv
  <2> SUFFICES ASSUME Init PROVE MarkInv
    OBVIOUS
  <2>1. HandleInv
    <3>1. \A h \in Threads : ~(h < 1)
      BY DEF Threads
    <3> QED
      BY <3>1, TypeInit DEF Init, Walk, HandleMarks, HandleInv
  <2>2. OnStack = {} /\ v = Null /\ marked = {} /\ deref_marked = {}
        /\ part = "wait" /\ handler = 1
    BY DEF Init, OnStack
  <2>3. TriColour
    BY <2>2 DEF TriColour, Scanned
  <2>4. SeenSound
    <3>1. began = Reachable /\ \A h \in Threads : plain[h] = words[h] \cap roots
      BY DEF Init
    <3>2. \A h \in Threads : words[h] \cap roots \subseteq Roots
      BY <3>1 DEF Roots
    <3> QED
      BY <2>1, <2>2, <3>1, <3>2, ReachableFacts DEF SeenSound, Seen, HandleInv
  <2>5. RootsSeen
    BY <2>2 DEF RootsSeen, Threads
  <2> QED
    BY <2>1, <2>3, <2>4, <2>5 DEF MarkInv
<1>2. MarkInv /\ [Next]_vars => MarkInv'
  <2> SUFFICES ASSUME MarkInv, [Next]_vars PROVE MarkInv'
    OBVIOUS
  <2>1. HandleInv'
    BY TypeStep, WalkStep, HandleMarksStep DEF HandleInv, MarkInv
  <2>2. TriColour'
    BY TriColourStep DEF MarkInv, HandleInv
  <2>3. RootsSeen' /\ SeenSound'
    BY RootsSeenStep, SeenSoundStep DEF MarkInv
  <2> QED
    BY <2>1, <2>2, <2>3 DEF MarkInv
<1> QED
  BY <1>1, <1>2, PTL DEF Spec

(* All that the program can reach when the collection comes to the sweep   *)
(* is marked, whatever the threads did while others were walked, unless    *)
(* one stored an object behind the walk or a push failed: these two are    *)
(* all that can lose an object (go.cpp:265-301).                           *)
THEOREM MarkingComplete == Spec => []MarkComplete
<1>1. MarkInv => MarkComplete
  <2> SUFFICES ASSUME MarkInv, AtSweep, full, ~lost, ~raced
               PROVE  Reachable \subseteq marked
    BY DEF MarkComplete
  <2>1. stack = <<>> /\ v = Null /\ part = "fake" /\ todo = {} /\ phase = "mark"
    BY DEF AtSweep, Walking, InGo
  <2>2. OnStack = {} /\ Seen = marked
    BY <2>1 DEF OnStack, Seen
  <2>3. Roots \subseteq marked
    <3>1. \A h \in Threads : plain[h] \subseteq deref_marked
      BY <2>1, AllLookedUp DEF MarkInv, HandleInv
    <3>2. \A h \in Threads : h < handler
      BY <2>1, ConstantsAssumption DEF MarkInv, HandleInv, Position, Threads
    <3> QED
      BY <2>1, <2>2, <3>1, <3>2 DEF MarkInv, RootsSeen, Roots
  <2>4. marked \subseteq Objects /\ Null \notin marked
    BY ConstantsAssumption DEF MarkInv, HandleInv, TypeOK
  <2>5. Closed(marked)
    BY <2>1, <2>2, <2>3, <2>4 DEF Closed, MarkInv, TriColour, Scanned
  <2> QED
    BY <2>4, <2>5, ReachableFacts DEF MarkInv, HandleInv
<1> QED
  BY <1>1, MarkInvariant, PTL

(* Unless a push fails, nothing is marked that was unreachable when the    *)
(* collection began, neither by the search of the stacks for possible      *)
(* pointers nor by what threads load and store meanwhile.                  *)
THEOREM MarkingSound == Spec => []MarkSound
<1>1. MarkInv => MarkSound
  BY DEF MarkInv, SeenSound, Seen, MarkSound
<1> QED
  BY <1>1, MarkInvariant, PTL
=============================================================================
