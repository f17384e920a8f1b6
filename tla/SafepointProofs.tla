-------------------------- MODULE SafepointProofs --------------------------
(***************************************************************************)
(* Proofs about Safepoint, for any set of threads.                         *)
(*                                                                         *)
(* The invariants are proved in layers, each inductive relative to the     *)
(* ones before it: the types; who collects; the safepoint flags; the       *)
(* sleeping threads; the handler list; the collector's cursor (until there *)
(* is a spurious wakeup).  For a program of two threads, a last layer      *)
(* gives stop-the-world and the refinement of CollectionBarrier; with      *)
(* three threads both are false (MCSafepointStop shows it).                *)
(*                                                                         *)
(* A lemma XStep has one step per action of Next.                          *)
(***************************************************************************)
EXTENDS Safepoint, TLAPS

(* Sleeping threads are where they fell asleep: nobody else moves them.    *)
WaitersAsleep ==
    /\ \A t \in finished_waiters :
           pc[t] \in {"startWait", "spWait", "gcWait", "exitWait"}
    /\ \A t \in reached_waiters : pc[t] = "scanWait"

WakeInv == WaitersAsleep /\ NoLostWakeup /\ NoOrphanWaiter

(* Before the first thread_create or gc() there is no handler.             *)
ListEmpty == first_thread = Null =>
    /\ \A t \in Threads : /\ t # Main => pc[t] = "unborn"
                          /\ next[t] = Null
                          /\ creator[t] = Null
    /\ pc[Main] \in {"run", "gcCall"}
    /\ ~more_than_one
    /\ gc_thread = Null
    /\ gc_mutex = Null

MainStays == pc[Main] \notin {"unborn", "starting", "startWait", "exit",
                              "exitWait", "done"}

(* The list: nothing points to its head, links are one-to-one and join     *)
(* live threads, Main is last, and every registered thread is reached.     *)
ListHead ==
    first_thread # Null =>
        /\ Live(first_thread)
        /\ \A t \in Threads : next[t] # first_thread
ListLinks == \A p \in Threads : next[p] # Null =>
    /\ Live(p)
    /\ Live(next[p])
    /\ \A q \in Threads : next[q] = next[p] => q = p
ListTail == \A t \in Threads : Registered(t) /\ next[t] = Null => t = Main
ListConnected == \A S \in SUBSET Threads : Closed(S) =>
                     \A t \in Threads : Registered(t) => t \in S
ListInv == /\ ListEmpty /\ MainStays /\ ListHead /\ ListLinks /\ ListTail
           /\ ListConnected
MoreInv ==
    first_thread # Null => (more_than_one <=> next[first_thread] # Null)

(* The collector sleeps on a handler that will not leave the list before   *)
(* the collector has gone past it.                                         *)
CursorInv ==
    /\ gc_thread = Null => cursor = Null
    /\ cursor # Null => Registered(cursor)
    /\ \A t \in Threads :
         /\ pc[t] = "sweep" => cursor = Null
         /\ pc[t] = "scanWait" =>
              /\ cursor # Null
              /\ in_safepoint[cursor] => \/ cursor \in finished_waiters
                                         \/ pc[cursor] \in {"join", "joined"}

(* Two threads: how far the walk is, and the threads it has passed.  The   *)
(* collector never sleeps after it has passed the other thread, so it      *)
(* keeps gc_mutex and the other thread cannot leave its safepoint.         *)
PairInv ==
    /\ gc_thread = Null => marked = {}
    /\ \A c \in Threads : Collecting(c) =>
         /\ \A t \in marked : Parked(t)
         /\ \/ cursor = first_thread /\ marked = {}
            \/ cursor = next[first_thread] /\ marked = {first_thread}
            \/ cursor = Null /\ \A t \in Threads : t \in marked <=> Live(t)
         /\ pc[c] = "scanWait" => cursor # c /\ cursor \notin marked
         /\ pc[c] = "sweep" => \A t \in Threads : t \in marked <=> Live(t)

Pair == ~Spurious /\ \E o \in Threads : Threads = {Main, o}
-----------------------------------------------------------------------------
(* Types (every module variable).                                          *)
(* The initial state is well typed.                                        *)
LEMMA TypeInit == Init => Types
<1>. SUFFICES ASSUME Init PROVE Types
  OBVIOUS
<1>. USE ConstantsAssumption DEF Init, PointerOrNull, PC
<1>1. pc \in [Threads -> PC]
  OBVIOUS
<1>2. next \in [Threads -> PointerOrNull]
  OBVIOUS
<1>3. in_safepoint \in [Threads -> BOOLEAN]
  OBVIOUS
<1>4. nesting_level \in [Threads -> 0..MaxNesting]
  OBVIOUS
<1>5. QED
  BY <1>1, <1>2, <1>3, <1>4 DEF Types

(* Every step keeps the types.                                             *)
LEMMA TypeStep ==
  ASSUME Types, [Next]_vars
  PROVE  Types'
<1>. USE ConstantsAssumption DEF Types, PointerOrNull, Goto, PC, vars,
      listVars, flagVars, gcVars, waitVars, joinVars
<1>1. ASSUME NEW t \in Threads, start_routine_wait(t) PROVE Types'
  BY <1>1 DEF start_routine_wait, WaitFinished
<1>2. ASSUME NEW t \in Threads, start_routine_pass(t) PROVE Types'
  <2>1. more_than_one' \in BOOLEAN
    BY <1>2 DEF start_routine_pass, PushHandler
  <2>2. QED
    BY <1>2, <2>1 DEF start_routine_pass, PushHandler
<1>3. ASSUME NEW t \in Threads, start_routine_woken(t) PROVE Types'
  <2>1. more_than_one' \in BOOLEAN
    BY <1>3 DEF start_routine_woken, Woken, PushHandler
  <2>2. QED
    BY <1>3, <2>1 DEF start_routine_woken, Woken, PushHandler
<1>4. ASSUME NEW t \in Threads, without_gc_wait(t) PROVE Types'
  BY <1>4 DEF without_gc_wait, ParkUntilFinished, enter_safepoint,
      SignalReached, WaitFinished
<1>5. ASSUME NEW t \in Threads, without_gc_pass(t) PROVE Types'
  BY <1>5 DEF without_gc_pass, ReturnToUser, exit_safepoint
<1>6. ASSUME NEW t \in Threads, without_gc_woken(t) PROVE Types'
  BY <1>6 DEF without_gc_woken, Woken, ReturnToUser, exit_safepoint
<1>7. ASSUME NEW t \in Threads, gc_refused(t) PROVE Types'
  BY <1>7 DEF gc_refused, create_first_handler
<1>8. ASSUME NEW t \in Threads, gc_start(t) PROVE Types'
  BY <1>8 DEF gc_start, MayCollect, create_first_handler, enter_safepoint
<1>9. ASSUME NEW t \in Threads, gc_wait(t) PROVE Types'
  BY <1>9 DEF gc_wait, ParkUntilFinished, enter_safepoint, SignalReached,
      WaitFinished
<1>10. ASSUME NEW t \in Threads, gc_woken(t) PROVE Types'
  BY <1>10 DEF gc_woken, Woken, ReturnToUser, exit_safepoint
<1>11. ASSUME NEW t \in Threads, ScanWait(t) PROVE Types'
  BY <1>11 DEF ScanWait, thread_in_safepoint
<1>12. ASSUME NEW t \in Threads, ScanWoken(t) PROVE Types'
  BY <1>12 DEF ScanWoken
<1>13. ASSUME NEW t \in Threads, ScanHandler(t) PROVE Types'
  BY <1>13 DEF ScanHandler, thread_in_safepoint
<1>14. ASSUME NEW t \in Threads, ScanDone(t) PROVE Types'
  BY <1>14 DEF ScanDone, Move
<1>15. ASSUME NEW t \in Threads, gc_finish(t) PROVE Types'
  BY <1>15 DEF gc_finish, exit_safepoint, BroadcastFinished
<1>16. ASSUME NEW t \in Threads, pthread_join_returns(t) PROVE Types'
  BY <1>16 DEF pthread_join_returns
<1>17. ASSUME NEW t \in Threads, thread_join_leave(t) PROVE Types'
  BY <1>17 DEF thread_join_leave, ReturnToUser, exit_safepoint
<1>18. ASSUME NEW t \in Threads, remove_thread_wait(t) PROVE Types'
  BY <1>18 DEF remove_thread_wait, ParkUntilFinished, enter_safepoint,
      SignalReached, WaitFinished
<1>19. ASSUME NEW t \in Threads, remove_thread_pass(t) PROVE Types'
  <2>1. more_than_one' \in BOOLEAN
    BY <1>19 DEF remove_thread_pass, Unlink, exit_safepoint,
       MoreThanOneLeft
  <2>2. first_thread' \in PointerOrNull /\ next' \in [Threads -> PointerOrNull]
    BY <1>19 DEF remove_thread_pass, Unlink, exit_safepoint
  <2>3. QED
    BY <1>19, <2>1, <2>2 DEF remove_thread_pass, Unlink, exit_safepoint
<1>20. ASSUME NEW t \in Threads, remove_thread_woken(t) PROVE Types'
  <2>1. more_than_one' \in BOOLEAN
    BY <1>20 DEF remove_thread_woken, Woken, Unlink, exit_safepoint,
       MoreThanOneLeft
  <2>2. first_thread' \in PointerOrNull /\ next' \in [Threads -> PointerOrNull]
    BY <1>20 DEF remove_thread_woken, Woken, Unlink, exit_safepoint
  <2>3. QED
    BY <1>20, <2>1, <2>2 DEF remove_thread_woken, Woken, Unlink, exit_safepoint
<1>21. ASSUME NEW t \in Threads, safepoint(t) PROVE Types'
  BY <1>21 DEF safepoint, Move
<1>22. ASSUME NEW t \in Threads, BeginConstruction(t) PROVE Types'
  BY <1>22 DEF BeginConstruction, SetNesting
<1>23. ASSUME NEW t \in Threads, EndConstruction(t) PROVE Types'
  BY <1>23 DEF EndConstruction, SetNesting
<1>24. ASSUME NEW t \in Threads, CallGc(t) PROVE Types'
  BY <1>24 DEF CallGc, Move
<1>25. ASSUME NEW t \in Threads, EndRoutine(t) PROVE Types'
  BY <1>25 DEF EndRoutine, Move
<1>26. ASSUME NEW t \in Threads, NEW u \in Threads, thread_create(t, u)
      PROVE  Types'
  BY <1>26 DEF thread_create, create_first_handler
<1>27. ASSUME NEW t \in Threads, NEW u \in Threads, thread_join(t, u)
      PROVE  Types'
  BY <1>27 DEF thread_join, enter_safepoint, SignalReached
<1>28. ASSUME NEW t \in Threads, SpuriousWakeup(t) PROVE Types'
  BY <1>28 DEF SpuriousWakeup
<1>29. CASE UNCHANGED vars
  BY <1>29
<1>30. QED
  BY <1>1, <1>2, <1>3, <1>4, <1>5, <1>6, <1>7, <1>8, <1>9, <1>10, <1>11,
      <1>12, <1>13, <1>14, <1>15, <1>16, <1>17, <1>18, <1>19, <1>20, <1>21,
      <1>22, <1>23, <1>24, <1>25, <1>26, <1>27, <1>28, <1>29 DEF Next,
      Protocol, User

(* One collector at a time, and gc_mutex is held while it works.           *)
LEMMA CollectorStep ==
  ASSUME Types, OneCollector, [Next]_vars
  PROVE  OneCollector'
<1>. USE ConstantsAssumption DEF Types, PointerOrNull, OneCollector,
      Collecting, Goto, PC, vars, listVars, flagVars, gcVars, waitVars,
      joinVars
<1>1. ASSUME NEW t \in Threads, start_routine_wait(t) PROVE OneCollector'
  BY <1>1 DEF start_routine_wait, WaitFinished
<1>2. ASSUME NEW t \in Threads, start_routine_pass(t) PROVE OneCollector'
  BY <1>2 DEF start_routine_pass, PushHandler
<1>3. ASSUME NEW t \in Threads, start_routine_woken(t) PROVE OneCollector'
  BY <1>3 DEF start_routine_woken, Woken, PushHandler
<1>4. ASSUME NEW t \in Threads, without_gc_wait(t) PROVE OneCollector'
  BY <1>4 DEF without_gc_wait, ParkUntilFinished, enter_safepoint,
      SignalReached, WaitFinished
<1>5. ASSUME NEW t \in Threads, without_gc_pass(t) PROVE OneCollector'
  BY <1>5 DEF without_gc_pass, ReturnToUser, exit_safepoint
<1>6. ASSUME NEW t \in Threads, without_gc_woken(t) PROVE OneCollector'
  BY <1>6 DEF without_gc_woken, Woken, ReturnToUser, exit_safepoint
<1>7. ASSUME NEW t \in Threads, gc_refused(t) PROVE OneCollector'
  BY <1>7 DEF gc_refused, create_first_handler
<1>8. ASSUME NEW t \in Threads, gc_start(t) PROVE OneCollector'
  BY <1>8 DEF gc_start, MayCollect, create_first_handler, enter_safepoint
<1>9. ASSUME NEW t \in Threads, gc_wait(t) PROVE OneCollector'
  BY <1>9 DEF gc_wait, ParkUntilFinished, enter_safepoint, SignalReached,
      WaitFinished
<1>10. ASSUME NEW t \in Threads, gc_woken(t) PROVE OneCollector'
  BY <1>10 DEF gc_woken, Woken, ReturnToUser, exit_safepoint
<1>11. ASSUME NEW t \in Threads, ScanWait(t) PROVE OneCollector'
  BY <1>11 DEF ScanWait, thread_in_safepoint
<1>12. ASSUME NEW t \in Threads, ScanWoken(t) PROVE OneCollector'
  BY <1>12 DEF ScanWoken
<1>13. ASSUME NEW t \in Threads, ScanHandler(t) PROVE OneCollector'
  BY <1>13 DEF ScanHandler, thread_in_safepoint
<1>14. ASSUME NEW t \in Threads, ScanDone(t) PROVE OneCollector'
  BY <1>14 DEF ScanDone, Move
<1>15. ASSUME NEW t \in Threads, gc_finish(t) PROVE OneCollector'
  BY <1>15 DEF gc_finish, exit_safepoint, BroadcastFinished
<1>16. ASSUME NEW t \in Threads, pthread_join_returns(t) PROVE OneCollector'
  BY <1>16 DEF pthread_join_returns
<1>17. ASSUME NEW t \in Threads, thread_join_leave(t) PROVE OneCollector'
  BY <1>17 DEF thread_join_leave, ReturnToUser, exit_safepoint
<1>18. ASSUME NEW t \in Threads, remove_thread_wait(t) PROVE OneCollector'
  BY <1>18 DEF remove_thread_wait, ParkUntilFinished, enter_safepoint,
      SignalReached, WaitFinished
<1>19. ASSUME NEW t \in Threads, remove_thread_pass(t) PROVE OneCollector'
  BY <1>19 DEF remove_thread_pass, Unlink, exit_safepoint
<1>20. ASSUME NEW t \in Threads, remove_thread_woken(t) PROVE OneCollector'
  BY <1>20 DEF remove_thread_woken, Woken, Unlink, exit_safepoint
<1>21. ASSUME NEW t \in Threads, safepoint(t) PROVE OneCollector'
  BY <1>21 DEF safepoint, Move
<1>22. ASSUME NEW t \in Threads, BeginConstruction(t) PROVE OneCollector'
  BY <1>22 DEF BeginConstruction, SetNesting
<1>23. ASSUME NEW t \in Threads, EndConstruction(t) PROVE OneCollector'
  BY <1>23 DEF EndConstruction, SetNesting
<1>24. ASSUME NEW t \in Threads, CallGc(t) PROVE OneCollector'
  BY <1>24 DEF CallGc, Move
<1>25. ASSUME NEW t \in Threads, EndRoutine(t) PROVE OneCollector'
  BY <1>25 DEF EndRoutine, Move
<1>26. ASSUME NEW t \in Threads, NEW u \in Threads, thread_create(t, u)
      PROVE  OneCollector'
  BY <1>26 DEF thread_create, create_first_handler
<1>27. ASSUME NEW t \in Threads, NEW u \in Threads, thread_join(t, u)
      PROVE  OneCollector'
  BY <1>27 DEF thread_join, enter_safepoint, SignalReached
<1>28. ASSUME NEW t \in Threads, SpuriousWakeup(t) PROVE OneCollector'
  BY <1>28 DEF SpuriousWakeup
<1>29. CASE UNCHANGED vars
  BY <1>29
<1>30. QED
  BY <1>1, <1>2, <1>3, <1>4, <1>5, <1>6, <1>7, <1>8, <1>9, <1>10, <1>11,
      <1>12, <1>13, <1>14, <1>15, <1>16, <1>17, <1>18, <1>19, <1>20, <1>21,
      <1>22, <1>23, <1>24, <1>25, <1>26, <1>27, <1>28, <1>29 DEF Next,
      Protocol, User

(* The flag of a thread says whether the thread is parked.                 *)
LEMMA FlagsStep ==
  ASSUME Types, SafepointFlags, [Next]_vars
  PROVE  SafepointFlags'
<1>. USE ConstantsAssumption DEF Types, PointerOrNull, SafepointFlags,
      Parked, Goto, PC, vars, listVars, flagVars, gcVars, waitVars, joinVars
<1>1. ASSUME NEW t \in Threads, start_routine_wait(t) PROVE SafepointFlags'
  BY <1>1 DEF start_routine_wait, WaitFinished
<1>2. ASSUME NEW t \in Threads, start_routine_pass(t) PROVE SafepointFlags'
  BY <1>2 DEF start_routine_pass, PushHandler
<1>3. ASSUME NEW t \in Threads, start_routine_woken(t) PROVE SafepointFlags'
  BY <1>3 DEF start_routine_woken, Woken, PushHandler
<1>4. ASSUME NEW t \in Threads, without_gc_wait(t) PROVE SafepointFlags'
  BY <1>4 DEF without_gc_wait, ParkUntilFinished, enter_safepoint,
      SignalReached, WaitFinished
<1>5. ASSUME NEW t \in Threads, without_gc_pass(t) PROVE SafepointFlags'
  BY <1>5 DEF without_gc_pass, ReturnToUser, exit_safepoint
<1>6. ASSUME NEW t \in Threads, without_gc_woken(t) PROVE SafepointFlags'
  BY <1>6 DEF without_gc_woken, Woken, ReturnToUser, exit_safepoint
<1>7. ASSUME NEW t \in Threads, gc_refused(t) PROVE SafepointFlags'
  BY <1>7 DEF gc_refused, create_first_handler
<1>8. ASSUME NEW t \in Threads, gc_start(t) PROVE SafepointFlags'
  BY <1>8 DEF gc_start, MayCollect, create_first_handler, enter_safepoint
<1>9. ASSUME NEW t \in Threads, gc_wait(t) PROVE SafepointFlags'
  BY <1>9 DEF gc_wait, ParkUntilFinished, enter_safepoint, SignalReached,
      WaitFinished
<1>10. ASSUME NEW t \in Threads, gc_woken(t) PROVE SafepointFlags'
  BY <1>10 DEF gc_woken, Woken, ReturnToUser, exit_safepoint
<1>11. ASSUME NEW t \in Threads, ScanWait(t) PROVE SafepointFlags'
  BY <1>11 DEF ScanWait, thread_in_safepoint
<1>12. ASSUME NEW t \in Threads, ScanWoken(t) PROVE SafepointFlags'
  BY <1>12 DEF ScanWoken
<1>13. ASSUME NEW t \in Threads, ScanHandler(t) PROVE SafepointFlags'
  BY <1>13 DEF ScanHandler, thread_in_safepoint
<1>14. ASSUME NEW t \in Threads, ScanDone(t) PROVE SafepointFlags'
  BY <1>14 DEF ScanDone, Move
<1>15. ASSUME NEW t \in Threads, gc_finish(t) PROVE SafepointFlags'
  BY <1>15 DEF gc_finish, exit_safepoint, BroadcastFinished
<1>16. ASSUME NEW t \in Threads, pthread_join_returns(t) PROVE SafepointFlags'
  BY <1>16 DEF pthread_join_returns
<1>17. ASSUME NEW t \in Threads, thread_join_leave(t) PROVE SafepointFlags'
  BY <1>17 DEF thread_join_leave, ReturnToUser, exit_safepoint
<1>18. ASSUME NEW t \in Threads, remove_thread_wait(t) PROVE SafepointFlags'
  BY <1>18 DEF remove_thread_wait, ParkUntilFinished, enter_safepoint,
      SignalReached, WaitFinished
<1>19. ASSUME NEW t \in Threads, remove_thread_pass(t) PROVE SafepointFlags'
  BY <1>19 DEF remove_thread_pass, Unlink, exit_safepoint
<1>20. ASSUME NEW t \in Threads, remove_thread_woken(t) PROVE SafepointFlags'
  BY <1>20 DEF remove_thread_woken, Woken, Unlink, exit_safepoint
<1>21. ASSUME NEW t \in Threads, safepoint(t) PROVE SafepointFlags'
  BY <1>21 DEF safepoint, Move
<1>22. ASSUME NEW t \in Threads, BeginConstruction(t) PROVE SafepointFlags'
  BY <1>22 DEF BeginConstruction, SetNesting
<1>23. ASSUME NEW t \in Threads, EndConstruction(t) PROVE SafepointFlags'
  BY <1>23 DEF EndConstruction, SetNesting
<1>24. ASSUME NEW t \in Threads, CallGc(t) PROVE SafepointFlags'
  BY <1>24 DEF CallGc, Move
<1>25. ASSUME NEW t \in Threads, EndRoutine(t) PROVE SafepointFlags'
  BY <1>25 DEF EndRoutine, Move
<1>26. ASSUME NEW t \in Threads, NEW u \in Threads, thread_create(t, u)
      PROVE  SafepointFlags'
  BY <1>26 DEF thread_create, create_first_handler
<1>27. ASSUME NEW t \in Threads, NEW u \in Threads, thread_join(t, u)
      PROVE  SafepointFlags'
  BY <1>27 DEF thread_join, enter_safepoint, SignalReached
<1>28. ASSUME NEW t \in Threads, SpuriousWakeup(t) PROVE SafepointFlags'
  BY <1>28 DEF SpuriousWakeup
<1>29. CASE UNCHANGED vars
  BY <1>29
<1>30. QED
  BY <1>1, <1>2, <1>3, <1>4, <1>5, <1>6, <1>7, <1>8, <1>9, <1>10, <1>11,
      <1>12, <1>13, <1>14, <1>15, <1>16, <1>17, <1>18, <1>19, <1>20, <1>21,
      <1>22, <1>23, <1>24, <1>25, <1>26, <1>27, <1>28, <1>29 DEF Next,
      Protocol, User

(* Whoever sleeps has a reason to, and somebody who will wake it.          *)
LEMMA WakeStep ==
  ASSUME Types, OneCollector, WakeInv, [Next]_vars
  PROVE  WakeInv'
<1>. USE ConstantsAssumption DEF Types, PointerOrNull, WakeInv,
      WaitersAsleep, NoLostWakeup, NoOrphanWaiter, OneCollector, Collecting,
      Goto, PC, vars, listVars, flagVars, gcVars, waitVars, joinVars
<1>1. ASSUME NEW t \in Threads, start_routine_wait(t) PROVE WakeInv'
  BY <1>1 DEF start_routine_wait, WaitFinished
<1>2. ASSUME NEW t \in Threads, start_routine_pass(t) PROVE WakeInv'
  BY <1>2 DEF start_routine_pass, PushHandler
<1>3. ASSUME NEW t \in Threads, start_routine_woken(t) PROVE WakeInv'
  BY <1>3 DEF start_routine_woken, Woken, PushHandler
<1>4. ASSUME NEW t \in Threads, without_gc_wait(t) PROVE WakeInv'
  BY <1>4 DEF without_gc_wait, ParkUntilFinished, enter_safepoint,
      SignalReached, WaitFinished
<1>5. ASSUME NEW t \in Threads, without_gc_pass(t) PROVE WakeInv'
  BY <1>5 DEF without_gc_pass, ReturnToUser, exit_safepoint
<1>6. ASSUME NEW t \in Threads, without_gc_woken(t) PROVE WakeInv'
  BY <1>6 DEF without_gc_woken, Woken, ReturnToUser, exit_safepoint
<1>7. ASSUME NEW t \in Threads, gc_refused(t) PROVE WakeInv'
  BY <1>7 DEF gc_refused, create_first_handler
<1>8. ASSUME NEW t \in Threads, gc_start(t) PROVE WakeInv'
  BY <1>8 DEF gc_start, MayCollect, create_first_handler, enter_safepoint
<1>9. ASSUME NEW t \in Threads, gc_wait(t) PROVE WakeInv'
  BY <1>9 DEF gc_wait, ParkUntilFinished, enter_safepoint, SignalReached,
      WaitFinished
<1>10. ASSUME NEW t \in Threads, gc_woken(t) PROVE WakeInv'
  BY <1>10 DEF gc_woken, Woken, ReturnToUser, exit_safepoint
<1>11. ASSUME NEW t \in Threads, ScanWait(t) PROVE WakeInv'
  BY <1>11 DEF ScanWait, thread_in_safepoint
<1>12. ASSUME NEW t \in Threads, ScanWoken(t) PROVE WakeInv'
  BY <1>12 DEF ScanWoken
<1>13. ASSUME NEW t \in Threads, ScanHandler(t) PROVE WakeInv'
  BY <1>13 DEF ScanHandler, thread_in_safepoint
<1>14. ASSUME NEW t \in Threads, ScanDone(t) PROVE WakeInv'
  BY <1>14 DEF ScanDone, Move
<1>15. ASSUME NEW t \in Threads, gc_finish(t) PROVE WakeInv'
  BY <1>15 DEF gc_finish, exit_safepoint, BroadcastFinished
<1>16. ASSUME NEW t \in Threads, pthread_join_returns(t) PROVE WakeInv'
  BY <1>16 DEF pthread_join_returns
<1>17. ASSUME NEW t \in Threads, thread_join_leave(t) PROVE WakeInv'
  BY <1>17 DEF thread_join_leave, ReturnToUser, exit_safepoint
<1>18. ASSUME NEW t \in Threads, remove_thread_wait(t) PROVE WakeInv'
  BY <1>18 DEF remove_thread_wait, ParkUntilFinished, enter_safepoint,
      SignalReached, WaitFinished
<1>19. ASSUME NEW t \in Threads, remove_thread_pass(t) PROVE WakeInv'
  BY <1>19 DEF remove_thread_pass, Unlink, exit_safepoint
<1>20. ASSUME NEW t \in Threads, remove_thread_woken(t) PROVE WakeInv'
  BY <1>20 DEF remove_thread_woken, Woken, Unlink, exit_safepoint
<1>21. ASSUME NEW t \in Threads, safepoint(t) PROVE WakeInv'
  BY <1>21 DEF safepoint, Move
<1>22. ASSUME NEW t \in Threads, BeginConstruction(t) PROVE WakeInv'
  BY <1>22 DEF BeginConstruction, SetNesting
<1>23. ASSUME NEW t \in Threads, EndConstruction(t) PROVE WakeInv'
  BY <1>23 DEF EndConstruction, SetNesting
<1>24. ASSUME NEW t \in Threads, CallGc(t) PROVE WakeInv'
  BY <1>24 DEF CallGc, Move
<1>25. ASSUME NEW t \in Threads, EndRoutine(t) PROVE WakeInv'
  BY <1>25 DEF EndRoutine, Move
<1>26. ASSUME NEW t \in Threads, NEW u \in Threads, thread_create(t, u)
      PROVE  WakeInv'
  BY <1>26 DEF thread_create, create_first_handler
<1>27. ASSUME NEW t \in Threads, NEW u \in Threads, thread_join(t, u)
      PROVE  WakeInv'
  BY <1>27 DEF thread_join, enter_safepoint, SignalReached
<1>28. ASSUME NEW t \in Threads, SpuriousWakeup(t) PROVE WakeInv'
  BY <1>28 DEF SpuriousWakeup
<1>29. CASE UNCHANGED vars
  BY <1>29
<1>30. QED
  BY <1>1, <1>2, <1>3, <1>4, <1>5, <1>6, <1>7, <1>8, <1>9, <1>10, <1>11,
      <1>12, <1>13, <1>14, <1>15, <1>16, <1>17, <1>18, <1>19, <1>20, <1>21,
      <1>22, <1>23, <1>24, <1>25, <1>26, <1>27, <1>28, <1>29 DEF Next,
      Protocol, User

-----------------------------------------------------------------------------
(* A thread other than the head has one predecessor on the list: without   *)
(* one, the live threads but itself would be closed.                       *)
LEMMA UnlinkPredecessor ==
  ASSUME Types, ListInv, NEW t \in Threads, Live(t), t # Main,
         t # first_thread
  PROVE  /\ Predecessor(t) \in Threads
         /\ Predecessor(t) # t
         /\ Live(Predecessor(t))
         /\ next[Predecessor(t)] = t
         /\ first_thread # Null
<1>. USE ConstantsAssumption DEF Types, PointerOrNull, PC
<1>1. first_thread # Null
  BY DEF ListInv, ListEmpty, Live
<1>. DEFINE S == {u \in Threads : Live(u)} \ {t}
<1>2. PICK p \in Threads : p # t /\ next[p] = t
  <2>. SUFFICES ASSUME \A p \in Threads : p # t => next[p] # t
                PROVE FALSE
    OBVIOUS
  <2>1. \A u \in S : next[u] # Null => next[u] \in S
    BY DEF ListInv, ListLinks
  <2>2. Closed(S)
    BY <1>1, <2>1 DEF Closed, ListInv, ListHead
  <2>3. S \in SUBSET Threads
    OBVIOUS
  <2>4. t \in S
    BY <1>1, <2>2, <2>3 DEF ListInv, ListConnected, Registered
  <2>. QED
    BY <2>4
<1>3. Registered(p)
  BY <1>1, <1>2 DEF ListInv, ListLinks, Registered
<1>4. /\ Predecessor(t) \in Threads
      /\ Registered(Predecessor(t))
      /\ next[Predecessor(t)] = t
  BY <1>2, <1>3 DEF Predecessor
<1>5. Predecessor(t) = p
  BY <1>2, <1>4 DEF ListInv, ListLinks
<1>. QED
  BY <1>1, <1>2, <1>4, <1>5 DEF Registered

(* remove_thread (threading.cpp:52-65) keeps the list in order.            *)
LEMMA UnlinkList ==
  ASSUME Types, ListInv, NEW t \in Threads, pc[t] \in {"exit", "exitWait"},
         Unlink(t)
  PROVE  ListInv'
<1>. USE ConstantsAssumption DEF Types, PointerOrNull, PC
<1>1. /\ t # Main
      /\ Live(t)
      /\ first_thread # Null
      /\ next[t] # Null
  BY DEF ListInv, ListEmpty, MainStays, ListTail, Live, Registered
<1>2. /\ pc' = [pc EXCEPT ![t] = "done"]
      /\ UNCHANGED <<creator, gc_thread, gc_mutex>>
  BY DEF Unlink, Goto, gcVars, joinVars
<1>3. \A u \in Threads : Live(u)' <=> Live(u) /\ u # t
  BY <1>1, <1>2 DEF Live
<1>4. next[t] \in Threads /\ Live(next[t])
  BY <1>1 DEF ListInv, ListLinks
<1>a. CASE first_thread = t
  <2>1. /\ first_thread' = next[t]
        /\ next' = [next EXCEPT ![t] = Null]
    BY <1>a DEF Unlink
  <2>2. next[t] # t
    BY <1>1, <1>a DEF ListInv, ListHead
  <2>3. ListHead' /\ ListLinks' /\ ListTail' /\ MainStays' /\ ListEmpty'
    BY <1>1, <1>2, <1>3, <1>4, <1>a, <2>1, <2>2
       DEF ListInv, ListHead, ListLinks, ListTail, MainStays, ListEmpty,
           Registered
  <2>4. ASSUME NEW S \in SUBSET Threads, Closed(S)',
               NEW u \in Threads, Registered(u)'
        PROVE  u \in S
    <3>1. Closed(S \cup {t})
      BY <1>1, <1>a, <2>1, <2>4 DEF Closed
    <3>2. Registered(u) /\ u # t
      BY <1>1, <1>3, <2>4 DEF Registered
    <3>. QED
      BY <3>1, <3>2 DEF ListInv, ListConnected
  <2>. QED
    BY <2>3, <2>4 DEF ListInv, ListConnected
<1>b. CASE first_thread # t
  <2>. DEFINE p == Predecessor(t)
  <2>1. /\ first_thread' = first_thread
        /\ next' = [next EXCEPT ![p] = next[t], ![t] = Null]
    BY <1>b DEF Unlink
  <2>2. p \in Threads /\ p # t /\ Live(p) /\ next[p] = t
    BY <1>1, <1>b, UnlinkPredecessor
  <2>. HIDE DEF p
  <2>3. next[t] # t
    BY <1>1, <2>2 DEF ListInv, ListLinks
  <2>5. /\ next'[p] = next[t]
        /\ next'[t] = Null
        /\ \A u \in Threads \ {p, t} : next'[u] = next[u] /\ next[u] # t
    BY <2>1, <2>2, <1>1 DEF ListInv, ListLinks
  <2>6. ListHead' /\ ListTail' /\ MainStays' /\ ListEmpty'
    BY <1>1, <1>2, <1>3, <1>4, <1>b, <2>1, <2>2, <2>3, <2>5
       DEF ListInv, ListHead, ListTail, MainStays, ListEmpty, Registered
  <2>7. ListLinks'
    BY <1>1, <1>2, <1>3, <1>4, <1>b, <2>1, <2>2, <2>3, <2>5
       DEF ListInv, ListLinks
  <2>8. ASSUME NEW S \in SUBSET Threads, Closed(S)',
               NEW u \in Threads, Registered(u)'
        PROVE  u \in S
    <3>1. Registered(u) /\ u # t
      BY <1>1, <1>3, <2>8 DEF Registered
    <3>2. \A x \in S : next'[x] # Null => next'[x] \in S
      BY <2>8 DEF Closed
    <3>3. first_thread \in S
      BY <1>1, <2>1, <2>8 DEF Closed
    <3>4. CASE p \in S
      <4>1. Closed(S \cup {t})
        <5>. SUFFICES ASSUME NEW x \in S \cup {t}, next[x] # Null
                      PROVE  next[x] \in S \cup {t}
          BY <3>3 DEF Closed
        <5>1. CASE x = t
          BY <5>1, <3>4, <3>2, <2>5
        <5>2. CASE x = p
          BY <5>2, <2>2
        <5>3. CASE x \notin {t, p}
          BY <5>3, <3>2, <2>5
        <5>. QED
          BY <5>1, <5>2, <5>3
      <4>. QED
        BY <4>1, <3>1 DEF ListInv, ListConnected
    <3>5. CASE p \notin S
      <4>1. Closed(S \ {t})
        <5>. SUFFICES ASSUME NEW x \in S \ {t}, next[x] # Null
                      PROVE  next[x] \in S \ {t}
          BY <3>3, <1>b DEF Closed
        <5>. QED
          BY <3>5, <3>2, <2>5
      <4>2. Registered(p)
        BY <1>1, <2>2 DEF Registered
      <4>. QED
        BY <4>1, <4>2, <2>2, <3>5 DEF ListInv, ListConnected
    <3>. QED
      BY <3>4, <3>5
  <2>. QED
    BY <2>6, <2>7, <2>8 DEF ListInv, ListConnected
<1>. QED
  BY <1>a, <1>b

(* Every step keeps the list in order.                                     *)
LEMMA ListStep ==
  ASSUME Types, ListInv, [Next]_vars
  PROVE  ListInv'
<1>. USE ConstantsAssumption DEF Types, PointerOrNull, ListInv, ListEmpty,
      MainStays, ListHead, ListLinks, ListTail, ListConnected, Closed,
      Registered, Live, Goto, PC, vars, listVars, flagVars, gcVars, waitVars,
      joinVars
<1>1. ASSUME NEW t \in Threads, start_routine_wait(t) PROVE ListInv'
  BY <1>1 DEF start_routine_wait, WaitFinished
<1>2. ASSUME NEW t \in Threads, start_routine_pass(t) PROVE ListInv'
  BY <1>2 DEF start_routine_pass, PushHandler
<1>3. ASSUME NEW t \in Threads, start_routine_woken(t) PROVE ListInv'
  BY <1>3 DEF start_routine_woken, Woken, PushHandler
<1>4. ASSUME NEW t \in Threads, without_gc_wait(t) PROVE ListInv'
  BY <1>4 DEF without_gc_wait, ParkUntilFinished, enter_safepoint,
      SignalReached, WaitFinished
<1>5. ASSUME NEW t \in Threads, without_gc_pass(t) PROVE ListInv'
  BY <1>5 DEF without_gc_pass, ReturnToUser, exit_safepoint
<1>6. ASSUME NEW t \in Threads, without_gc_woken(t) PROVE ListInv'
  BY <1>6 DEF without_gc_woken, Woken, ReturnToUser, exit_safepoint
<1>7. ASSUME NEW t \in Threads, gc_refused(t) PROVE ListInv'
  BY <1>7 DEF gc_refused, create_first_handler
<1>8. ASSUME NEW t \in Threads, gc_start(t) PROVE ListInv'
  BY <1>8 DEF gc_start, MayCollect, create_first_handler, enter_safepoint
<1>9. ASSUME NEW t \in Threads, gc_wait(t) PROVE ListInv'
  BY <1>9 DEF gc_wait, ParkUntilFinished, enter_safepoint, SignalReached,
      WaitFinished
<1>10. ASSUME NEW t \in Threads, gc_woken(t) PROVE ListInv'
  BY <1>10 DEF gc_woken, Woken, ReturnToUser, exit_safepoint
<1>11. ASSUME NEW t \in Threads, ScanWait(t) PROVE ListInv'
  BY <1>11 DEF ScanWait, thread_in_safepoint
<1>12. ASSUME NEW t \in Threads, ScanWoken(t) PROVE ListInv'
  BY <1>12 DEF ScanWoken
<1>13. ASSUME NEW t \in Threads, ScanHandler(t) PROVE ListInv'
  BY <1>13 DEF ScanHandler, thread_in_safepoint
<1>14. ASSUME NEW t \in Threads, ScanDone(t) PROVE ListInv'
  BY <1>14 DEF ScanDone, Move
<1>15. ASSUME NEW t \in Threads, gc_finish(t) PROVE ListInv'
  BY <1>15 DEF gc_finish, exit_safepoint, BroadcastFinished
<1>16. ASSUME NEW t \in Threads, pthread_join_returns(t) PROVE ListInv'
  BY <1>16 DEF pthread_join_returns
<1>17. ASSUME NEW t \in Threads, thread_join_leave(t) PROVE ListInv'
  BY <1>17 DEF thread_join_leave, ReturnToUser, exit_safepoint
<1>18. ASSUME NEW t \in Threads, remove_thread_wait(t) PROVE ListInv'
  BY <1>18 DEF remove_thread_wait, ParkUntilFinished, enter_safepoint,
      SignalReached, WaitFinished
<1>19. ASSUME NEW t \in Threads, remove_thread_pass(t) PROVE ListInv'
  BY <1>19, UnlinkList DEF remove_thread_pass
<1>20. ASSUME NEW t \in Threads, remove_thread_woken(t) PROVE ListInv'
  BY <1>20, UnlinkList DEF remove_thread_woken
<1>21. ASSUME NEW t \in Threads, safepoint(t) PROVE ListInv'
  BY <1>21 DEF safepoint, Move
<1>22. ASSUME NEW t \in Threads, BeginConstruction(t) PROVE ListInv'
  BY <1>22 DEF BeginConstruction, SetNesting
<1>23. ASSUME NEW t \in Threads, EndConstruction(t) PROVE ListInv'
  BY <1>23 DEF EndConstruction, SetNesting
<1>24. ASSUME NEW t \in Threads, CallGc(t) PROVE ListInv'
  BY <1>24 DEF CallGc, Move
<1>25. ASSUME NEW t \in Threads, EndRoutine(t) PROVE ListInv'
  BY <1>25 DEF EndRoutine, Move
<1>26. ASSUME NEW t \in Threads, NEW u \in Threads, thread_create(t, u)
      PROVE  ListInv'
  BY <1>26 DEF thread_create, create_first_handler
<1>27. ASSUME NEW t \in Threads, NEW u \in Threads, thread_join(t, u)
      PROVE  ListInv'
  BY <1>27 DEF thread_join, enter_safepoint, SignalReached
<1>28. ASSUME NEW t \in Threads, SpuriousWakeup(t) PROVE ListInv'
  BY <1>28 DEF SpuriousWakeup
<1>29. CASE UNCHANGED vars
  BY <1>29
<1>30. QED
  BY <1>1, <1>2, <1>3, <1>4, <1>5, <1>6, <1>7, <1>8, <1>9, <1>10, <1>11,
      <1>12, <1>13, <1>14, <1>15, <1>16, <1>17, <1>18, <1>19, <1>20, <1>21,
      <1>22, <1>23, <1>24, <1>25, <1>26, <1>27, <1>28, <1>29 DEF Next,
      Protocol, User

(* When the head has no successor, no other thread is registered.          *)
LEMMA SoleHandler ==
  ASSUME Types, ListInv, first_thread # Null, next[first_thread] = Null
  PROVE  \A t \in Threads : Registered(t) => t = first_thread
<1>. DEFINE S == {first_thread}
<1>1. S \in SUBSET Threads /\ Closed(S)
  BY DEF Types, PointerOrNull, Closed
<1>2. \A t \in Threads : Registered(t) => t \in S
  BY <1>1 DEF ListInv, ListConnected
<1>. QED
  BY <1>2

(* more_than_one follows the length of the list.                           *)
LEMMA MoreStep ==
  ASSUME Types, ListInv, MoreInv, [Next]_vars
  PROVE  MoreInv'
<1>. USE ConstantsAssumption DEF Types, PointerOrNull, ListInv, ListEmpty,
      MainStays, ListHead, ListLinks, ListTail, Registered, Live, MoreInv,
      Goto, PC, vars, listVars, flagVars, gcVars, waitVars, joinVars
<1>1. ASSUME NEW t \in Threads, start_routine_wait(t) PROVE MoreInv'
  BY <1>1 DEF start_routine_wait, WaitFinished
<1>2. ASSUME NEW t \in Threads, start_routine_pass(t) PROVE MoreInv'
  BY <1>2 DEF start_routine_pass, PushHandler
<1>3. ASSUME NEW t \in Threads, start_routine_woken(t) PROVE MoreInv'
  BY <1>3 DEF start_routine_woken, Woken, PushHandler
<1>4. ASSUME NEW t \in Threads, without_gc_wait(t) PROVE MoreInv'
  BY <1>4 DEF without_gc_wait, ParkUntilFinished, enter_safepoint,
      SignalReached, WaitFinished
<1>5. ASSUME NEW t \in Threads, without_gc_pass(t) PROVE MoreInv'
  BY <1>5 DEF without_gc_pass, ReturnToUser, exit_safepoint
<1>6. ASSUME NEW t \in Threads, without_gc_woken(t) PROVE MoreInv'
  BY <1>6 DEF without_gc_woken, Woken, ReturnToUser, exit_safepoint
<1>7. ASSUME NEW t \in Threads, gc_refused(t) PROVE MoreInv'
  BY <1>7 DEF gc_refused, create_first_handler
<1>8. ASSUME NEW t \in Threads, gc_start(t) PROVE MoreInv'
  BY <1>8 DEF gc_start, MayCollect, create_first_handler, enter_safepoint
<1>9. ASSUME NEW t \in Threads, gc_wait(t) PROVE MoreInv'
  BY <1>9 DEF gc_wait, ParkUntilFinished, enter_safepoint, SignalReached,
      WaitFinished
<1>10. ASSUME NEW t \in Threads, gc_woken(t) PROVE MoreInv'
  BY <1>10 DEF gc_woken, Woken, ReturnToUser, exit_safepoint
<1>11. ASSUME NEW t \in Threads, ScanWait(t) PROVE MoreInv'
  BY <1>11 DEF ScanWait, thread_in_safepoint
<1>12. ASSUME NEW t \in Threads, ScanWoken(t) PROVE MoreInv'
  BY <1>12 DEF ScanWoken
<1>13. ASSUME NEW t \in Threads, ScanHandler(t) PROVE MoreInv'
  BY <1>13 DEF ScanHandler, thread_in_safepoint
<1>14. ASSUME NEW t \in Threads, ScanDone(t) PROVE MoreInv'
  BY <1>14 DEF ScanDone, Move
<1>15. ASSUME NEW t \in Threads, gc_finish(t) PROVE MoreInv'
  BY <1>15 DEF gc_finish, exit_safepoint, BroadcastFinished
<1>16. ASSUME NEW t \in Threads, pthread_join_returns(t) PROVE MoreInv'
  BY <1>16 DEF pthread_join_returns
<1>17. ASSUME NEW t \in Threads, thread_join_leave(t) PROVE MoreInv'
  BY <1>17 DEF thread_join_leave, ReturnToUser, exit_safepoint
<1>18. ASSUME NEW t \in Threads, remove_thread_wait(t) PROVE MoreInv'
  BY <1>18 DEF remove_thread_wait, ParkUntilFinished, enter_safepoint,
      SignalReached, WaitFinished
<1>19. ASSUME NEW t \in Threads, remove_thread_pass(t) PROVE MoreInv'
  <2>1. /\ first_thread # Null
        /\ t # Main
        /\ next[t] # Null
    BY <1>19 DEF remove_thread_pass
  <2>2. more_than_one
    BY <1>19, <2>1, SoleHandler DEF remove_thread_pass
  <2>. QED
    BY <1>19, <2>1, <2>2 DEF remove_thread_pass, Unlink, MoreThanOneLeft
<1>20. ASSUME NEW t \in Threads, remove_thread_woken(t) PROVE MoreInv'
  <2>1. /\ first_thread # Null
        /\ t # Main
        /\ next[t] # Null
    BY <1>20 DEF remove_thread_woken
  <2>2. more_than_one
    BY <1>20, <2>1, SoleHandler DEF remove_thread_woken
  <2>. QED
    BY <1>20, <2>1, <2>2 DEF remove_thread_woken, Unlink, MoreThanOneLeft
<1>21. ASSUME NEW t \in Threads, safepoint(t) PROVE MoreInv'
  BY <1>21 DEF safepoint, Move
<1>22. ASSUME NEW t \in Threads, BeginConstruction(t) PROVE MoreInv'
  BY <1>22 DEF BeginConstruction, SetNesting
<1>23. ASSUME NEW t \in Threads, EndConstruction(t) PROVE MoreInv'
  BY <1>23 DEF EndConstruction, SetNesting
<1>24. ASSUME NEW t \in Threads, CallGc(t) PROVE MoreInv'
  BY <1>24 DEF CallGc, Move
<1>25. ASSUME NEW t \in Threads, EndRoutine(t) PROVE MoreInv'
  BY <1>25 DEF EndRoutine, Move
<1>26. ASSUME NEW t \in Threads, NEW u \in Threads, thread_create(t, u)
      PROVE  MoreInv'
  BY <1>26 DEF thread_create, create_first_handler
<1>27. ASSUME NEW t \in Threads, NEW u \in Threads, thread_join(t, u)
      PROVE  MoreInv'
  BY <1>27 DEF thread_join, enter_safepoint, SignalReached
<1>28. ASSUME NEW t \in Threads, SpuriousWakeup(t) PROVE MoreInv'
  BY <1>28 DEF SpuriousWakeup
<1>29. CASE UNCHANGED vars
  BY <1>29
<1>30. QED
  BY <1>1, <1>2, <1>3, <1>4, <1>5, <1>6, <1>7, <1>8, <1>9, <1>10, <1>11,
      <1>12, <1>13, <1>14, <1>15, <1>16, <1>17, <1>18, <1>19, <1>20, <1>21,
      <1>22, <1>23, <1>24, <1>25, <1>26, <1>27, <1>28, <1>29 DEF Next,
      Protocol, User

-----------------------------------------------------------------------------
(* The handler on which the collector sleeps stays on the list.            *)
LEMMA CursorStep ==
  ASSUME ~disturbed', Types, OneCollector, SafepointFlags, WakeInv, ListInv,
      CursorInv, [Next]_vars
  PROVE  CursorInv'
<1>. USE ConstantsAssumption DEF Types, PointerOrNull, ListInv, ListEmpty,
      MainStays, ListHead, ListLinks, Registered, Live, CursorInv,
      OneCollector, Collecting, SafepointFlags, Parked, WakeInv,
      WaitersAsleep, NoOrphanWaiter, Goto, PC, vars, listVars, flagVars,
      gcVars, waitVars, joinVars
<1>1. ASSUME NEW t \in Threads, start_routine_wait(t) PROVE CursorInv'
  BY <1>1 DEF start_routine_wait, WaitFinished
<1>2. ASSUME NEW t \in Threads, start_routine_pass(t) PROVE CursorInv'
  BY <1>2 DEF start_routine_pass, PushHandler
<1>3. ASSUME NEW t \in Threads, start_routine_woken(t) PROVE CursorInv'
  BY <1>3 DEF start_routine_woken, Woken, PushHandler
<1>4. ASSUME NEW t \in Threads, without_gc_wait(t) PROVE CursorInv'
  BY <1>4 DEF without_gc_wait, ParkUntilFinished, enter_safepoint,
      SignalReached, WaitFinished
<1>5. ASSUME NEW t \in Threads, without_gc_pass(t) PROVE CursorInv'
  BY <1>5 DEF without_gc_pass, ReturnToUser, exit_safepoint
<1>6. ASSUME NEW t \in Threads, without_gc_woken(t) PROVE CursorInv'
  BY <1>6 DEF without_gc_woken, Woken, ReturnToUser, exit_safepoint
<1>7. ASSUME NEW t \in Threads, gc_refused(t) PROVE CursorInv'
  BY <1>7 DEF gc_refused, create_first_handler
<1>8. ASSUME NEW t \in Threads, gc_start(t) PROVE CursorInv'
  BY <1>8 DEF gc_start, MayCollect, create_first_handler, enter_safepoint
<1>9. ASSUME NEW t \in Threads, gc_wait(t) PROVE CursorInv'
  BY <1>9 DEF gc_wait, ParkUntilFinished, enter_safepoint, SignalReached,
      WaitFinished
<1>10. ASSUME NEW t \in Threads, gc_woken(t) PROVE CursorInv'
  BY <1>10 DEF gc_woken, Woken, ReturnToUser, exit_safepoint
<1>11. ASSUME NEW t \in Threads, ScanWait(t) PROVE CursorInv'
  BY <1>11 DEF ScanWait, thread_in_safepoint
<1>12. ASSUME NEW t \in Threads, ScanWoken(t) PROVE CursorInv'
  BY <1>12 DEF ScanWoken
<1>13. ASSUME NEW t \in Threads, ScanHandler(t) PROVE CursorInv'
  BY <1>13 DEF ScanHandler, thread_in_safepoint
<1>14. ASSUME NEW t \in Threads, ScanDone(t) PROVE CursorInv'
  BY <1>14 DEF ScanDone, Move
<1>15. ASSUME NEW t \in Threads, gc_finish(t) PROVE CursorInv'
  BY <1>15 DEF gc_finish, exit_safepoint, BroadcastFinished
<1>16. ASSUME NEW t \in Threads, pthread_join_returns(t) PROVE CursorInv'
  BY <1>16 DEF pthread_join_returns
<1>17. ASSUME NEW t \in Threads, thread_join_leave(t) PROVE CursorInv'
  BY <1>17 DEF thread_join_leave, ReturnToUser, exit_safepoint
<1>18. ASSUME NEW t \in Threads, remove_thread_wait(t) PROVE CursorInv'
  BY <1>18 DEF remove_thread_wait, ParkUntilFinished, enter_safepoint,
      SignalReached, WaitFinished
<1>19. ASSUME NEW t \in Threads, remove_thread_pass(t) PROVE CursorInv'
  BY <1>19 DEF remove_thread_pass, Unlink, exit_safepoint
<1>20. ASSUME NEW t \in Threads, remove_thread_woken(t) PROVE CursorInv'
  <2>1. cursor # t
    <3>1. CASE gc_thread = Null
      BY <3>1
    <3>2. CASE gc_thread # Null
      <4>1. gc_thread \in Threads /\ pc[gc_thread] = "scanWait"
        BY <1>20, <3>2 DEF remove_thread_woken, Woken
      <4>2. in_safepoint[t] /\ t \notin finished_waiters /\ pc[t] = "exitWait"
        BY <1>20 DEF remove_thread_woken, Woken
      <4>. QED
        BY <4>1, <4>2
    <3>. QED
      BY <3>1, <3>2
  <2>2. /\ pc' = [pc EXCEPT ![t] = "done"]
        /\ in_safepoint' = [in_safepoint EXCEPT ![t] = FALSE]
        /\ UNCHANGED <<cursor, gc_thread, finished_waiters>>
        /\ pc[t] = "exitWait"
    BY <1>20 DEF remove_thread_woken, Unlink, exit_safepoint
  <2>3. first_thread' # Null
    <3>1. ListInv'
      BY <1>20, UnlinkList DEF remove_thread_woken
    <3>. QED
      BY <2>2, <3>1
  <2>. QED
    BY <2>1, <2>2, <2>3
<1>21. ASSUME NEW t \in Threads, safepoint(t) PROVE CursorInv'
  BY <1>21 DEF safepoint, Move
<1>22. ASSUME NEW t \in Threads, BeginConstruction(t) PROVE CursorInv'
  BY <1>22 DEF BeginConstruction, SetNesting
<1>23. ASSUME NEW t \in Threads, EndConstruction(t) PROVE CursorInv'
  BY <1>23 DEF EndConstruction, SetNesting
<1>24. ASSUME NEW t \in Threads, CallGc(t) PROVE CursorInv'
  BY <1>24 DEF CallGc, Move
<1>25. ASSUME NEW t \in Threads, EndRoutine(t) PROVE CursorInv'
  BY <1>25 DEF EndRoutine, Move
<1>26. ASSUME NEW t \in Threads, NEW u \in Threads, thread_create(t, u)
      PROVE  CursorInv'
  BY <1>26 DEF thread_create, create_first_handler
<1>27. ASSUME NEW t \in Threads, NEW u \in Threads, thread_join(t, u)
      PROVE  CursorInv'
  BY <1>27 DEF thread_join, enter_safepoint, SignalReached
<1>28. ASSUME NEW t \in Threads, SpuriousWakeup(t) PROVE CursorInv'
  BY <1>28 DEF SpuriousWakeup
<1>29. CASE UNCHANGED vars
  BY <1>29
<1>30. QED
  BY <1>1, <1>2, <1>3, <1>4, <1>5, <1>6, <1>7, <1>8, <1>9, <1>10, <1>11,
      <1>12, <1>13, <1>14, <1>15, <1>16, <1>17, <1>18, <1>19, <1>20, <1>21,
      <1>22, <1>23, <1>24, <1>25, <1>26, <1>27, <1>28, <1>29 DEF Next,
      Protocol, User

(* Two threads: a thread that was walked stays parked until gc_finish.     *)
LEMMA PairStep ==
  ASSUME Pair, Types, OneCollector, SafepointFlags, WakeInv, ListInv,
      CursorInv, PairInv, [Next]_vars
  PROVE  PairInv'
<1>. USE ConstantsAssumption DEF Types, PointerOrNull, ListInv, ListEmpty,
      MainStays, ListHead, ListLinks, Registered, Live, CursorInv,
      OneCollector, Collecting, SafepointFlags, Parked, WakeInv,
      WaitersAsleep, PairInv, Pair, Goto, PC, vars, listVars, flagVars,
      gcVars, waitVars, joinVars
<1>1. ASSUME NEW t \in Threads, start_routine_wait(t) PROVE PairInv'
  BY <1>1 DEF start_routine_wait, WaitFinished
<1>2. ASSUME NEW t \in Threads, start_routine_pass(t) PROVE PairInv'
  BY <1>2 DEF start_routine_pass, PushHandler
<1>3. ASSUME NEW t \in Threads, start_routine_woken(t) PROVE PairInv'
  BY <1>3 DEF start_routine_woken, Woken, PushHandler
<1>4. ASSUME NEW t \in Threads, without_gc_wait(t) PROVE PairInv'
  BY <1>4 DEF without_gc_wait, ParkUntilFinished, enter_safepoint,
      SignalReached, WaitFinished
<1>5. ASSUME NEW t \in Threads, without_gc_pass(t) PROVE PairInv'
  BY <1>5 DEF without_gc_pass, ReturnToUser, exit_safepoint
<1>6. ASSUME NEW t \in Threads, without_gc_woken(t) PROVE PairInv'
  BY <1>6 DEF without_gc_woken, Woken, ReturnToUser, exit_safepoint
<1>7. ASSUME NEW t \in Threads, gc_refused(t) PROVE PairInv'
  BY <1>7 DEF gc_refused, create_first_handler
<1>8. ASSUME NEW t \in Threads, gc_start(t) PROVE PairInv'
  BY <1>8 DEF gc_start, MayCollect, create_first_handler, enter_safepoint
<1>9. ASSUME NEW t \in Threads, gc_wait(t) PROVE PairInv'
  BY <1>9 DEF gc_wait, ParkUntilFinished, enter_safepoint, SignalReached,
      WaitFinished
<1>10. ASSUME NEW t \in Threads, gc_woken(t) PROVE PairInv'
  BY <1>10 DEF gc_woken, Woken, ReturnToUser, exit_safepoint
<1>11. ASSUME NEW t \in Threads, ScanWait(t) PROVE PairInv'
  BY <1>11 DEF ScanWait, thread_in_safepoint
<1>12. ASSUME NEW t \in Threads, ScanWoken(t) PROVE PairInv'
  BY <1>12 DEF ScanWoken
<1>13. ASSUME NEW t \in Threads, ScanHandler(t) PROVE PairInv'
  BY <1>13 DEF ScanHandler, thread_in_safepoint
<1>14. ASSUME NEW t \in Threads, ScanDone(t) PROVE PairInv'
  <2>1. Collecting(t) /\ first_thread # Null
    BY <1>14 DEF ScanDone, Move
  <2>2. next[first_thread] = Null =>
            \A u \in Threads : Live(u) <=> u = first_thread
    BY <2>1, SoleHandler
  <2>3. cursor = Null /\ pc[t] = "scan"
    BY <1>14 DEF ScanDone, Move
  <2>4. \A u \in Threads : u \in marked <=> Live(u)
    BY <2>1, <2>2, <2>3
  <2>. QED
    BY <1>14, <2>4 DEF ScanDone, Move
<1>15. ASSUME NEW t \in Threads, gc_finish(t) PROVE PairInv'
  BY <1>15 DEF gc_finish, exit_safepoint, BroadcastFinished
<1>16. ASSUME NEW t \in Threads, pthread_join_returns(t) PROVE PairInv'
  BY <1>16 DEF pthread_join_returns
<1>17. ASSUME NEW t \in Threads, thread_join_leave(t) PROVE PairInv'
  BY <1>17 DEF thread_join_leave, ReturnToUser, exit_safepoint
<1>18. ASSUME NEW t \in Threads, remove_thread_wait(t) PROVE PairInv'
  BY <1>18 DEF remove_thread_wait, ParkUntilFinished, enter_safepoint,
      SignalReached, WaitFinished
<1>19. ASSUME NEW t \in Threads, remove_thread_pass(t) PROVE PairInv'
  BY <1>19 DEF remove_thread_pass, Unlink, exit_safepoint
<1>20. ASSUME NEW t \in Threads, remove_thread_woken(t) PROVE PairInv'
  BY <1>20 DEF remove_thread_woken, Woken, Unlink, exit_safepoint
<1>21. ASSUME NEW t \in Threads, safepoint(t) PROVE PairInv'
  BY <1>21 DEF safepoint, Move
<1>22. ASSUME NEW t \in Threads, BeginConstruction(t) PROVE PairInv'
  BY <1>22 DEF BeginConstruction, SetNesting
<1>23. ASSUME NEW t \in Threads, EndConstruction(t) PROVE PairInv'
  BY <1>23 DEF EndConstruction, SetNesting
<1>24. ASSUME NEW t \in Threads, CallGc(t) PROVE PairInv'
  BY <1>24 DEF CallGc, Move
<1>25. ASSUME NEW t \in Threads, EndRoutine(t) PROVE PairInv'
  BY <1>25 DEF EndRoutine, Move
<1>26. ASSUME NEW t \in Threads, NEW u \in Threads, thread_create(t, u)
      PROVE  PairInv'
  BY <1>26 DEF thread_create, create_first_handler
<1>27. ASSUME NEW t \in Threads, NEW u \in Threads, thread_join(t, u)
      PROVE  PairInv'
  BY <1>27 DEF thread_join, enter_safepoint, SignalReached
<1>28. ASSUME NEW t \in Threads, SpuriousWakeup(t) PROVE PairInv'
  BY <1>28 DEF SpuriousWakeup
<1>29. CASE UNCHANGED vars
  BY <1>29
<1>30. QED
  BY <1>1, <1>2, <1>3, <1>4, <1>5, <1>6, <1>7, <1>8, <1>9, <1>10, <1>11,
      <1>12, <1>13, <1>14, <1>15, <1>16, <1>17, <1>18, <1>19, <1>20, <1>21,
      <1>22, <1>23, <1>24, <1>25, <1>26, <1>27, <1>28, <1>29 DEF Next,
      Protocol, User

(* Two threads: every step is a step of the barrier or a stutter.          *)
LEMMA BarrierStep ==
  ASSUME Pair, Types, OneCollector, SafepointFlags, WakeInv, ListInv,
      CursorInv, PairInv, [Next]_vars
  PROVE  [Barrier!Next]_(Barrier!vars)
<1>. USE ConstantsAssumption DEF Types, PointerOrNull, ListInv, ListEmpty,
      MainStays, ListHead, ListLinks, Registered, Live, CursorInv,
      OneCollector, Collecting, SafepointFlags, Parked, WakeInv,
      WaitersAsleep, PairInv, Pair, Barrier!Next, Barrier!vars, Barrier!Enter,
      Barrier!Resume, Barrier!Stop, Barrier!Leave, Barrier!Begin,
      Barrier!Capture, Barrier!End, Goto, PC, vars, listVars, flagVars,
      gcVars, waitVars, joinVars
<1>1. ASSUME NEW t \in Threads, start_routine_wait(t)
      PROVE  [Barrier!Next]_(Barrier!vars)
  BY <1>1 DEF start_routine_wait, WaitFinished
<1>2. ASSUME NEW t \in Threads, start_routine_pass(t)
      PROVE  [Barrier!Next]_(Barrier!vars)
  BY <1>2 DEF start_routine_pass, PushHandler
<1>3. ASSUME NEW t \in Threads, start_routine_woken(t)
      PROVE  [Barrier!Next]_(Barrier!vars)
  BY <1>3 DEF start_routine_woken, Woken, PushHandler
<1>4. ASSUME NEW t \in Threads, without_gc_wait(t)
      PROVE  [Barrier!Next]_(Barrier!vars)
  BY <1>4 DEF without_gc_wait, ParkUntilFinished, enter_safepoint,
      SignalReached, WaitFinished
<1>5. ASSUME NEW t \in Threads, without_gc_pass(t)
      PROVE  [Barrier!Next]_(Barrier!vars)
  BY <1>5 DEF without_gc_pass, ReturnToUser, exit_safepoint
<1>6. ASSUME NEW t \in Threads, without_gc_woken(t)
      PROVE  [Barrier!Next]_(Barrier!vars)
  BY <1>6 DEF without_gc_woken, Woken, ReturnToUser, exit_safepoint
<1>7. ASSUME NEW t \in Threads, gc_refused(t)
      PROVE  [Barrier!Next]_(Barrier!vars)
  BY <1>7 DEF gc_refused, create_first_handler
<1>8. ASSUME NEW t \in Threads, gc_start(t)
      PROVE  [Barrier!Next]_(Barrier!vars)
  BY <1>8 DEF gc_start, MayCollect, create_first_handler, enter_safepoint
<1>9. ASSUME NEW t \in Threads, gc_wait(t) PROVE [Barrier!Next]_(Barrier!vars)
  BY <1>9 DEF gc_wait, ParkUntilFinished, enter_safepoint, SignalReached,
      WaitFinished
<1>10. ASSUME NEW t \in Threads, gc_woken(t)
      PROVE  [Barrier!Next]_(Barrier!vars)
  BY <1>10 DEF gc_woken, Woken, ReturnToUser, exit_safepoint
<1>11. ASSUME NEW t \in Threads, ScanWait(t)
      PROVE  [Barrier!Next]_(Barrier!vars)
  BY <1>11 DEF ScanWait, thread_in_safepoint
<1>12. ASSUME NEW t \in Threads, ScanWoken(t)
      PROVE  [Barrier!Next]_(Barrier!vars)
  BY <1>12 DEF ScanWoken
<1>13. ASSUME NEW t \in Threads, ScanHandler(t)
      PROVE  [Barrier!Next]_(Barrier!vars)
  BY <1>13 DEF ScanHandler, thread_in_safepoint
<1>14. ASSUME NEW t \in Threads, ScanDone(t)
      PROVE  [Barrier!Next]_(Barrier!vars)
  BY <1>14 DEF ScanDone, Move
<1>15. ASSUME NEW t \in Threads, gc_finish(t)
      PROVE  [Barrier!Next]_(Barrier!vars)
  BY <1>15 DEF gc_finish, exit_safepoint, BroadcastFinished
<1>16. ASSUME NEW t \in Threads, pthread_join_returns(t)
      PROVE  [Barrier!Next]_(Barrier!vars)
  BY <1>16 DEF pthread_join_returns
<1>17. ASSUME NEW t \in Threads, thread_join_leave(t)
      PROVE  [Barrier!Next]_(Barrier!vars)
  BY <1>17 DEF thread_join_leave, ReturnToUser, exit_safepoint
<1>18. ASSUME NEW t \in Threads, remove_thread_wait(t)
      PROVE  [Barrier!Next]_(Barrier!vars)
  BY <1>18 DEF remove_thread_wait, ParkUntilFinished, enter_safepoint,
      SignalReached, WaitFinished
<1>19. ASSUME NEW t \in Threads, remove_thread_pass(t)
      PROVE  [Barrier!Next]_(Barrier!vars)
  BY <1>19 DEF remove_thread_pass, Unlink, exit_safepoint
<1>20. ASSUME NEW t \in Threads, remove_thread_woken(t)
      PROVE  [Barrier!Next]_(Barrier!vars)
  BY <1>20 DEF remove_thread_woken, Woken, Unlink, exit_safepoint
<1>21. ASSUME NEW t \in Threads, safepoint(t)
      PROVE  [Barrier!Next]_(Barrier!vars)
  BY <1>21 DEF safepoint, Move
<1>22. ASSUME NEW t \in Threads, BeginConstruction(t)
      PROVE  [Barrier!Next]_(Barrier!vars)
  BY <1>22 DEF BeginConstruction, SetNesting
<1>23. ASSUME NEW t \in Threads, EndConstruction(t)
      PROVE  [Barrier!Next]_(Barrier!vars)
  BY <1>23 DEF EndConstruction, SetNesting
<1>24. ASSUME NEW t \in Threads, CallGc(t) PROVE [Barrier!Next]_(Barrier!vars)
  BY <1>24 DEF CallGc, Move
<1>25. ASSUME NEW t \in Threads, EndRoutine(t)
      PROVE  [Barrier!Next]_(Barrier!vars)
  BY <1>25 DEF EndRoutine, Move
<1>26. ASSUME NEW t \in Threads, NEW u \in Threads, thread_create(t, u)
      PROVE  [Barrier!Next]_(Barrier!vars)
  BY <1>26 DEF thread_create, create_first_handler
<1>27. ASSUME NEW t \in Threads, NEW u \in Threads, thread_join(t, u)
      PROVE  [Barrier!Next]_(Barrier!vars)
  BY <1>27 DEF thread_join, enter_safepoint, SignalReached
<1>28. ASSUME NEW t \in Threads, SpuriousWakeup(t)
      PROVE  [Barrier!Next]_(Barrier!vars)
  BY <1>28 DEF SpuriousWakeup
<1>29. CASE UNCHANGED vars
  BY <1>29
<1>30. QED
  BY <1>1, <1>2, <1>3, <1>4, <1>5, <1>6, <1>7, <1>8, <1>9, <1>10, <1>11,
      <1>12, <1>13, <1>14, <1>15, <1>16, <1>17, <1>18, <1>19, <1>20, <1>21,
      <1>22, <1>23, <1>24, <1>25, <1>26, <1>27, <1>28, <1>29 DEF Next,
      Protocol, User

-----------------------------------------------------------------------------
(* The layers, from the initial states on. *)
LEMMA InvInit ==
  ASSUME Init
  PROVE  /\ Types /\ OneCollector /\ SafepointFlags /\ WakeInv
         /\ ListInv /\ MoreInv /\ CursorInv /\ PairInv
<1>. USE ConstantsAssumption DEF Init
<1>1. Types
  BY TypeInit
<1>2. OneCollector /\ SafepointFlags /\ WakeInv /\ CursorInv /\ PairInv
  BY DEF OneCollector, SafepointFlags, WakeInv, CursorInv, PairInv,
         Collecting, Parked, WaitersAsleep, NoLostWakeup, NoOrphanWaiter
<1>3. ListInv /\ MoreInv
  BY DEF ListInv, MoreInv, ListEmpty, MainStays, ListHead, ListLinks,
         ListTail, ListConnected, Registered, Live
<1>. QED
  BY <1>1, <1>2, <1>3

(* The types, for the theorems below. *)
LEMMA TypesAlways == Spec => []Types
  BY TypeInit, TypeStep, PTL DEF Spec

(* Once there has been a spurious wakeup, that remains so. *)
LEMMA DisturbedStays ==
  ASSUME [Next]_vars
  PROVE  disturbed' = disturbed \/ (Spurious /\ disturbed' = TRUE)
BY DEF Next, Protocol, User, safepoint, SpuriousWakeup, vars

(* Type correctness. *)
THEOREM TypeCorrect == Spec => []TypeOK
<1>1. Init => disturbed \in BOOLEAN
  BY DEF Init
<1>2. disturbed \in BOOLEAN /\ [Next]_vars => (disturbed \in BOOLEAN)'
  BY DisturbedStays
<1>3. Types /\ disturbed \in BOOLEAN => TypeOK
  BY DEF TypeOK
<1>. QED
  BY <1>1, <1>2, <1>3, TypesAlways, PTL DEF Spec

(* No two threads run mark_and_sweep or clean_deref_roots at once, and the *)
(* collector holds gc_mutex unless it waits for a thread (go.cpp:163-188). *)
THEOREM CollectorExclusion == Spec => []OneCollector
<1>1. Init => OneCollector
  BY InvInit
<1>. QED
  BY <1>1, TypesAlways, CollectorStep, PTL DEF Spec

(* A handler's flag is set exactly while its thread is parked: the roots   *)
(* that the collector walks are those of a parked thread (go.cpp:271-285). *)
THEOREM FlagsTruthful == Spec => []SafepointFlags
<1>1. Init => SafepointFlags
  BY InvInit
<1>. QED
  BY <1>1, TypesAlways, FlagsStep, PTL DEF Spec

(* The sleeping threads, for the next two theorems. *)
LEMMA WakeAlways == Spec => []WakeInv
<1>1. Init => WakeInv
  BY InvInit
<1>. QED
  BY <1>1, TypesAlways, CollectorExclusion, WakeStep, PTL DEF Spec

(* The collector does not sleep through the arrival at a safepoint of the  *)
(* thread it waits for (threading.h:33-37, threading.cpp:124-127).         *)
THEOREM WakeupsKept == Spec => []NoLostWakeup
<1>1. WakeInv => NoLostWakeup
  BY DEF WakeInv
<1>. QED
  BY <1>1, WakeAlways, PTL

(* Who sleeps on gc_is_finished sleeps while a collection runs. *)
THEOREM WaitersHaveCollection == Spec => []NoOrphanWaiter
<1>1. WakeInv => NoOrphanWaiter
  BY DEF WakeInv
<1>. QED
  BY <1>1, WakeAlways, PTL

(* The handler list in order, for the next theorems. *)
LEMMA ListAlways == Spec => [](ListInv /\ MoreInv)
<1>1. Init => ListInv /\ MoreInv
  BY InvInit
<1>. QED
  BY <1>1, TypesAlways, ListStep, MoreStep, PTL DEF Spec

(* The list that the collector walks holds the registered threads, all of  *)
(* them and no other (threading.cpp:50-66, 82-90).                         *)
THEOREM RegistryCorrect == Spec => []RegistryComplete
<1>1. ASSUME Types, ListInv PROVE RegistryComplete
  <2>. DEFINE R == {t \in Threads : Registered(t)}
  <2>. USE ConstantsAssumption DEF Types, PointerOrNull
  <2>1. Closed(R)
    BY <1>1 DEF Closed, ListInv, ListEmpty, ListHead, ListLinks, Registered
  <2>2. Handlers \subseteq R
    BY <2>1 DEF Handlers
  <2>3. R \subseteq Handlers
    BY <1>1 DEF Handlers, ListInv, ListConnected
  <2>. QED
    BY <2>2, <2>3 DEF RegistryComplete
<1>. QED
  BY <1>1, TypesAlways, ListAlways, PTL

(* A thread that reads more_than_one as false is alone (threading.h:47).   *)
THEOREM MoreThanOneCorrect == Spec => []MoreThanOneExact
<1>1. ASSUME Types, ListInv, MoreInv PROVE MoreThanOneExact
  <2>. USE ConstantsAssumption DEF Types, PointerOrNull
  <2>1. CASE first_thread = Null
    BY <1>1, <2>1 DEF ListInv, ListEmpty, MoreThanOneExact, Registered, Live
  <2>2. CASE first_thread # Null /\ next[first_thread] = Null
    <3>1. \A t \in Threads : Registered(t) => t = first_thread
      BY <1>1, <2>2, SoleHandler
    <3>. QED
      BY <1>1, <2>2, <3>1 DEF MoreInv, MoreThanOneExact
  <2>3. CASE first_thread # Null /\ next[first_thread] # Null
    <3>1. /\ Registered(first_thread)
          /\ Registered(next[first_thread])
          /\ next[first_thread] # first_thread
      BY <1>1, <2>3 DEF ListInv, ListHead, ListLinks, Registered
    <3>2. first_thread \in Threads /\ next[first_thread] \in Threads
      BY <1>1, <2>3
    <3>. QED
      BY <1>1, <2>3, <3>1, <3>2 DEF MoreInv, MoreThanOneExact
  <2>. QED
    BY <2>1, <2>2, <2>3
<1>. QED
  BY <1>1, TypesAlways, ListAlways, PTL

(* Until there is a spurious wakeup, the collector's handler stays on the  *)
(* list.                                                                   *)
LEMMA CursorAlways == Spec => [](~disturbed => CursorInv)
<1>1. Init => CursorInv
  BY InvInit
<1>2. /\ Types /\ OneCollector /\ SafepointFlags /\ WakeInv /\ ListInv
      /\ (~disturbed => CursorInv) /\ [Next]_vars
      => (~disturbed => CursorInv)'
  BY CursorStep, DisturbedStays
<1>. QED
  BY <1>1, <1>2, TypesAlways, CollectorExclusion, FlagsTruthful, WakeAlways,
     ListAlways, PTL DEF Spec

(* handler->next (go.cpp:251, 300) is read from a handler on the list.     *)
THEOREM CursorStays == Spec => []CursorOnList
<1>1. (~disturbed => CursorInv) => CursorOnList
  BY DEF CursorInv, CursorOnList
<1>. QED
  BY <1>1, CursorAlways, PTL

(* Without spurious wakeups, in particular for a program of two threads.   *)
LEMMA CursorPair ==
  ASSUME Pair
  PROVE  Spec => []CursorInv
<1>1. Init => ~disturbed
  BY DEF Init
<1>2. ~disturbed /\ [Next]_vars => ~disturbed'
  BY DisturbedStays DEF Pair
<1>. QED
  BY <1>1, <1>2, CursorAlways, PTL DEF Spec

(* Two threads, for the next theorems. *)
LEMMA PairAlways ==
  ASSUME Pair
  PROVE  Spec => []PairInv
<1>1. Init => PairInv
  BY InvInit
<1>2. /\ Types /\ OneCollector /\ SafepointFlags /\ WakeInv /\ ListInv
      /\ CursorInv /\ PairInv /\ [Next]_vars
      => PairInv'
  BY PairStep
<1>3. Spec => []CursorInv
  BY CursorPair
<1>. QED
  BY <1>1, <1>2, <1>3, TypesAlways, CollectorExclusion, FlagsTruthful,
     WakeAlways, ListAlways, PTL DEF Spec

(* With two threads the world is stopped when the heap is swept. *)
THEOREM PairStopsTheWorld ==
  ASSUME Pair
  PROVE  Spec => []StopTheWorld
<1>1. PairInv => StopTheWorld
  BY DEF PairInv, StopTheWorld, Collecting, Parked, Live
<1>. QED
  BY <1>1, PairAlways, PTL

(* With two threads all registered roots are walked before the sweep. *)
THEOREM PairMarksAllRoots ==
  ASSUME Pair
  PROVE  Spec => []AllRootsMarked
<1>1. PairInv => AllRootsMarked
  BY DEF PairInv, AllRootsMarked, Collecting, Registered
<1>. QED
  BY <1>1, PairAlways, PTL

(* With two threads the protocol implements the barrier that a moving      *)
(* collection relies on.                                                   *)
THEOREM PairImplementsBarrier ==
  ASSUME Pair
  PROVE  Spec => ImplementsBarrier
<1>1. ASSUME Init PROVE Barrier!Init
  <2>1. \A t \in Threads : pc[t] = IF t = Main THEN "run" ELSE "unborn"
    BY <1>1 DEF Init
  <2>2. Main \in Threads /\ \A t \in Threads : Live(t) <=> t = Main
    BY <2>1, ConstantsAssumption DEF Live
  <2>3. {t \in Threads : Live(t)} = {Main}
    BY <2>2
  <2>4. {t \in Threads : pc[t] = "run"} = {Main}
    BY <2>1, <2>2
  <2>. QED
    BY <1>1, <2>2, <2>3, <2>4 DEF Init, Barrier!Init
<1>2. /\ Types /\ OneCollector /\ SafepointFlags /\ WakeInv /\ ListInv
      /\ CursorInv /\ PairInv /\ [Next]_vars
      => [Barrier!Next]_(Barrier!vars)
  BY BarrierStep
<1>3. Spec => []CursorInv
  BY CursorPair
<1>. QED
  BY <1>1, <1>2, <1>3, TypesAlways, CollectorExclusion, FlagsTruthful,
     WakeAlways, ListAlways, PairAlways, PTL
     DEF Spec, ImplementsBarrier, Barrier!Spec
=============================================================================
