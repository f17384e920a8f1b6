----------------------------- MODULE Safepoint -----------------------------
(***************************************************************************)
(* The thread registry and the safepoint protocol of libprecisegc:         *)
(* sources/threading.h, sources/threading.cpp, and the control part of     *)
(* gc(), mark_and_sweep() and clean_deref_roots() in sources/go.cpp.       *)
(*                                                                         *)
(* A section executed under gc_mutex is one action.  The mutex is held     *)
(* from one state to the next only by the collector, between two           *)
(* iterations of its walk over the thread list, because the threads that   *)
(* do not need the mutex run meanwhile.  What marking and sweeping do to   *)
(* the heap is left to other modules: here a handler is "marked" once its  *)
(* roots have been traversed by the collection in progress.                *)
(*                                                                         *)
(* thread_handler and thread are identified; thread_cancel is not          *)
(* modelled; the first thread ends the program by returning from main and  *)
(* never calls thread_exit.                                                *)
(***************************************************************************)
EXTENDS Naturals

CONSTANTS Threads,     \* the threads that may ever exist
          Main,        \* the thread that runs main()
          Null,        \* the null pointer
          MaxNesting,  \* bound: depth of gc_new calls inside constructors
          Spurious     \* may pthread_cond_wait return without a signal?

ASSUME ConstantsAssumption ==
    /\ Main \in Threads
    /\ Null \notin Threads
    /\ MaxNesting \in Nat
    /\ Spurious \in BOOLEAN

VARIABLES
    pc,             \* where each thread is, see PC
    first_thread,   \* head of the list of thread handlers
    next,           \* thread_handler::next
    in_safepoint,   \* thread_handler::flags & 2
    nesting_level,  \* tlvars::nesting_level, reached by handler->tlflags
    more_than_one,
    gc_thread,
    gc_mutex,       \* the thread that holds gc_mutex between two actions
    finished_waiters,  \* threads blocked on condition gc_is_finished
    reached_waiters,   \* threads blocked on condition safepoint_reached
    cursor,         \* `handler' in mark_and_sweep and clean_deref_roots
    marked,         \* handlers whose roots this collection has traversed
    creator,        \* who holds the pthread_t, and may join the thread
    joining,        \* the thread whose end a thread_join waits for
    disturbed       \* history: a thread has been woken without a signal

listVars == <<first_thread, next, more_than_one>>
flagVars == <<in_safepoint, nesting_level>>
gcVars   == <<gc_thread, gc_mutex, cursor, marked>>
waitVars == <<finished_waiters, reached_waiters>>
joinVars == <<creator, joining>>
vars     == <<pc, listVars, flagVars, gcVars, waitVars, joinVars, disturbed>>

PC == { "unborn",     \* not created yet
        "starting",   \* start_routine, before it locks gc_mutex
        "startWait",  \* start_routine, pthread_cond_wait
        "run",        \* user code
        "poll",       \* safepoint(): more_than_one was read as true
        "spWait",     \* without_gc_before, pthread_cond_wait
        "gcCall",     \* gc(), before it locks gc_mutex
        "gcWait",     \* gc(), another thread collects: pthread_cond_wait
        "scan",       \* the collector, at the head of the outer while
        "scanWait",   \* the collector in pthread_cond_wait(&safepoint_reached)
        "sweep",      \* the collector, all handlers walked
        "join",       \* thread_join, in pthread_join
        "joined",     \* thread_join, pthread_join has returned
        "exit",       \* remove_thread, before it locks gc_mutex
        "exitWait",   \* remove_thread, pthread_cond_wait
        "done" }

\* The control points of a thread that has started and not ended, of one
\* whose handler is on the list (that of Main is created when it is first
\* needed), and of a collector.
Live(t) == pc[t] \notin {"unborn", "starting", "startWait", "done"}
Registered(t) == Live(t) /\ (t = Main => first_thread # Null)
Collecting(t) == pc[t] \in {"scan", "scanWait", "sweep"}

\* A thread stopped by the protocol: between enter_safepoint and
\* exit_safepoint.
Parked(t) == pc[t] \in {"spWait", "gcWait", "scan", "scanWait", "sweep",
                        "join", "joined", "exitWait"}

Init ==
    /\ pc = [t \in Threads |-> IF t = Main THEN "run" ELSE "unborn"]
    /\ first_thread = Null
    /\ next = [t \in Threads |-> Null]
    /\ in_safepoint = [t \in Threads |-> FALSE]
    /\ nesting_level = [t \in Threads |-> 0]
    /\ more_than_one = FALSE
    /\ gc_thread = Null
    /\ gc_mutex = Null
    /\ finished_waiters = {}
    /\ reached_waiters = {}
    /\ cursor = Null
    /\ marked = {}
    /\ creator = [t \in Threads |-> Null]
    /\ joining = [t \in Threads |-> Null]
    /\ disturbed = FALSE
-----------------------------------------------------------------------------
Goto(t, label) == pc' = [pc EXCEPT ![t] = label]

\* A step that only moves t on.
Move(t, from, to) ==
    /\ pc[t] = from
    /\ Goto(t, to)
    /\ UNCHANGED <<listVars, flagVars, gcVars, waitVars, joinVars>>

enter_safepoint(t) == in_safepoint' = [in_safepoint EXCEPT ![t] = TRUE]

\* Variant, for the sensitivity of SafepointFlags: the flag stays set.
exit_safepoint_forgotten(t) == t \in Threads /\ UNCHANGED in_safepoint
exit_safepoint(t) == in_safepoint' = [in_safepoint EXCEPT ![t] = FALSE]

\* create_first_handler(), called when the list is empty: the caller is
\* then the first thread, since any other one starts from thread_create.
create_first_handler(t) ==
    first_thread' = IF first_thread = Null THEN t ELSE first_thread

\* pthread_cond_signal(&safepoint_reached)
\* Variant, for the sensitivity of NoLostWakeup and CollectionEnds.
SignalReached_forgotten == UNCHANGED reached_waiters
SignalReached ==
    IF reached_waiters = {}
    THEN UNCHANGED reached_waiters
    ELSE \E w \in reached_waiters : reached_waiters' = reached_waiters \ {w}

\* pthread_cond_broadcast(&gc_is_finished)
\* Variant, for the sensitivity of NoOrphanWaiter and WaiterWoken: signal.
BroadcastFinished_signal ==
    IF finished_waiters = {}
    THEN UNCHANGED finished_waiters
    ELSE \E w \in finished_waiters : finished_waiters' = finished_waiters \ {w}
BroadcastFinished == finished_waiters' = {}

\* pthread_cond_wait(&gc_is_finished, &gc_mutex) by t, and its second half:
\* t has been woken and gets the mutex.
WaitFinished(t) == finished_waiters' = finished_waiters \cup {t}

\* Variant, for the sensitivity of ImplementsBarrier and CursorOnList: t
\* goes on as soon as it gets the mutex.
Woken_early(t) == t \in Threads /\ gc_mutex = Null
Woken(t) == t \notin finished_waiters /\ gc_mutex = Null

\* Enter the safepoint, then wait because a collection runs.
ParkUntilFinished(t, label) ==
    /\ gc_thread # Null
    /\ enter_safepoint(t)
    /\ SignalReached
    /\ WaitFinished(t)
    /\ Goto(t, label)

\* Leave the safepoint for user code, the mutex being free.
ReturnToUser(t) ==
    /\ gc_mutex = Null
    /\ exit_safepoint(t)
    /\ Goto(t, "run")
    /\ UNCHANGED <<listVars, nesting_level, gcVars, waitVars, joinVars>>
-----------------------------------------------------------------------------
(* thread_create: the handler is allocated, the new thread starts. *)
thread_create(t, u) ==
    /\ pc[t] = "run"
    /\ pc[u] = "unborn"
    /\ create_first_handler(t)
    /\ Goto(u, "starting")
    /\ creator' = [creator EXCEPT ![u] = t]
    /\ UNCHANGED <<next, more_than_one, flagVars, gcVars, waitVars, joining>>

\* The second half of the section in start_routine: push the handler.
\* Variant, for the sensitivity of RegistryComplete: the rest of the list
\* is lost.
PushHandler_lost(t) ==
    /\ more_than_one' = TRUE
    /\ first_thread' = t
    /\ Goto(t, "run")
    /\ UNCHANGED <<next, flagVars, gcVars, waitVars, joinVars>>

PushHandler(t) ==
    /\ more_than_one' = TRUE
    /\ next' = [next EXCEPT ![t] = first_thread]
    /\ first_thread' = t
    /\ Goto(t, "run")
    /\ UNCHANGED <<flagVars, gcVars, waitVars, joinVars>>

start_routine_wait(t) ==
    /\ pc[t] = "starting"
    /\ gc_mutex = Null
    /\ gc_thread # Null
    /\ WaitFinished(t)
    /\ Goto(t, "startWait")
    /\ UNCHANGED <<listVars, flagVars, gcVars, reached_waiters, joinVars>>

start_routine_pass(t) ==
    /\ pc[t] = "starting"
    /\ gc_mutex = Null
    /\ gc_thread = Null
    /\ PushHandler(t)

start_routine_woken(t) ==
    /\ pc[t] = "startWait"
    /\ Woken(t)
    /\ PushHandler(t)
-----------------------------------------------------------------------------
(* safepoint(): the unlocked read of more_than_one ... *)
safepoint(t) ==
    /\ more_than_one
    /\ Move(t, "run", "poll")
    /\ UNCHANGED disturbed

(* ... then without_gc_before and without_gc_after.  Without a collection  *)
(* the flag is set and reset under the mutex.                              *)
without_gc_wait(t) ==
    /\ pc[t] = "poll"
    /\ gc_mutex = Null
    /\ ParkUntilFinished(t, "spWait")
    /\ UNCHANGED <<listVars, nesting_level, gcVars, joinVars>>

without_gc_pass(t)  == pc[t] = "poll" /\ gc_thread = Null /\ ReturnToUser(t)
without_gc_woken(t) == pc[t] = "spWait" /\ Woken(t) /\ ReturnToUser(t)

(* gc_new: nesting_level++ after the allocation, -- when the object is     *)
(* constructed.  The constructor in between is user code.                  *)
SetNesting(t, n) ==
    /\ pc[t] = "run"
    /\ nesting_level' = [nesting_level EXCEPT ![t] = n]
    /\ UNCHANGED <<pc, listVars, in_safepoint, gcVars, waitVars, joinVars>>

BeginConstruction(t) ==
    nesting_level[t] < MaxNesting /\ SetNesting(t, nesting_level[t] + 1)

\* Variant, for the sensitivity of TypeOK: -- without a matching ++.
EndConstruction_unmatched(t) == SetNesting(t, nesting_level[t] - 1)
EndConstruction(t) ==
    nesting_level[t] > 0 /\ SetNesting(t, nesting_level[t] - 1)
-----------------------------------------------------------------------------
(* gc(), called by the user, by gcmalloc or by register_dereferenced_root. *)
CallGc(t) == Move(t, "run", "gcCall")

gc_refused(t) ==
    /\ pc[t] = "gcCall"
    /\ gc_mutex = Null
    /\ nesting_level[t] # 0
    /\ create_first_handler(t)
    /\ Goto(t, "run")
    /\ UNCHANGED <<next, more_than_one, flagVars, gcVars, waitVars, joinVars>>

\* Variant, for the sensitivity of OneCollector: gc_thread is not tested.
MayCollect_always(t) == nesting_level[t] = 0
MayCollect(t) == nesting_level[t] = 0 /\ gc_thread = Null

gc_start(t) ==
    /\ pc[t] = "gcCall"
    /\ gc_mutex = Null
    /\ MayCollect(t)
    /\ create_first_handler(t)
    /\ enter_safepoint(t)
    /\ gc_thread' = t
    /\ gc_mutex' = t
    /\ cursor' = first_thread'
    /\ marked' = {}
    /\ Goto(t, "scan")
    /\ UNCHANGED <<next, more_than_one, nesting_level, waitVars, joinVars>>

gc_wait(t) ==
    /\ pc[t] = "gcCall"
    /\ gc_mutex = Null
    /\ nesting_level[t] = 0
    /\ ParkUntilFinished(t, "gcWait")
    /\ UNCHANGED <<listVars, nesting_level, gcVars, joinVars>>

gc_woken(t) == pc[t] = "gcWait" /\ Woken(t) /\ ReturnToUser(t)

(* The walk over the handlers: wait until the handler is in a safepoint,   *)
(* traverse its roots, go to the next one.                                 *)
\* Variant, for the sensitivity of StopTheWorld: the flag is not tested.
thread_in_safepoint_assumed(h) == h \in Threads
thread_in_safepoint(h) == in_safepoint[h]

ScanWait(t) ==
    /\ pc[t] = "scan"
    /\ cursor # Null
    /\ ~thread_in_safepoint(cursor)
    /\ reached_waiters' = reached_waiters \cup {t}
    /\ gc_mutex' = Null
    /\ Goto(t, "scanWait")
    /\ UNCHANGED <<listVars, flagVars, gc_thread, cursor, marked,
                   finished_waiters, joinVars>>

ScanWoken(t) ==
    /\ pc[t] = "scanWait"
    /\ t \notin reached_waiters
    /\ gc_mutex = Null
    /\ gc_mutex' = t
    /\ Goto(t, "scan")
    /\ UNCHANGED <<listVars, flagVars, gc_thread, cursor, marked, waitVars,
                   joinVars>>

ScanHandler(t) ==
    /\ pc[t] = "scan"
    /\ cursor # Null
    /\ thread_in_safepoint(cursor)
    /\ marked' = marked \cup {cursor}
    /\ cursor' = next[cursor]
    /\ UNCHANGED <<pc, listVars, flagVars, gc_thread, gc_mutex, waitVars,
                   joinVars>>

\* Variant, for the sensitivity of AllRootsMarked: the loop ends at the last
\* handler.
ScanDone_early(t) ==
    (cursor # Null => next[cursor] = Null) /\ Move(t, "scan", "sweep")
ScanDone(t) == cursor = Null /\ Move(t, "scan", "sweep")

(* The end of gc(): sweep has moved the objects; every waiter is woken.    *)
gc_finish(t) ==
    /\ pc[t] = "sweep"
    /\ gc_thread' = Null
    /\ gc_mutex' = Null
    /\ marked' = {}
    /\ exit_safepoint(t)
    /\ BroadcastFinished
    /\ Goto(t, "run")
    /\ UNCHANGED <<listVars, nesting_level, cursor, reached_waiters, joinVars>>
-----------------------------------------------------------------------------
(* thread_join: the caller counts as parked while it is in pthread_join,   *)
(* and leaves the safepoint afterwards without looking at gc_thread.       *)
thread_join(t, u) ==
    /\ pc[t] = "run"
    /\ creator[u] = t
    /\ gc_mutex = Null
    /\ enter_safepoint(t)
    /\ IF gc_thread # Null THEN SignalReached ELSE UNCHANGED reached_waiters
    /\ joining' = [joining EXCEPT ![t] = u]
    /\ creator' = [creator EXCEPT ![u] = Null]
    /\ Goto(t, "join")
    /\ UNCHANGED <<listVars, nesting_level, gcVars, finished_waiters>>

pthread_join_returns(t) ==
    /\ pc[t] = "join"
    /\ pc[joining[t]] = "done"
    /\ joining' = [joining EXCEPT ![t] = Null]
    /\ Goto(t, "joined")
    /\ UNCHANGED <<listVars, flagVars, gcVars, waitVars, creator>>

thread_join_leave(t) == pc[t] = "joined" /\ ReturnToUser(t)
-----------------------------------------------------------------------------
(* The thread's routine returns, or it calls thread_exit. *)
EndRoutine(t) ==
    t # Main /\ nesting_level[t] = 0 /\ Move(t, "run", "exit")

\* The handler list without t, and more_than_one reset when one is left.
\* The code dereferences first_thread after the unlink: Main, never
\* unlinked, keeps it from being null.
Predecessor(t) == CHOOSE p \in Threads : Registered(p) /\ next[p] = t

\* Variant, for the sensitivity of MoreThanOneExact: no reset.
MoreThanOneLeft_forgotten == more_than_one
MoreThanOneLeft == more_than_one /\ next'[first_thread'] # Null

Unlink(t) ==
    /\ IF first_thread = t
       THEN /\ first_thread' = next[t]
            /\ next' = [next EXCEPT ![t] = Null]
       ELSE /\ next' = [next EXCEPT ![Predecessor(t)] = next[t], ![t] = Null]
            /\ UNCHANGED first_thread
    /\ more_than_one' = MoreThanOneLeft
    /\ exit_safepoint(t)
    /\ Goto(t, "done")
    /\ UNCHANGED <<nesting_level, gcVars, waitVars, joinVars>>

(* remove_thread(pthread_self()) *)
remove_thread_wait(t) ==
    /\ pc[t] = "exit"
    /\ gc_mutex = Null
    /\ ParkUntilFinished(t, "exitWait")
    /\ UNCHANGED <<listVars, nesting_level, gcVars, joinVars>>

remove_thread_pass(t) ==
    /\ pc[t] = "exit"
    /\ gc_mutex = Null
    /\ gc_thread = Null
    /\ Unlink(t)

remove_thread_woken(t) == pc[t] = "exitWait" /\ Woken(t) /\ Unlink(t)

(* pthread_cond_wait may return though nobody signalled. *)
SpuriousWakeup(t) ==
    /\ Spurious
    /\ t \in finished_waiters \cup reached_waiters
    /\ finished_waiters' = finished_waiters \ {t}
    /\ reached_waiters' = reached_waiters \ {t}
    /\ disturbed' = TRUE
    /\ UNCHANGED <<pc, listVars, flagVars, gcVars, joinVars>>
-----------------------------------------------------------------------------
\* What a thread does once it has left user code.
Protocol(t) ==
    /\ \/ start_routine_wait(t) \/ start_routine_pass(t) \/ start_routine_woken(t)
       \/ without_gc_wait(t) \/ without_gc_pass(t) \/ without_gc_woken(t)
       \/ gc_refused(t) \/ gc_start(t) \/ gc_wait(t) \/ gc_woken(t)
       \/ ScanWait(t) \/ ScanWoken(t) \/ ScanHandler(t) \/ ScanDone(t)
       \/ gc_finish(t)
       \/ pthread_join_returns(t) \/ thread_join_leave(t)
       \/ remove_thread_wait(t) \/ remove_thread_pass(t) \/ remove_thread_woken(t)
    /\ UNCHANGED disturbed

\* What user code chooses to do.
User(t) ==
    /\ \/ BeginConstruction(t) \/ EndConstruction(t)
       \/ CallGc(t)
       \/ EndRoutine(t)
       \/ \E u \in Threads : thread_create(t, u) \/ thread_join(t, u)
    /\ UNCHANGED disturbed

Next == \E t \in Threads :
    Protocol(t) \/ safepoint(t) \/ User(t) \/ SpuriousWakeup(t)

Spec == Init /\ [][Next]_vars

\* Every thread is scheduled; and user code, whatever else it does again and
\* again, meets safepoints again and again (every access through a gc_ptr is
\* one).  The latter is the assumption the collector makes when it waits: a
\* thread that computes for ever without one stops every collection.
Fairness == \A t \in Threads : WF_vars(Protocol(t)) /\ SF_vars(safepoint(t))
FairSpec == Spec /\ Fairness
-----------------------------------------------------------------------------
PointerOrNull == Threads \cup {Null}

Types ==
    /\ pc \in [Threads -> PC]
    /\ first_thread \in PointerOrNull
    /\ next \in [Threads -> PointerOrNull]
    /\ in_safepoint \in [Threads -> BOOLEAN]
    /\ nesting_level \in [Threads -> 0..MaxNesting]
    /\ more_than_one \in BOOLEAN
    /\ gc_thread \in PointerOrNull
    /\ gc_mutex \in PointerOrNull
    /\ finished_waiters \subseteq Threads
    /\ reached_waiters \subseteq Threads
    /\ cursor \in PointerOrNull
    /\ marked \subseteq Threads
    /\ creator \in [Threads -> PointerOrNull]
    /\ joining \in [Threads -> PointerOrNull]

\* The types of the variables.
TypeOK == Types /\ disturbed \in BOOLEAN
-----------------------------------------------------------------------------
(* The flag the collector polls (threading.h:24-26) tells the truth: it is *)
(* set exactly while its thread is between enter_safepoint and             *)
(* exit_safepoint, at every one of the five places that park a thread.     *)
SafepointFlags == \A t \in Threads : in_safepoint[t] <=> Parked(t)

(* gc_thread (go.cpp:171-179) designates the one thread inside             *)
(* mark_and_sweep or clean_deref_roots: no two threads collect at once,    *)
(* and gc_mutex is held while roots are walked and the heap is swept.      *)
OneCollector == \A t \in Threads :
    /\ gc_thread = t <=> Collecting(t)
    /\ gc_mutex = t <=> pc[t] \in {"scan", "sweep"}

(* No wakeup of the collector is lost (go.cpp:246-249, 271-274): as long   *)
(* as it sleeps, the thread it sleeps for has not reached a safepoint.     *)
NoLostWakeup == \A t \in reached_waiters :
    /\ gc_thread = t
    /\ cursor # Null
    /\ ~in_safepoint[cursor]

(* Nobody sleeps on gc_is_finished unless a collection runs that will      *)
(* broadcast it (go.cpp:181).                                              *)
NoOrphanWaiter == finished_waiters # {} => gc_thread # Null

\* A set that holds the head of the list and what its members point to, and
\* the handlers that the list holds: those that every such set holds.
Closed(S) ==
    /\ first_thread # Null => first_thread \in S
    /\ \A t \in S : next[t] # Null => next[t] \in S
Handlers == {t \in Threads : \A S \in SUBSET Threads : Closed(S) => t \in S}

(* The list that the collector walks holds exactly the threads that run    *)
(* user code or are parked, whatever the order in which threads start,     *)
(* wait for a collection and end (threading.cpp:50-66, 82-90): a handler   *)
(* lost by an unlink would leave its roots unmarked.                       *)
RegistryComplete == Handlers = {t \in Threads : Registered(t)}

(* more_than_one, read without the mutex by every safepoint (threading.h:  *)
(* 47), is false only while there is one registered thread: a thread that  *)
(* skips its safepoint cannot keep a collector waiting.                    *)
MoreThanOneExact ==
    more_than_one <=> \E t, u \in Threads :
                          t # u /\ Registered(t) /\ Registered(u)

(* The handler on which the collector has stopped (go.cpp:246, 271) is     *)
(* still on the list when the collector goes on with handler->next, unless *)
(* a wait has returned without a signal: there is no loop around it.       *)
CursorOnList == ~disturbed => (cursor # Null => Registered(cursor))

(* "Stop the world" (go.cpp:258): once the handlers are walked and the     *)
(* heap is swept, no other thread executes user code.                      *)
StopTheWorld ==
    \A c \in Threads : pc[c] = "sweep" => \A t \in Threads : pc[t] # "run"

(* All roots are walked (go.cpp:275, 279): when the heap is swept, the     *)
(* root stack of every registered thread has been traversed.               *)
AllRootsMarked ==
    \A c \in Threads : pc[c] = "sweep" =>
        \A t \in Threads : Registered(t) => t \in marked

(* The protocol implements the barrier that a collection relies on.  User  *)
(* code runs in the threads at "run".                                      *)
Barrier == INSTANCE CollectionBarrier WITH
    None <- Null,
    live <- {t \in Threads : Live(t)},
    active <- {t \in Threads : pc[t] = "run"},
    collector <- gc_thread,
    captured <- marked

(* Stop the world as a whole (go.cpp:256-308): at no step does a thread    *)
(* whose roots were walked resume before gc_finish, and the sweep happens  *)
(* when all live threads were walked and none runs.                        *)
ImplementsBarrier == Barrier!Spec

(* A collection ends: every thread it waits for reaches a safepoint, and   *)
(* the collector sees it (go.cpp:171-181), unless a wait has returned      *)
(* without a signal.                                                       *)
CollectionEnds ==
    \A t \in Threads : gc_thread = t ~> (gc_thread # t \/ disturbed)

(* A thread that starts sleeping on gc_is_finished is woken, at each of    *)
(* the four places that sleep on it, in the same case.                     *)
WaiterWoken ==
    \A t \in Threads :
        t \in finished_waiters ~> (t \notin finished_waiters \/ disturbed)
=============================================================================
