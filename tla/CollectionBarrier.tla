------------------------- MODULE CollectionBarrier -------------------------
(***************************************************************************)
(* What the safepoint protocol promises the collector: "stop the world"    *)
(* (sources/go.cpp:256-259), which it does thread by thread.  While a      *)
(* collection runs, a thread whose roots have been captured does not       *)
(* execute user code; the others do, until they are captured.  When the    *)
(* heap is swept, no thread executes user code and the roots of every live *)
(* thread have been captured.                                              *)
(***************************************************************************)
CONSTANTS Threads, None

VARIABLES live,       \* threads that own roots
          active,     \* threads that execute user code
          collector,  \* the thread that collects, or None
          captured    \* threads whose roots this collection has seen

vars == <<live, active, collector, captured>>

Init ==
    /\ \E t \in Threads : live = {t} /\ active = {t}
    /\ collector = None
    /\ captured = {}

\* A thread starts or stops executing user code, or ends.
Enter(t) ==
    /\ collector = None
    /\ live' = live \cup {t}
    /\ active' = active \cup {t}
    /\ UNCHANGED <<collector, captured>>

Resume(t) ==
    /\ t \in live \ captured
    /\ active' = active \cup {t}
    /\ UNCHANGED <<live, collector, captured>>

Stop(t) ==
    /\ active' = active \ {t}
    /\ UNCHANGED <<live, collector, captured>>

Leave(t) ==
    /\ t \notin active
    /\ collector = None
    /\ live' = live \ {t}
    /\ UNCHANGED <<active, collector, captured>>

Begin(t) ==
    /\ collector = None
    /\ t \in live
    /\ collector' = t
    /\ UNCHANGED <<live, active, captured>>

Capture(t) ==
    /\ collector # None
    /\ t \in live \ active
    /\ captured' = captured \cup {t}
    /\ UNCHANGED <<live, active, collector>>

\* The sweep: the collector alone goes on from here.
End ==
    /\ collector # None
    /\ active = {}
    /\ captured = live
    /\ active' = {collector}
    /\ collector' = None
    /\ captured' = {}
    /\ UNCHANGED live

Next ==
    \/ \E t \in Threads : \/ Enter(t) \/ Resume(t) \/ Stop(t) \/ Leave(t)
                          \/ Begin(t) \/ Capture(t)
    \/ End

Spec == Init /\ [][Next]_vars
=============================================================================
