\* Three threads, a fair scheduler, spurious wakeups.
SPECIFICATION FairSpec
CONSTANTS
    main = main
    t1 = t1
    t2 = t2
    Threads = {main, t1, t2}
    Main = main
    Null = Null
    MaxNesting = 1
    Spurious = TRUE
INVARIANTS
    CursorOnList
    SafepointFlags
    OneCollector
    NoLostWakeup
    NoOrphanWaiter
    RegistryComplete
    MoreThanOneExact
PROPERTIES
    CollectionEnds
    WaiterWoken
