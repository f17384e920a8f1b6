\* The first thread and one more: the world does stop.
SPECIFICATION Spec
CONSTANTS
    main = main
    t1 = t1
    Threads = {main, t1}
    Main = main
    Null = Null
    MaxNesting = 1
    Spurious = FALSE
INVARIANTS
    TypeOK
    StopTheWorld
    AllRootsMarked
PROPERTIES
    ImplementsBarrier
