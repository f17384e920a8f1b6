SPECIFICATION Spec
CONSTANTS
    main = main
    t1 = t1
    t2 = t2
    Threads = {main, t1, t2}
    Main = main
    Null = Null
    MaxNesting = 1
    Spurious = FALSE
INVARIANTS
    StopTheWorld
SYMMETRY Symmetry
