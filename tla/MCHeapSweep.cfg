\* Every program with two cells, one plain pointer and three objects.
\* After a collection that has missed an object in use the program's behaviour
\* is undefined, so the model stops.
SPECIFICATION Spec
CONSTANTS
    a = a
    c = c
    d = d
    e = e
    x = x
    y = y
    ptr = ptr
    t1 = t1
    t2 = t2
    Threads = {t1, t2}
    Objects = {a, c, d}
    Cells = {x, y}
    Raws = {ptr}
    FieldCount <- MCFieldCount
    Sizes <- MCSizes
    Threshold = 4
    FirstMap = 1
    EXPAND_FACTOR = 1
    MaxPages = 4
    MaxBig = 1
    Null = Null
INVARIANTS
    TypeOK
    PagesKept
    RoomExact
    PageFilled
    SweepAsserts
    DeadUnreachable
    RetrySucceeds
PROPERTIES
    PinnedStay
    ImplementsManagedHeap
SYMMETRY Symmetry
CHECK_DEADLOCK FALSE
