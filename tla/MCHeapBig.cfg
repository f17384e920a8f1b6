\* An object with a gc_ptr lies in a big block.
\* After a collection that has missed an object in use the program's behaviour
\* is undefined, so the model stops.
SPECIFICATION Spec
CONSTANTS
    a = a
    c = c
    d = d
    e = e
    x = x
    y = y
    ptr = ptr
    t1 = t1
    t2 = t2
    Threads = {t1, t2}
    Objects = {a, e}
    Cells = {x, y}
    Raws = {}
    FieldCount <- MCFieldCount
    Sizes <- MCSizes
    Threshold = 4
    FirstMap = 1
    EXPAND_FACTOR = 2
    MaxPages = 7
    MaxBig = 1
    Null = Null
INVARIANTS
    NoneDangles
CHECK_DEADLOCK FALSE
