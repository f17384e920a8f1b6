\* Three threads, two objects and an address to which they may move.
\* A division by zero ends the program, so the model may stop.
SPECIFICATION Spec
CHECK_DEADLOCK FALSE
CONSTANTS
    Threads = {t1, t2, t3}
    Objects = {o1, o2}
    Addresses = {a1, a2, a3}
    mmap_count = 2
    MaxHandles = 4
    FirstFactor = 4
    Null = Null
INVARIANTS
    CountExact
    PlainValid
SYMMETRY Symmetry
