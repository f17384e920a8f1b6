\* One thread; the mark stack overflows.
SPECIFICATION Spec
CONSTANTS
    a = a
    b = b
    c = c
    Objects = {a, b, c}
    Null = Null
    FieldCount = 2
    HandlerCount = 1
    max_stack_size = 1
    Graphs <- Tangles
    RootSets <- ParentOrNone
    MaxSteps = 0
INVARIANTS
    OverflowRecovered
CHECK_DEADLOCK FALSE
