\* The mark phase with two threads, of which one may run for two steps; the
\* mark stack has room for two objects.
SPECIFICATION FairSpec
CONSTANTS
    a = a
    b = b
    c = c
    Objects = {a, b, c}
    Null = Null
    FieldCount = 2
    HandlerCount = 2
    max_stack_size = 2
    Graphs <- SmallGraphs
    RootSets <- OneOfTwo
    MaxSteps = 2
INVARIANTS
    TypeOK
    TriColour
    MarkComplete
    MarkSound
    PinExact
PROPERTIES
    HandlesExact
    MarkingEnds
CHECK_DEADLOCK FALSE
