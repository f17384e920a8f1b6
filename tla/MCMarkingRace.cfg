\* Two threads, of which one may run while the other one's roots are walked.
SPECIFICATION Spec
CONSTANTS
    a = a
    b = b
    Objects = {a, b}
    Null = Null
    FieldCount = 2
    HandlerCount = 2
    max_stack_size = 2
    Graphs <- BareOnly
    RootSets <- NoneOrOne
    MaxSteps = 2
INVARIANTS
    AllMarked
CHECK_DEADLOCK FALSE
