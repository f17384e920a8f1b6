\* Programs with two automatic gc_ptrs that do not use the move constructor.
SPECIFICATION Spec
CONSTANTS
    list = list
    tree = tree
    Vars = {v1, v2}
    Composites = {c1, c2}
    Types = {list, tree}
    Members <- MCMembers
    Counts = {1, 2}
    Stride = 10
    MaxDepth = 2
    MaxClears = 1
    Moves = FALSE
    Null = Null
INVARIANTS
    TypeOK
    NoRootLost
    RootsExact
    RefCountsExact
    OffsetsExact
    FlagsTruthful
SYMMETRY Symmetry
