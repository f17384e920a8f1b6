\* Trees of up to twelve nodes.
SPECIFICATION Spec
CONSTANTS
    Addresses = {1, 2, 3, 4, 5}
    MaxNodes = 12
    MaxHeight = 5
    Null = Null
INVARIANTS
    TreeExact
    TreeBalanced
