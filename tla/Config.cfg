SPECIFICATION Spec
CONSTANTS
    WordBits = 4
    WordBytes = 2
    SparseBitsMax = 4
INVARIANTS AcceptedIsUsable GeometryExact RefusalLeavesNothing
CHECK_DEADLOCK FALSE
