SPECIFICATION Spec
CONSTANTS
    s1 = s1
    s2 = s2
    s3 = s3
    Slot = {s1, s2, s3}
    Emission = {e1, e2}
    Comparable = {s1, s2}
    Delegate <- MCDelegate
    Instance <- MCInstance
    Priority <- MCPriority
    ReqId <- RequestedId
SYMMETRY Symmetry
CHECK_DEADLOCK FALSE
INVARIANTS
    NoMissedSlot
    LateCallsBounded
