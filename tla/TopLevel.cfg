SPECIFICATION RFairSpec
CONSTANTS
    N = 3
    MaxRefs = 1
    Kinds = {"struct", "union", "enum", "other"}
    Uses = {"name", "size", "layout", "member"}
INVARIANTS
    TopLevelTypeOK
    EachOnce
    NamesFirst
    CircularIsReal
    RejectedForOrder
    OrderSuffices
PROPERTIES
    Decided
