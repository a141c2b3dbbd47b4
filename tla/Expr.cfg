SPECIFICATION Spec
CONSTANTS
    Types = {"bool", "byte", "u8", "s8", "usize", "ssize", "integer"}
    SmallBits = 2
    SizeBits = 3
    MaxUnsized = 5
    Count = 2
INVARIANTS
    ExprTypeOK
    SameValue
    RefusalsAgree
