SPECIFICATION Spec
CONSTANTS
    Identifiers <- Words
    Hash <- LengthHash
    InitialSlots = 2
    DefaultCapacity = 2
    Programs <- Nested
INVARIANT ConstantsAreStatic
CHECK_DEADLOCK FALSE
