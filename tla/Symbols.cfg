SPECIFICATION Spec
CONSTANTS
    Identifiers <- Words
    Hash <- LengthHash
    InitialSlots = 2
    DefaultCapacity = 2
    Programs <- Parts
INVARIANTS
    SymbolsTypeOK
    NamesResolve
    StaticsApart
    LifecyclesEnd
CHECK_DEADLOCK FALSE
