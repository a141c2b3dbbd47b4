SPECIFICATION CFairSpec
CONSTANTS
    Stmts = {"defer expr", "defer block", "if", "for", "when", "when none", "break", "continue", "return"}
    MaxStmts = 4
    MaxOut = 40
INVARIANTS
    ResolveTypeOK
    ListIsScope
    ExitsUnwind
    LoopIsTracked
    CTypeOK
    WalksTheList
PROPERTIES
    KeepsPromise
    CodegenEnds
