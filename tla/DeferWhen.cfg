SPECIFICATION CFairSpec
CONSTANTS
    Stmts = {"defer expr", "if", "when none"}
    MaxStmts = 3
    MaxOut = 40
PROPERTY
    NoneForgotten
