SPECIFICATION CSpec
CONSTANTS
    Stmts = {"defer block", "for", "break", "return"}
    MaxStmts = 5
    MaxOut = 40
INVARIANT
    RunsNewest
