SPECIFICATION Spec
CONSTANTS
    Documented = FALSE
    Vocabularies <- Parts
INVARIANTS
    ParserTypeOK
    ReadsGrammar
    RefusesOnlyErrors
    TreeIsPrecedence
CHECK_DEADLOCK FALSE
