SPECIFICATION Spec
CONSTANTS
    Declared = {1}
    Instances = {2}
    ScalarSizes = {1, 2}
    Word = 2
    UINTMAX_MAX = 63
    Counts = {0, 3, 31}
    MaxTypes = 2
    MaxMembers = 3
INVARIANTS
    LayoutTypeOK
    MembersApart
    CAgrees
CHECK_DEADLOCK FALSE
