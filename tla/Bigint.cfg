SPECIFICATION Spec
CONSTANTS
    Vars = {a, b}
    LimbBits = 2
    Radices = {2, 3}
    Radix = 3
    Widths = {3, 4}
    MaxInt = 20
INVARIANTS
    Represents
    Converts
