SPECIFICATION Spec
CONSTANTS
    Nibble = {0, 1}
    Key <- MCKey
    Value = {first, second}
    Garbage = Garbage
    MaxPuts = 5
    MaxCommits = 2
INVARIANTS NothingDangles RootIsCanonical
PROPERTY Implements
CHECK_DEADLOCK FALSE
SYMMETRY Symmetry
