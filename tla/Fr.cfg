SPECIFICATION Spec
CONSTANTS
    q = 23
    R = 64
    Word = 8
    ShortLimit = 4
    x = x
    y = y
    Var = {x, y}
    Numbers <- MCNumbers
    Exponents = {0, 1, 5, 6}
    ScalarBits = 3
INVARIANTS
    Canonical
    ReadsAgree
PROPERTY
    ImplementsField
CHECK_DEADLOCK FALSE
