SPECIFICATION Spec
CONSTANTS
    a1 = a1
    a2 = a2
    a3 = a3
    a4 = a4
    Zero = Zero
    chairperson = a1
    Address = {a1, a2, a3, a4}
    DelegateTo = {a1, a2, a3, a4}
    Proposals = 2
INVARIANTS
    NoDelegationLoop
    RightsAreCounted
    WinnerHasMost
PROPERTIES
    SupportStays
CHECK_DEADLOCK FALSE
