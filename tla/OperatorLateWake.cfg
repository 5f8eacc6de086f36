SPECIFICATION Spec
CONSTANTS
    p1 = p1
    p2 = p2
    Policy = {p1}
    Name <- MCName
    Specs <- OneTimed
    None = None
    MaxTrouble = 1
CHECK_DEADLOCK FALSE
INVARIANT RevocationScheduled
