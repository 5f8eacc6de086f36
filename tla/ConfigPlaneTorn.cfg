SPECIFICATION Spec
CONSTANTS
    Caller = {c1}
    Request = {r1}
    Path = {"api", "health"}
    Fleets <- Reset
    None = None
    MaxUpdate = 2
CHECK_DEADLOCK FALSE
INVARIANT ProtectedIsSpared
